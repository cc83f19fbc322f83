----------------------------- MODULE CommentProofs -----------------------------
(***************************************************************************)
(* First what the operators of CommentLog do to a log of any length: what   *)
(* deduplication, ordering and the fold keep, and what appending, merging,  *)
(* re-anchoring and compacting change.  Then theorems about CommentService, *)
(* for any number of handlers, requests, versions and events: ids name one  *)
(* comment each, no event that was acknowledged is lost, what is deleted    *)
(* stays deleted, a publish changes only anchors and leaves them resolved,  *)
(* a reaction to a reply flips, and earlier versions keep their content.    *)
(***************************************************************************)
EXTENDS CommentProperties, Recursion, FiniteSetTheorems

-------------------------------------------------------------------------------
(* Logs.                                                                   *)

EIDs(s) == {s[i].eid : i \in 1 .. Len(s)}

\* An event is known by its id: where it is in the log, where it begins, and what
\* was written last.
Where(s, x) == {j \in DOMAIN s : s[j].eid = x}
Begins(s, x) == FirstOf(Where(s, x))
Written(s, x) == s[Latest(Where(s, x))]

\* The order in which the fold applies them.
Earlier(s, x, y) ==
    \/ Written(s, x).atv < Written(s, y).atv
    \/ Written(s, x).atv = Written(s, y).atv /\ Begins(s, x) < Begins(s, y)

LEMMA WhereItIs ==
    ASSUME NEW V, NEW s \in Seq(V), NEW x \in EIDs(s)
    PROVE  /\ Where(s, x) \in SUBSET Nat /\ Where(s, x) # {}
           /\ Where(s, x) = {j \in 1 .. Len(s) : s[j].eid = x}
           /\ Begins(s, x) \in Where(s, x) /\ \A j \in Where(s, x) : Begins(s, x) <= j
           /\ Latest(Where(s, x)) \in Where(s, x) /\ \A j \in Where(s, x) : j <= Latest(Where(s, x))
           /\ Written(s, x) \in V /\ Written(s, x).eid = x
  <1> DEFINE S == Where(s, x)
  <1>1. S = {j \in 1 .. Len(s) : s[j].eid = x} /\ Len(s) \in Nat
    BY DEF Where
  <1>2. S \in SUBSET Nat /\ S # {} /\ \A n \in S : n <= Len(s)
    BY <1>1 DEF EIDs
  <1>3. Written(s, x) = s[Latest(S)] /\ Begins(s, x) = FirstOf(S)
    BY DEF Written, Begins
  <1> HIDE DEF S
  <1>4. \E m \in S : \A n \in S : n <= m
    BY <1>1, <1>2, GreatestOf
  <1>5. Latest(S) \in S /\ \A n \in S : n <= Latest(S)
    BY <1>4 DEF Latest
  <1>6. \E m \in S : \A n \in S : m <= n
    BY <1>2, LeastOf
  <1>7. FirstOf(S) \in S /\ \A n \in S : FirstOf(S) <= n
    BY <1>6 DEF FirstOf
  <1>8. s[Latest(S)] \in V /\ s[Latest(S)].eid = x
    BY <1>1, <1>5
  <1> QED BY <1>1, <1>2, <1>3, <1>5, <1>7, <1>8 DEF S

\* A log without repetitions, in the order of the first occurrences.
LEMMA DedupInOrder ==
    ASSUME NEW V \in SUBSET EventRecord, NEW s \in Seq(V)
    PROVE  LET d == DedupEvents(s)
           IN  /\ d \in Seq(V) /\ EIDs(d) = EIDs(s)
               /\ \A k \in 1 .. Len(d) : d[k] = Written(s, d[k].eid)
               /\ \A j, k \in 1 .. Len(d) : j < k => Begins(s, d[j].eid) < Begins(s, d[k].eid)
  <1> DEFINE t == [i \in DOMAIN s |-> s[Latest(SameEID(s, i))]]
             F == FirstOfEID(s)
             d == Subsequence(t, F)
  <1>1. DedupEvents(s) = d
    BY DEF DedupEvents
  <1>2. DOMAIN s = 1 .. Len(s) /\ Len(s) \in Nat
    OBVIOUS
  <1>3. ASSUME NEW i \in 1 .. Len(s) PROVE SameEID(s, i) = Where(s, s[i].eid) /\ s[i].eid \in EIDs(s)
    BY <1>2 DEF SameEID, Where, EIDs
  <1>4. ASSUME NEW i \in 1 .. Len(s)
        PROVE  t[i] = Written(s, s[i].eid) /\ t[i] \in V /\ t[i].eid = s[i].eid
    <2>1. t[i] = s[Latest(SameEID(s, i))]
      BY <1>2
    <2>2. t[i] = Written(s, s[i].eid)
      BY <1>3, <2>1 DEF Written
    <2>3. Written(s, s[i].eid) \in V /\ Written(s, s[i].eid).eid = s[i].eid
      BY <1>3, WhereItIs
    <2> QED BY <2>2, <2>3
  <1>5. t \in Seq(V) /\ Len(t) = Len(s)
    <2>1. t = [i \in 1 .. Len(s) |-> t[i]]
      BY <1>2
    <2> HIDE DEF t
    <2> QED BY <1>2, <1>4, <2>1
  <1> HIDE DEF t
  <1>6. d \in Seq(V)
    BY <1>5, SubsequencePicks
  <1>7. PICK at : Picks(at, t, F \cap (1 .. Len(s)), d)
    BY <1>5, SubsequencePicks
  <1>8. ASSUME NEW i \in F \cap (1 .. Len(s)) PROVE Begins(s, s[i].eid) = i
    <2> DEFINE x == s[i].eid
    <2>1. i \in Where(s, x) /\ \A j \in Where(s, x) : i <= j
      BY <1>2, <1>3 DEF F, FirstOfEID, Where
    <2>2. x \in EIDs(s)
      BY <1>3
    <2> HIDE DEF x
    <2>3. /\ Begins(s, x) \in Where(s, x) /\ \A j \in Where(s, x) : Begins(s, x) <= j
          /\ Where(s, x) \in SUBSET Nat
      BY <2>2, WhereItIs
    <2>4. Begins(s, x) <= i /\ i <= Begins(s, x) /\ Begins(s, x) \in Nat
      BY <2>1, <2>3
    <2>5. Begins(s, x) = i
      BY <2>4
    <2> QED BY <2>5 DEF x
  <1>9. ASSUME NEW x \in EIDs(s) PROVE Begins(s, x) \in F \cap (1 .. Len(s)) /\ s[Begins(s, x)].eid = x
    <2> DEFINE i == Begins(s, x)
    <2>1. /\ i \in 1 .. Len(s) /\ s[i].eid = x /\ \A j \in Where(s, x) : i <= j
      BY WhereItIs
    <2> HIDE DEF i
    <2>2. i \in DOMAIN s /\ SameEID(s, i) = Where(s, x)
      BY <1>2, <1>3, <2>1
    <2>3. i \in F
      BY <2>1, <2>2 DEF F, FirstOfEID
    <2> QED BY <2>1, <2>3 DEF i
  <1> HIDE DEF d, F
  <1>10. \A k \in 1 .. Len(d) : at[k] \in F \cap (1 .. Len(s)) /\ d[k] = t[at[k]]
    BY <1>7 DEF Picks
  <1>11. \A k \in 1 .. Len(d) : d[k].eid = s[at[k]].eid /\ d[k] = Written(s, d[k].eid)
    BY <1>4, <1>10
  <1>12. \A k \in 1 .. Len(d) : Begins(s, d[k].eid) = at[k]
    BY <1>8, <1>10, <1>11
  <1>13. \A j, k \in 1 .. Len(d) : j < k => Begins(s, d[j].eid) < Begins(s, d[k].eid)
    BY <1>7, <1>12 DEF Picks
  <1>14. EIDs(d) = EIDs(s)
    <2>1. \A k \in 1 .. Len(d) : d[k].eid \in EIDs(s)
      BY <1>3, <1>10, <1>11
    <2>2. ASSUME NEW x \in EIDs(s) PROVE x \in EIDs(d)
      <3>1. PICK k \in 1 .. Len(d) : at[k] = Begins(s, x)
        BY <1>7, <1>9 DEF Picks
      <3>2. d[k].eid = x
        BY <1>9, <1>11, <3>1
      <3> QED BY <3>2 DEF EIDs
    <2> QED BY <2>1, <2>2 DEF EIDs
  <1> QED BY <1>1, <1>6, <1>11, <1>13, <1>14

\* Deduplication forgets no id.
LEMMA DedupKeepsIDs ==
    ASSUME NEW V \in SUBSET EventRecord, NEW s \in Seq(V)
    PROVE  DedupEvents(s) \in Seq(V) /\ EIDs(DedupEvents(s)) = EIDs(s)
  BY DedupInOrder

\* The stable sort puts each event at a place of its own, and leaves none empty.
LEMMA PlacesAreTaken ==
    ASSUME NEW d \in Seq(EventRecord)
    PROVE  /\ \A i \in 1 .. Len(d) : Place(d, i) \in 1 .. Len(d)
           /\ \A k \in 1 .. Len(d) : \E i \in 1 .. Len(d) : Place(d, i) = k
           /\ \A i, j \in 1 .. Len(d) : Place(d, i) = Place(d, j) => i = j
           /\ \A i, j \in 1 .. Len(d) : Place(d, i) < Place(d, j) =>
                 d[i].atv < d[j].atv \/ (d[i].atv = d[j].atv /\ i < j)
  <1> DEFINE n == Len(d)
             D == 1 .. n
             upto(i) == {j \in D : d[j].atv < d[i].atv \/ (d[j].atv = d[i].atv /\ j <= i)}
  <1>0. n \in Nat /\ \A i \in D : d[i].atv \in Nat
    <2>1. n \in Nat /\ \A i \in D : d[i] \in EventRecord
      OBVIOUS
    <2> QED BY <2>1 DEF EventRecord
  <1>1. IsFiniteSet(D) /\ Cardinality(D) = n
    <2>1. IsFiniteSet(D) /\ Cardinality(D) = IF 1 > n THEN 0 ELSE n - 1 + 1
      <3> HIDE DEF n
      <3> QED BY <1>0, FS_Interval
    <2> QED BY <1>0, <2>1
  <1>2. ASSUME NEW i PROVE Place(d, i) = Cardinality(upto(i))
    <2>1. {j \in DOMAIN d : d[j].atv < d[i].atv \/ (d[j].atv = d[i].atv /\ j <= i)} = upto(i)
      OBVIOUS
    <2> QED BY <2>1 DEF Place
  <1> HIDE DEF n
  <1>3. ASSUME NEW i
        PROVE  IsFiniteSet(upto(i)) /\ Cardinality(upto(i)) \in Nat /\ Cardinality(upto(i)) <= n
    <2> DEFINE U == upto(i)
    <2>1. U \in SUBSET D
      OBVIOUS
    <2> HIDE DEF U
    <2>2. IsFiniteSet(U) /\ Cardinality(U) <= n
      BY <1>1, <2>1, FS_Subset
    <2>3. Cardinality(U) \in Nat
      BY <2>2, FS_CardinalityType
    <2> QED BY <2>2, <2>3 DEF U
  <1>4. ASSUME NEW i \in D PROVE Place(d, i) \in D
    <2>1. i \in upto(i)
      BY <1>0
    <2>2. upto(i) # {}
      BY <2>1
    <2>3. Place(d, i) = Cardinality(upto(i)) /\ IsFiniteSet(upto(i))
          /\ Cardinality(upto(i)) \in Nat /\ Cardinality(upto(i)) <= n
      BY <1>2, <1>3
    <2> HIDE DEF upto
    <2>4. Cardinality(upto(i)) # 0
      BY <2>2, <2>3, FS_EmptySet
    <2> QED BY <1>0, <2>3, <2>4
  <1>5. ASSUME NEW i \in D, NEW j \in D, i # j, j \in upto(i)
        PROVE  Place(d, j) # Place(d, i) /\ ~(Place(d, i) < Place(d, j))
    <2>1. upto(j) \subseteq upto(i) /\ i \in upto(i) /\ i \notin upto(j)
      BY <1>0, <1>5
    <2>2. upto(j) # upto(i)
      BY <2>1
    <2>3. /\ IsFiniteSet(upto(i)) /\ Cardinality(upto(i)) \in Nat /\ Cardinality(upto(j)) \in Nat
          /\ Place(d, i) = Cardinality(upto(i)) /\ Place(d, j) = Cardinality(upto(j))
      BY <1>2, <1>3
    <2> HIDE DEF upto
    <2>4. Cardinality(upto(j)) <= Cardinality(upto(i)) /\ Cardinality(upto(j)) # Cardinality(upto(i))
      BY <2>1, <2>2, <2>3, FS_Subset
    <2> QED BY <2>3, <2>4
  <1>6. ASSUME NEW i \in D, NEW j \in D, i # j PROVE Place(d, j) # Place(d, i)
    <2>1. j \in upto(i) \/ i \in upto(j)
      BY <1>0
    <2> QED BY <1>5, <1>6, <2>1
  <1>t. ASSUME NEW i \in D, NEW j \in D, Place(d, i) < Place(d, j)
        PROVE  d[i].atv < d[j].atv \/ (d[i].atv = d[j].atv /\ i < j)
    <2>1. i # j
      BY <1>4, <1>t
    <2>2. j \notin upto(i)
      BY <1>5, <1>t, <2>1
    <2>3. ~(d[j].atv < d[i].atv) /\ ~(d[j].atv = d[i].atv /\ j <= i)
      BY <2>2
    <2> QED BY <1>0, <2>3
  <1> DEFINE f == [i \in D |-> Place(d, i)]
  <1>7. f \in Injection(D, D)
    BY <1>4, <1>6 DEF Injection, IsInjective
  <1>8. f \in Surjection(D, D)
    <2> HIDE DEF f, D
    <2> QED BY <1>1, <1>7, FS_Injection
  <1>9. \A k \in D : \E i \in D : f[i] = k
    BY <1>8 DEF Surjection
  <1> QED BY <1>4, <1>6, <1>9, <1>t DEF n

\* The events in order are those of the deduplicated log, each once.
LEMMA InOrder ==
    ASSUME NEW V \in SUBSET EventRecord, NEW s \in Seq(V)
    PROVE  LET o == orderedEvents(s)
           IN  /\ o \in Seq(V) /\ EIDs(o) = EIDs(s)
               /\ \A k \in 1 .. Len(o) : o[k] = Written(s, o[k].eid)
               /\ \A j, k \in 1 .. Len(o) : j < k => Earlier(s, o[j].eid, o[k].eid)
  <1> DEFINE d == DedupEvents(s)
             from(k) == CHOOSE i \in DOMAIN d : Place(d, i) = k
             o == [k \in DOMAIN d |-> d[from(k)]]
  <1>1. orderedEvents(s) = o
    BY DEF orderedEvents
  <1>2. /\ d \in Seq(V) /\ EIDs(d) = EIDs(s) /\ d \in Seq(EventRecord)
        /\ \A k \in 1 .. Len(d) : d[k] = Written(s, d[k].eid)
        /\ \A j, k \in 1 .. Len(d) : j < k => Begins(s, d[j].eid) < Begins(s, d[k].eid)
    <2>1. /\ d \in Seq(V) /\ EIDs(d) = EIDs(s)
          /\ \A k \in 1 .. Len(d) : d[k] = Written(s, d[k].eid)
          /\ \A j, k \in 1 .. Len(d) : j < k => Begins(s, d[j].eid) < Begins(s, d[k].eid)
      BY DedupInOrder
    <2> HIDE DEF d
    <2>2. d \in Seq(EventRecord)
      BY <2>1
    <2> QED BY <2>1, <2>2
  <1> HIDE DEF d
  <1>3. DOMAIN d = 1 .. Len(d) /\ Len(d) \in Nat
    BY <1>2
  <1>4. \A k \in DOMAIN d : from(k) \in DOMAIN d /\ Place(d, from(k)) = k
    BY <1>2, <1>3, PlacesAreTaken
  <1>5. \A i \in DOMAIN d : Place(d, i) \in DOMAIN d /\ from(Place(d, i)) = i
    BY <1>2, <1>3, <1>4, PlacesAreTaken
  <1> HIDE DEF from
  <1>6. o \in Seq(V) /\ Len(o) = Len(d) /\ \A k \in DOMAIN d : o[k] = d[from(k)]
    BY <1>2, <1>3, <1>4
  <1> HIDE DEF o
  <1>7. ASSUME NEW k \in 1 .. Len(o) PROVE o[k].eid \in EIDs(d)
    BY <1>3, <1>4, <1>6 DEF EIDs
  <1>8. ASSUME NEW i \in 1 .. Len(d) PROVE d[i].eid \in EIDs(o)
    <2>1. Place(d, i) \in 1 .. Len(o) /\ o[Place(d, i)] = d[i]
      BY <1>3, <1>5, <1>6
    <2> QED BY <2>1 DEF EIDs
  <1>9. EIDs(o) = EIDs(d)
    BY <1>7, <1>8 DEF EIDs
  <1>10. \A k \in 1 .. Len(o) : o[k] = Written(s, o[k].eid)
    BY <1>2, <1>3, <1>4, <1>6
  <1>11. ASSUME NEW j \in 1 .. Len(o), NEW k \in 1 .. Len(o), j < k
         PROVE  Earlier(s, o[j].eid, o[k].eid)
    <2> DEFINE a == from(j)
               b == from(k)
    <2>1. a \in 1 .. Len(d) /\ b \in 1 .. Len(d) /\ o[j] = d[a] /\ o[k] = d[b] /\ Place(d, a) < Place(d, b)
      BY <1>3, <1>4, <1>6, <1>11
    <2> HIDE DEF a, b
    <2>2. d[a].atv < d[b].atv \/ (d[a].atv = d[b].atv /\ a < b)
      BY <1>2, <2>1, PlacesAreTaken
    <2>3. d[a] = Written(s, d[a].eid) /\ d[b] = Written(s, d[b].eid)
      BY <1>2, <2>1
    <2>4. a < b => Begins(s, d[a].eid) < Begins(s, d[b].eid)
      BY <1>2, <2>1
    <2>5. Earlier(s, d[a].eid, d[b].eid)
      BY <2>2, <2>3, <2>4 DEF Earlier
    <2> QED BY <2>1, <2>5
  <1>12. o \in Seq(V) /\ EIDs(o) = EIDs(s)
    BY <1>2, <1>6, <1>9
  <1> QED BY <1>1, <1>10, <1>11, <1>12

LEMMA OrderedLog ==
    ASSUME NEW V \in SUBSET EventRecord, NEW s \in Seq(V)
    PROVE  orderedEvents(s) \in Seq(V) /\ EIDs(orderedEvents(s)) = EIDs(s)
  BY InOrder

-------------------------------------------------------------------------------
(* Snapshots.                                                              *)

Marks == SUBSET (STRING \X STRING)
ReplyRecord == [id : Nat, author : STRING, verdict : STRING, deleted : BOOLEAN, reactions : Marks]
SnapshotRecord ==
    [anchor : AnchorRecord, status : STRING, appliedIn : Nat, deleted : BOOLEAN, verdict : STRING,
     reactions : Marks, replies : Seq(ReplyRecord)]

LEMMA NoAnchorTyped == NoAnchor \in AnchorRecord
  <1>1. "none" \in STRING /\ "" \in STRING
    BY WordsAssumption DEF Words
  <1> QED BY <1>1 DEF NoAnchor, AnchorRecord

LEMMA EmptyTyped == emptySnapshot \in SnapshotRecord
  <1>1. {} \in Marks /\ <<>> \in Seq(ReplyRecord)
    BY DEF Marks
  <1>2. "open" \in STRING /\ "" \in STRING
    BY WordsAssumption DEF Words
  <1> QED BY <1>1, <1>2, NoAnchorTyped DEF emptySnapshot, SnapshotRecord

LEMMA ReactionTyped ==
    ASSUME NEW set \in Marks, NEW e \in EventRecord, NEW added
    PROVE  applyReaction(set, e, added) \in Marks
  <1>1. e.emoji \in STRING /\ e.by \in STRING
    BY DEF EventRecord
  <1>2. <<e.emoji, e.by>> \in STRING \X STRING
    BY <1>1
  <1> QED BY <1>2 DEF applyReaction, Marks

LEMMA ReplyTyped ==
    ASSUME NEW snap \in SnapshotRecord, NEW e \in EventRecord
    PROVE  applyReplyEvent(snap, e) \in SnapshotRecord
  <1> DEFINE old == snap.replies
             new == [i \in DOMAIN old |-> touchReply(old[i], e)]
             grown == Append(old, [id |-> e.rid, author |-> e.by, verdict |-> e.verdict,
                                   deleted |-> FALSE, reactions |-> {}])
  <1>1. old \in Seq(ReplyRecord) /\ DOMAIN old = 1 .. Len(old) /\ Len(old) \in Nat
    BY DEF SnapshotRecord
  <1>2. e.rid \in Nat /\ e.by \in STRING /\ e.verdict \in STRING
    BY DEF EventRecord
  <1>3. grown \in Seq(ReplyRecord)
    <2>1. [id |-> e.rid, author |-> e.by, verdict |-> e.verdict, deleted |-> FALSE, reactions |-> {}]
            \in ReplyRecord
      BY <1>2 DEF ReplyRecord, Marks
    <2> QED BY <1>1, <2>1
  <1>4. ASSUME NEW i \in DOMAIN old PROVE touchReply(old[i], e) \in ReplyRecord
    <2>1. old[i] \in ReplyRecord
      BY <1>1
    <2>2. old[i].reactions \in Marks
      BY <2>1 DEF ReplyRecord
    <2>3. applyReaction(old[i].reactions, e, "reply_reaction_added") \in Marks
      BY <2>2, ReactionTyped
    <2> HIDE DEF old
    <2> QED BY <2>1, <2>3 DEF ReplyRecord, touchReply
  <1> HIDE DEF old
  <1>5. new \in Seq(ReplyRecord)
    BY <1>1, <1>4
  <1> HIDE DEF new
  <1>6. CASE e.kind = "reply_added"
    <2>1. applyReplyEvent(snap, e) = [snap EXCEPT !.replies = grown]
      BY <1>6 DEF applyReplyEvent, addReply, old
    <2> HIDE DEF grown
    <2> QED BY <1>3, <2>1 DEF SnapshotRecord
  <1>7. CASE e.kind # "reply_added"
    <2>1. applyReplyEvent(snap, e) = [snap EXCEPT !.replies = new]
      BY <1>7 DEF applyReplyEvent, old, new
    <2> QED BY <1>5, <2>1 DEF SnapshotRecord
  <1> QED BY <1>6, <1>7

LEMMA ApplyTyped ==
    ASSUME NEW snap \in SnapshotRecord, NEW e \in EventRecord
    PROVE  applyCommentEvent(snap, e) \in SnapshotRecord
  <1>1. e.anchor \in AnchorRecord /\ e.atv \in Nat /\ e.verdict \in STRING
    BY DEF EventRecord
  <1>w. "open" \in STRING /\ "applied" \in STRING
    BY WordsAssumption DEF Words
  <1>2. applyContentEvent(snap, e) \in SnapshotRecord
    BY <1>1, <1>w DEF applyContentEvent, SnapshotRecord
  <1>3. e.kind \in {"marked_applied", "marked_open", "deleted"} =>
            applyStatusEvent(snap, e) \in SnapshotRecord
    BY <1>1, <1>w DEF applyStatusEvent, SnapshotRecord
  <1>4. [snap EXCEPT !.reactions = applyReaction(@, e, "reaction_added")] \in SnapshotRecord
    <2>1. snap.reactions \in Marks
      BY DEF SnapshotRecord
    <2>2. applyReaction(snap.reactions, e, "reaction_added") \in Marks
      BY <2>1, ReactionTyped
    <2> QED BY <2>2 DEF SnapshotRecord
  <1>5. applyReplyEvent(snap, e) \in SnapshotRecord
    BY ReplyTyped
  <1> QED BY <1>2, <1>3, <1>4, <1>5 DEF applyCommentEvent

\* The fold, one event after the other.
LEMMA ReplayLoop ==
    ASSUME NEW c, c.events \in Seq(EventRecord), NEW v
    PROVE  LET evs == orderedEvents(c.events)
           IN  \E u \in [0 .. Len(evs) -> SnapshotRecord] :
                  /\ replay(c, v) = u[Len(evs)]
                  /\ u[0] = emptySnapshot
                  /\ \A i \in 1 .. Len(evs) :
                        u[i] = IF Shows(evs[i], v) THEN applyCommentEvent(u[i - 1], evs[i]) ELSE u[i - 1]
  <1> DEFINE evs == orderedEvents(c.events)
             n == Len(evs)
             V == SnapshotRecord
             body(g) == [i \in 0 .. n |-> IF i = 0 THEN emptySnapshot
                                          ELSE IF Shows(evs[i], v) THEN applyCommentEvent(g[i - 1], evs[i])
                                          ELSE g[i - 1]]
             step == [i \in 1 .. n |->
                        [q \in V |-> IF Shows(evs[i], v) THEN applyCommentEvent(q, evs[i]) ELSE q]]
             u == CHOOSE g : g = body(g)
  <1>0. replay(c, v) = u[n]
    BY DEF replay
  <1>1. evs \in Seq(EventRecord)
    BY OrderedLog
  <1> HIDE DEF evs
  <1>2. n \in Nat /\ \A i \in 1 .. n : evs[i] \in EventRecord
    BY <1>1
  <1> HIDE DEF n, V
  <1>3. \A i \in 1 .. n : \A q \in V :
            (IF Shows(evs[i], v) THEN applyCommentEvent(q, evs[i]) ELSE q) \in V
    BY <1>2, ApplyTyped DEF V
  <1>4. step \in [1 .. n -> [V -> V]]
    BY <1>3
  <1>5. \A i \in 1 .. n : \A q \in V :
            step[i][q] = IF Shows(evs[i], v) THEN applyCommentEvent(q, evs[i]) ELSE q
    OBVIOUS
  <1> HIDE DEF step
  <1>6. PICK g : IsRun(g, V, n, emptySnapshot, step)
    BY <1>2, <1>4, EmptyTyped, Iterates DEF IsLoop, V
  <1>7. g = body(g)
    <2>1. g = [i \in 0 .. n |-> g[i]] /\ g[0] = emptySnapshot
      BY <1>6 DEF IsRun
    <2>2. \A i \in 0 .. n : i # 0 => i \in 1 .. n /\ g[i - 1] \in V /\ g[i] = step[i][g[i - 1]]
      BY <1>2, <1>6 DEF IsRun
    <2>3. \A i \in 0 .. n : i # 0 =>
             g[i] = IF Shows(evs[i], v) THEN applyCommentEvent(g[i - 1], evs[i]) ELSE g[i - 1]
      BY <1>5, <2>2
    <2> QED BY <2>1, <2>3
  <1>8. u = body(u)
    BY <1>7
  <1>9. /\ u[0] = emptySnapshot
        /\ \A i \in 1 .. n : u[i] = IF Shows(evs[i], v) THEN applyCommentEvent(u[i - 1], evs[i]) ELSE u[i - 1]
    <2> DEFINE e == body(u)
    <2>1. /\ e[0] = emptySnapshot
          /\ \A i \in 1 .. n : e[i] = IF Shows(evs[i], v) THEN applyCommentEvent(u[i - 1], evs[i]) ELSE u[i - 1]
      BY <1>2
    <2>2. u = e
      BY <1>8
    <2> HIDE DEF e, u
    <2> QED BY <2>1, <2>2
  <1>10. u = [i \in 0 .. n |-> u[i]]
    BY <1>8
  <1> HIDE DEF u
  <1> DEFINE T == {k \in Nat : u[k] \in V}
  <1>11. 0 \in T
    BY <1>9, EmptyTyped DEF V
  <1>12. ASSUME NEW k \in 0 .. (n - 1), k \in T PROVE k + 1 \in T
    <2>1. k + 1 \in 1 .. n /\ k + 1 \in Nat /\ (k + 1) - 1 = k /\ u[k] \in V
      BY <1>2, <1>12
    <2>2. u[k + 1] = IF Shows(evs[k + 1], v) THEN applyCommentEvent(u[k], evs[k + 1]) ELSE u[k]
      BY <1>9, <2>1
    <2> QED BY <1>3, <2>1, <2>2
  <1>13. \A k \in 0 .. n : k \in T
    <2> HIDE DEF T
    <2> QED BY <1>2, <1>11, <1>12, InductUpTo
  <1>14. u \in [0 .. n -> V]
    BY <1>10, <1>13
  <1> QED BY <1>0, <1>9, <1>14 DEF V, n, evs

LEMMA AnchorTyped ==
    ASSUME NEW c, c.events \in Seq(EventRecord), NEW v
    PROVE  SnapshotAt(c, v).anchor \in AnchorRecord
  <1>1. PICK u \in [0 .. Len(orderedEvents(c.events)) -> SnapshotRecord] :
            replay(c, v) = u[Len(orderedEvents(c.events))]
    BY ReplayLoop
  <1>2. orderedEvents(c.events) \in Seq(EventRecord)
    BY OrderedLog
  <1>3. replay(c, v) \in SnapshotRecord
    BY <1>1, <1>2
  <1>4. SnapshotAt(c, v).anchor = replay(c, v).anchor
    BY <1>3 DEF SnapshotAt, finalize, SnapshotRecord
  <1> QED BY <1>3, <1>4 DEF SnapshotRecord

-------------------------------------------------------------------------------
(* Comparing two folds.                                                    *)

\* What the event with id x does to a snapshot of version v.
Effect(s, x, v, q) == IF Shows(Written(s, x), v) THEN applyCommentEvent(q, Written(s, x)) ELSE q

\* u is the fold of the log s at version v, f the ids in the order of its n steps.
Folding(n, f, u, s, v) ==
    /\ n \in Nat
    /\ \A k \in 1 .. n : f[k] \in EIDs(s)
    /\ \A x \in EIDs(s) : \E k \in 1 .. n : f[k] = x
    /\ \A j, k \in 1 .. n : j < k => Earlier(s, f[j], f[k])
    /\ \A k \in 0 .. n : u[k] \in SnapshotRecord
    /\ u[0] = emptySnapshot
    /\ \A k \in 1 .. n : u[k] = Effect(s, f[k], v, u[k - 1])

LEMMA FoldOf ==
    ASSUME NEW c, c.events \in Seq(EventRecord), NEW v
    PROVE  \E n, f, u : Folding(n, f, u, c.events, v) /\ replay(c, v) = u[n]
  <1> DEFINE s == c.events
             o == orderedEvents(s)
             n == Len(o)
             f == [k \in 1 .. n |-> o[k].eid]
  <1>1. /\ o \in Seq(EventRecord) /\ EIDs(o) = EIDs(s)
        /\ \A k \in 1 .. Len(o) : o[k] = Written(s, o[k].eid)
        /\ \A j, k \in 1 .. Len(o) : j < k => Earlier(s, o[j].eid, o[k].eid)
    BY InOrder
  <1>2. PICK u \in [0 .. n -> SnapshotRecord] :
            /\ replay(c, v) = u[n]
            /\ u[0] = emptySnapshot
            /\ \A i \in 1 .. n :
                  u[i] = IF Shows(o[i], v) THEN applyCommentEvent(u[i - 1], o[i]) ELSE u[i - 1]
    BY ReplayLoop
  <1> HIDE DEF s, o
  <1>3. n \in Nat
    BY <1>1
  <1>4. \A k \in 1 .. n : f[k] = o[k].eid /\ o[k] = Written(s, f[k])
    BY <1>1
  <1> HIDE DEF n, f
  <1>5. \A k \in 1 .. n : f[k] \in EIDs(s)
    BY <1>1, <1>4 DEF EIDs, n
  <1>6. \A x \in EIDs(s) : \E k \in 1 .. n : f[k] = x
    BY <1>1, <1>4 DEF EIDs, n
  <1>7. \A j, k \in 1 .. n : j < k => Earlier(s, f[j], f[k])
    BY <1>1, <1>4 DEF n
  <1>8. \A k \in 1 .. n : u[k] = Effect(s, f[k], v, u[k - 1])
    BY <1>2, <1>4 DEF Effect
  <1>9. \A k \in 0 .. n : u[k] \in SnapshotRecord
    BY <1>2
  <1>10. Folding(n, f, u, s, v)
    BY <1>2, <1>3, <1>5, <1>6, <1>7, <1>8, <1>9 DEF Folding
  <1> QED BY <1>2, <1>10 DEF s

LEMMA EarlierIsAnOrder ==
    ASSUME NEW s \in Seq(EventRecord), NEW x \in EIDs(s), NEW y \in EIDs(s), Earlier(s, x, y)
    PROVE  ~Earlier(s, y, x) /\ x # y
  <1>1. /\ Written(s, x) \in EventRecord /\ Written(s, y) \in EventRecord
        /\ Begins(s, x) \in 1 .. Len(s) /\ Begins(s, y) \in 1 .. Len(s)
    BY WhereItIs
  <1>2. Written(s, x).atv \in Nat /\ Written(s, y).atv \in Nat
    BY <1>1 DEF EventRecord
  <1>3. Begins(s, x) \in Int /\ Begins(s, y) \in Int
    BY <1>1
  <1> QED BY <1>2, <1>3 DEF Earlier

\* Two folds, of s at v and of t at w, that meet the events in X in the same order: Q
\* relates the snapshots before and after each of them, and before and after any
\* other event of s, or of t among those in Y.
Alike(s, v, t, w, X, Y, Q) ==
    /\ X \subseteq EIDs(s) /\ X \subseteq EIDs(t)
    /\ \A x, y \in X : Earlier(s, x, y) => Earlier(t, x, y)
    /\ <<emptySnapshot, emptySnapshot>> \in Q
    /\ \A x \in EIDs(s) \ X : \A q, r \in SnapshotRecord :
          <<q, r>> \in Q => <<Effect(s, x, v, q), r>> \in Q
    /\ \A y \in Y \ X : \A q, r \in SnapshotRecord :
          <<q, r>> \in Q => <<q, Effect(t, y, w, r)>> \in Q
    /\ \A x \in X : \A q, r \in SnapshotRecord :
          <<q, r>> \in Q => <<Effect(s, x, v, q), Effect(t, x, w, r)>> \in Q

\* Then Q relates the fold of s and any step of the fold of t that has met all of X.
LEMMA FoldsAgree ==
    ASSUME NEW s \in Seq(EventRecord), NEW t \in Seq(EventRecord), NEW v, NEW w,
           NEW X, NEW Y, NEW Q, Alike(s, v, t, w, X, Y, Q),
           NEW n, NEW f, NEW a, Folding(n, f, a, s, v),
           NEW m, NEW g, NEW b, Folding(m, g, b, t, w),
           NEW k \in 0 .. m,
           \A j \in 1 .. k : g[j] \in Y,
           \A x \in X : \E j \in 1 .. k : g[j] = x
    PROVE  <<a[n], b[k]>> \in Q
  <1>1. /\ n \in Nat
        /\ \A i \in 1 .. n : f[i] \in EIDs(s)
        /\ \A x \in EIDs(s) : \E i \in 1 .. n : f[i] = x
        /\ \A h, i \in 1 .. n : h < i => Earlier(s, f[h], f[i])
        /\ \A i \in 0 .. n : a[i] \in SnapshotRecord
        /\ a[0] = emptySnapshot
        /\ \A i \in 1 .. n : a[i] = Effect(s, f[i], v, a[i - 1])
    BY DEF Folding
  <1>2. /\ m \in Nat /\ k \in Nat
        /\ \A i \in 1 .. k : i \in 1 .. m /\ g[i] \in EIDs(t)
        /\ \A h, i \in 1 .. k : h < i => Earlier(t, g[h], g[i])
        /\ \A i \in 0 .. k : b[i] \in SnapshotRecord
        /\ b[0] = emptySnapshot
        /\ \A i \in 1 .. k : b[i] = Effect(t, g[i], w, b[i - 1])
    <2>1. m \in Nat /\ k \in Nat /\ (\A i \in 1 .. k : i \in 1 .. m) /\ \A i \in 0 .. k : i \in 0 .. m
      BY DEF Folding
    <2> QED BY <2>1 DEF Folding
  <1>3. ASSUME NEW h \in 1 .. n, NEW i \in 1 .. n, NEW j \in 1 .. k, NEW l \in 1 .. k,
               Matched(f, g, X, h, j), Matched(f, g, X, i, l), h < i
        PROVE  j < l
    <2>1. f[h] = g[j] /\ f[i] = g[l] /\ f[h] \in X /\ f[i] \in X
      BY <1>3 DEF Matched
    <2>2. Earlier(t, g[j], g[l])
      BY <1>1, <1>3, <2>1 DEF Alike
    <2>3. ~Earlier(t, g[l], g[j]) /\ g[j] # g[l]
      BY <1>2, <2>2, EarlierIsAnOrder
    <2>4. ~(l < j) /\ j # l
      BY <1>2, <2>3
    <2> QED BY <1>2, <2>4
  <1>4. ASSUME NEW h \in 1 .. n, NEW i \in 1 .. n, NEW j \in 1 .. k, NEW l \in 1 .. k,
               Matched(f, g, X, h, j), Matched(f, g, X, i, l), j < l
        PROVE  h < i
    <2>1. ~(i < h)
      BY <1>2, <1>3, <1>4
    <2>2. f[h] = g[j] /\ f[i] = g[l]
      BY <1>4 DEF Matched
    <2>3. Earlier(t, g[j], g[l])
      BY <1>2, <1>4
    <2>4. g[j] # g[l]
      BY <1>2, <2>3, EarlierIsAnOrder
    <2> QED BY <1>1, <2>1, <2>2, <2>4
  <1>5. /\ \A i \in 1 .. n : f[i] \in X => \E j \in 1 .. k : g[j] = f[i]
        /\ \A j \in 1 .. k : g[j] \in X => \E i \in 1 .. n : f[i] = g[j]
    BY <1>1 DEF Alike
  <1>6. <<a[0], b[0]>> \in Q
    BY <1>1, <1>2 DEF Alike
  <1>7. ASSUME NEW i \in 1 .. n, NEW j \in 0 .. k, f[i] \notin X, <<a[i - 1], b[j]>> \in Q
        PROVE  <<a[i], b[j]>> \in Q
    <2>1. a[i - 1] \in SnapshotRecord /\ b[j] \in SnapshotRecord /\ f[i] \in EIDs(s) \ X
      BY <1>1, <1>2, <1>7
    <2> QED BY <1>1, <1>7, <2>1 DEF Alike
  <1>8. ASSUME NEW i \in 0 .. n, NEW j \in 1 .. k, g[j] \notin X, <<a[i], b[j - 1]>> \in Q
        PROVE  <<a[i], b[j]>> \in Q
    <2>1. a[i] \in SnapshotRecord /\ b[j - 1] \in SnapshotRecord /\ g[j] \in Y \ X
      BY <1>1, <1>2, <1>8
    <2> QED BY <1>2, <1>8, <2>1 DEF Alike
  <1>9. ASSUME NEW i \in 1 .. n, NEW j \in 1 .. k, Matched(f, g, X, i, j),
               <<a[i - 1], b[j - 1]>> \in Q
        PROVE  <<a[i], b[j]>> \in Q
    <2>1. a[i - 1] \in SnapshotRecord /\ b[j - 1] \in SnapshotRecord /\ f[i] \in X /\ g[j] = f[i]
      BY <1>1, <1>2, <1>9 DEF Matched
    <2>2. \A q, r \in SnapshotRecord :
              <<q, r>> \in Q => <<Effect(s, f[i], v, q), Effect(t, f[i], w, r)>> \in Q
      BY <2>1 DEF Alike
    <2>3. <<Effect(s, f[i], v, a[i - 1]), Effect(t, f[i], w, b[j - 1])>> \in Q
      BY <1>9, <2>1, <2>2
    <2>4. a[i] = Effect(s, f[i], v, a[i - 1]) /\ b[j] = Effect(t, g[j], w, b[j - 1])
      BY <1>1, <1>2, <1>9
    <2> QED BY <2>1, <2>3, <2>4
  <1>10. InLockstep(n, k, f, g, X, Q, a, b)
    BY <1>1, <1>2, <1>3, <1>4, <1>5, <1>6, <1>7, <1>8, <1>9 DEF InLockstep
  <1> QED BY <1>10, Lockstep

LEMMA ReplaysAgree ==
    ASSUME NEW c, c.events \in Seq(EventRecord), NEW d, d.events \in Seq(EventRecord),
           NEW v, NEW w, NEW X, NEW Q,
           Alike(c.events, v, d.events, w, X, EIDs(d.events), Q)
    PROVE  /\ replay(c, v) \in SnapshotRecord /\ replay(d, w) \in SnapshotRecord
           /\ <<replay(c, v), replay(d, w)>> \in Q
  <1> DEFINE s == c.events
             t == d.events
  <1>1. PICK n, f, a : Folding(n, f, a, s, v) /\ replay(c, v) = a[n]
    BY FoldOf
  <1>2. PICK m, g, b : Folding(m, g, b, t, w) /\ replay(d, w) = b[m]
    BY FoldOf
  <1>3. /\ m \in Nat /\ n \in Nat /\ \A j \in 1 .. m : g[j] \in EIDs(t)
        /\ \A x \in X : \E j \in 1 .. m : g[j] = x
        /\ a[n] \in SnapshotRecord /\ b[m] \in SnapshotRecord
    <2>1. m \in Nat /\ n \in Nat
      BY <1>1, <1>2 DEF Folding
    <2>2. m \in 0 .. m /\ n \in 0 .. n
      BY <2>1
    <2> QED BY <1>1, <1>2, <2>1, <2>2 DEF Folding, Alike
  <1>4. m \in 0 .. m
    BY <1>3
  <1>5. <<a[n], b[m]>> \in Q
    <2>1. Alike(s, v, t, w, X, EIDs(t), Q)
      OBVIOUS
    <2>2. s \in Seq(EventRecord) /\ t \in Seq(EventRecord)
      OBVIOUS
    <2> HIDE DEF s, t
    <2> QED BY <1>1, <1>2, <1>3, <1>4, <2>1, <2>2, FoldsAgree
  <1> QED BY <1>1, <1>2, <1>3, <1>5

\* What a log with the same events in the same order shows is the same.
LEMMA SameShows ==
    ASSUME NEW c, c.events \in Seq(EventRecord), NEW d, d.events \in Seq(EventRecord), NEW v,
           EIDs(d.events) = EIDs(c.events),
           \A x \in EIDs(c.events) : Written(d.events, x) = Written(c.events, x),
           \A x, y \in EIDs(c.events) : Earlier(c.events, x, y) => Earlier(d.events, x, y)
    PROVE  replay(d, v) = replay(c, v)
  <1> DEFINE s == c.events
             t == d.events
             Q == {<<q, q>> : q \in SnapshotRecord}
  <1>1. \A x \in EIDs(s) : \A q \in SnapshotRecord :
            Effect(s, x, v, q) \in SnapshotRecord /\ Effect(t, x, v, q) = Effect(s, x, v, q)
    <2> SUFFICES ASSUME NEW x \in EIDs(s), NEW q \in SnapshotRecord
                 PROVE  Effect(s, x, v, q) \in SnapshotRecord /\ Effect(t, x, v, q) = Effect(s, x, v, q)
      OBVIOUS
    <2>1. Written(s, x) \in EventRecord
      BY WhereItIs
    <2> QED BY <2>1, ApplyTyped DEF Effect
  <1>2. \A q, r : <<q, r>> \in Q <=> q \in SnapshotRecord /\ r = q
    OBVIOUS
  <1> HIDE DEF Q
  <1>3. Alike(s, v, t, v, EIDs(s), EIDs(t), Q)
    <2>1. <<emptySnapshot, emptySnapshot>> \in Q
      BY <1>2, EmptyTyped
    <2> QED BY <1>1, <1>2, <2>1 DEF Alike
  <1>4. <<replay(c, v), replay(d, v)>> \in Q
    BY <1>3, ReplaysAgree
  <1> QED BY <1>2, <1>4

\* Compaction is invisible (events.go:124).
LEMMA CompactionIsInvisible ==
    ASSUME NEW c \in StoredComment, NEW v
    PROVE  SnapshotAt([c EXCEPT !.events = DedupEvents(@)], v) = SnapshotAt(c, v)
  <1> DEFINE s == c.events
             t == DedupEvents(s)
             d == [c EXCEPT !.events = t]
  <1>0. s \in Seq(EventRecord)
    <2>1. s \in Seq(StampedEvent) /\ StampedEvent \subseteq EventRecord
      BY DEF StoredComment, StampedEvent
    <2> QED BY <2>1
  <1>1. /\ t \in Seq(EventRecord) /\ EIDs(t) = EIDs(s)
        /\ \A k \in 1 .. Len(t) : t[k] = Written(s, t[k].eid)
        /\ \A j, k \in 1 .. Len(t) : j < k => Begins(s, t[j].eid) < Begins(s, t[k].eid)
    BY <1>0, DedupInOrder
  <1>2. \A x \in EIDs(s) : Begins(s, x) \in Nat
    BY <1>0, WhereItIs
  <1> HIDE DEF t
  <1>3. ASSUME NEW x \in EIDs(s)
        PROVE  /\ Begins(t, x) \in 1 .. Len(t) /\ t[Begins(t, x)].eid = x
               /\ Written(t, x) = Written(s, x)
    <2>1. /\ Begins(t, x) \in Where(t, x) /\ Latest(Where(t, x)) \in Where(t, x)
          /\ Where(t, x) = {j \in 1 .. Len(t) : t[j].eid = x}
      BY <1>1, WhereItIs
    <2> QED BY <1>1, <2>1 DEF Written
  <1>4. ASSUME NEW x \in EIDs(s), NEW y \in EIDs(s), Earlier(s, x, y)
        PROVE  Earlier(t, x, y)
    <2>1. CASE Begins(s, x) < Begins(s, y)
      <3>1. ~(Begins(s, y) < Begins(s, x)) /\ x # y
        BY <1>2, <2>1
      <3>2. Begins(t, x) < Begins(t, y)
        BY <1>1, <1>3, <3>1
      <3> QED BY <1>3, <1>4, <3>2 DEF Earlier
    <2>2. CASE ~(Begins(s, x) < Begins(s, y))
      BY <1>3, <1>4, <2>2 DEF Earlier
    <2> QED BY <2>1, <2>2
  <1>5. d.events = t
    BY DEF StoredComment
  <1>6. [c EXCEPT !.events = DedupEvents(@)] = d
    BY DEF t
  <1> HIDE DEF d
  <1>7. replay(d, v) = replay(c, v)
    BY <1>0, <1>1, <1>3, <1>4, <1>5, SameShows
  <1> QED BY <1>6, <1>7 DEF SnapshotAt

\* What appending does to a log: an id that is not among the new ones stays where it is.
LEMMA AppendedLog ==
    ASSUME NEW s \in Seq(EventRecord), NEW new \in Seq(EventRecord)
    PROVE  LET t == s \o new
           IN  /\ t \in Seq(EventRecord) /\ EIDs(t) = EIDs(s) \cup EIDs(new)
               /\ \A x \in EIDs(s) \ EIDs(new) :
                     Written(t, x) = Written(s, x) /\ Begins(t, x) = Begins(s, x)
               /\ \A x \in EIDs(new) : \E i \in 1 .. Len(new) : Written(t, x) = new[i]
               /\ \A x \in EIDs(new) \ EIDs(s) : Begins(t, x) > Len(s)
  <1> DEFINE t == s \o new
             n == Len(s)
  <1>1. /\ t \in Seq(EventRecord) /\ n \in Nat /\ Len(new) \in Nat /\ Len(t) = n + Len(new)
        /\ \A i \in 1 .. n : t[i] = s[i]
        /\ \A i \in 1 .. Len(new) : t[n + i] = new[i]
        /\ DOMAIN t = 1 .. Len(t) /\ DOMAIN s = 1 .. n
    OBVIOUS
  <1>2. ASSUME NEW i \in 1 .. Len(t)
        PROVE  \/ i \in 1 .. n /\ t[i] = s[i]
               \/ i > n /\ i - n \in 1 .. Len(new) /\ t[i] = new[i - n]
    <2>1. CASE i <= n
      BY <1>1, <2>1
    <2>2. CASE i > n
      <3>1. i - n \in 1 .. Len(new) /\ n + (i - n) = i
        BY <1>1, <2>2
      <3> QED BY <1>1, <2>2, <3>1
    <2> QED BY <1>1, <2>1, <2>2
  <1>3. \A i \in 1 .. n : i \in 1 .. Len(t)
    BY <1>1
  <1>4. \A i \in 1 .. Len(new) : n + i \in 1 .. Len(t) /\ n + i > n
    BY <1>1
  <1> HIDE DEF t, n
  <1>5. EIDs(t) = EIDs(s) \cup EIDs(new)
    <2>1. ASSUME NEW x \in EIDs(t) PROVE x \in EIDs(s) \cup EIDs(new)
      BY <1>2 DEF EIDs, n
    <2>2. ASSUME NEW x \in EIDs(s) PROVE x \in EIDs(t)
      <3>1. PICK i \in 1 .. n : s[i].eid = x
        BY DEF EIDs, n
      <3>2. i \in 1 .. Len(t) /\ t[i].eid = x
        BY <1>1, <1>3, <3>1
      <3> QED BY <3>2 DEF EIDs
    <2>3. ASSUME NEW x \in EIDs(new) PROVE x \in EIDs(t)
      <3>1. PICK i \in 1 .. Len(new) : new[i].eid = x
        BY DEF EIDs
      <3>2. n + i \in 1 .. Len(t) /\ t[n + i].eid = x
        BY <1>1, <1>4, <3>1
      <3> QED BY <3>2 DEF EIDs
    <2> QED BY <2>1, <2>2, <2>3
  <1>6. ASSUME NEW x \in EIDs(s) \ EIDs(new)
        PROVE  Written(t, x) = Written(s, x) /\ Begins(t, x) = Begins(s, x)
    <2>1. \A i \in 1 .. Len(new) : new[i].eid # x
      BY DEF EIDs
    <2>2. ASSUME NEW i PROVE i \in Where(t, x) <=> i \in Where(s, x)
      <3>1. i \in Where(t, x) <=> i \in 1 .. Len(t) /\ t[i].eid = x
        BY <1>1 DEF Where
      <3>2. i \in Where(s, x) <=> i \in 1 .. n /\ s[i].eid = x
        BY <1>1 DEF Where
      <3> QED BY <1>1, <1>2, <1>3, <2>1, <3>1, <3>2
    <2>3. Where(t, x) = Where(s, x)
      BY <2>2
    <2>4. Latest(Where(s, x)) \in 1 .. n
      BY WhereItIs DEF n
    <2> QED BY <1>1, <2>3, <2>4 DEF Written, Begins
  <1>7. ASSUME NEW x \in EIDs(new) PROVE \E i \in 1 .. Len(new) : Written(t, x) = new[i]
    <2> DEFINE j == Latest(Where(t, x))
    <2>1. PICK i \in 1 .. Len(new) : new[i].eid = x
      BY DEF EIDs
    <2>2. n + i \in 1 .. Len(t) /\ t[n + i].eid = x
      BY <1>1, <1>4, <2>1
    <2>3. n + i \in Where(t, x)
      BY <1>1, <2>2 DEF Where
    <2>4. j \in 1 .. Len(t) /\ n + i <= j
      BY <1>1, <1>5, <2>3, WhereItIs
    <2> HIDE DEF j
    <2>5. j > n
      BY <1>1, <1>4, <2>4
    <2>6. j - n \in 1 .. Len(new) /\ t[j] = new[j - n]
      BY <1>1, <1>2, <2>4, <2>5
    <2> QED BY <2>6 DEF Written, j
  <1>8. ASSUME NEW x \in EIDs(new) \ EIDs(s) PROVE Begins(t, x) > n
    <2> DEFINE j == Begins(t, x)
    <2>1. j \in 1 .. Len(t) /\ t[j].eid = x
      BY <1>1, <1>5, WhereItIs
    <2> HIDE DEF j
    <2>2. \A i \in 1 .. n : s[i].eid # x
      BY DEF EIDs, n
    <2>3. j > n
      BY <1>2, <2>1, <2>2
    <2> QED BY <2>3 DEF j
  <1> QED BY <1>1, <1>5, <1>6, <1>7, <1>8 DEF t, n

\* Both readers see an event and a relation between their snapshots survives it.
Follows(Q) ==
    \A e \in EventRecord : \A q, r \in SnapshotRecord :
        <<q, r>> \in Q => <<applyCommentEvent(q, e), applyCommentEvent(r, e)>> \in Q

\* The second reader alone sees an event that was appended.
Allows(Q, new, v) ==
    \A i \in 1 .. Len(new) : \A q, r \in SnapshotRecord :
        <<q, r>> \in Q /\ Shows(new[i], v) => <<q, applyCommentEvent(r, new[i])>> \in Q

\* The first reader alone sees an event that was appended once more.
Forgives(Q, s, new, v) ==
    \A x \in EIDs(s) \cap EIDs(new) : \A q, r \in SnapshotRecord :
        <<q, r>> \in Q /\ Shows(Written(s, x), v) => <<applyCommentEvent(q, Written(s, x)), r>> \in Q

\* A relation between what is seen before events are appended and what is seen after.
LEMMA AppendAgrees ==
    ASSUME NEW c, c.events \in Seq(EventRecord), NEW d, NEW new \in Seq(EventRecord),
           d.events = c.events \o new, NEW v, NEW Q,
           <<emptySnapshot, emptySnapshot>> \in Q,
           Follows(Q), Allows(Q, new, v), Forgives(Q, c.events, new, v)
    PROVE  /\ replay(c, v) \in SnapshotRecord /\ replay(d, v) \in SnapshotRecord
           /\ <<replay(c, v), replay(d, v)>> \in Q
  <1> DEFINE s == c.events
             t == s \o new
             X == EIDs(s) \ EIDs(new)
  <1>1. /\ t \in Seq(EventRecord) /\ EIDs(t) = EIDs(s) \cup EIDs(new)
        /\ \A x \in EIDs(s) \ EIDs(new) :
              Written(t, x) = Written(s, x) /\ Begins(t, x) = Begins(s, x)
        /\ \A x \in EIDs(new) : \E i \in 1 .. Len(new) : Written(t, x) = new[i]
    BY AppendedLog
  <1>0. s \in Seq(EventRecord) /\ d.events = t
    OBVIOUS
  <1> HIDE DEF t, s
  <1>2. \A x, y \in X : Earlier(s, x, y) => Earlier(t, x, y)
    BY <1>1 DEF Earlier
  <1>3. ASSUME NEW x \in EIDs(s) \ X, NEW q \in SnapshotRecord, NEW r \in SnapshotRecord, <<q, r>> \in Q
        PROVE  <<Effect(s, x, v, q), r>> \in Q
    <2>1. x \in EIDs(s) \cap EIDs(new)
      OBVIOUS
    <2>2. Shows(Written(s, x), v) => <<applyCommentEvent(q, Written(s, x)), r>> \in Q
      BY <1>3, <2>1 DEF Forgives, s
    <2> QED BY <1>3, <2>2 DEF Effect
  <1>4. ASSUME NEW y \in EIDs(t) \ X, NEW q \in SnapshotRecord, NEW r \in SnapshotRecord, <<q, r>> \in Q
        PROVE  <<q, Effect(t, y, v, r)>> \in Q
    <2>1. PICK i \in 1 .. Len(new) : Written(t, y) = new[i]
      BY <1>1
    <2>2. Shows(new[i], v) => <<q, applyCommentEvent(r, new[i])>> \in Q
      BY <1>4 DEF Allows
    <2> QED BY <1>4, <2>1, <2>2 DEF Effect
  <1>5. ASSUME NEW x \in X, NEW q \in SnapshotRecord, NEW r \in SnapshotRecord, <<q, r>> \in Q
        PROVE  <<Effect(s, x, v, q), Effect(t, x, v, r)>> \in Q
    <2>1. Written(t, x) = Written(s, x) /\ Written(s, x) \in EventRecord
      BY <1>0, <1>1, WhereItIs
    <2>2. <<applyCommentEvent(q, Written(s, x)), applyCommentEvent(r, Written(s, x))>> \in Q
      BY <1>5, <2>1 DEF Follows
    <2> QED BY <1>5, <2>1, <2>2 DEF Effect
  <1>6. X \subseteq EIDs(s) /\ X \subseteq EIDs(t)
    BY <1>1
  <1>7. Alike(s, v, t, v, X, EIDs(t), Q)
    BY <1>2, <1>3, <1>4, <1>5, <1>6 DEF Alike
  <1>8. s = c.events
    BY DEF s
  <1> HIDE DEF X
  <1> QED BY <1>0, <1>1, <1>7, <1>8, ReplaysAgree

\* An event of the version that is read, with an id of its own, is applied last.
LEMMA AppendedLast ==
    ASSUME NEW c, c.events \in Seq(EventRecord), NEW d, NEW e \in EventRecord,
           d.events = c.events \o <<e>>, e.eid \notin EIDs(c.events),
           NEW v \in Nat, e.atv = v, v # VersionLatest
    PROVE  /\ replay(c, v) \in SnapshotRecord
           /\ replay(d, v) = applyCommentEvent(replay(c, v), e)
  <1> DEFINE s == c.events
             t == s \o <<e>>
             X == {x \in EIDs(s) : Written(s, x).atv <= v}
             Q == {<<q, q>> : q \in SnapshotRecord}
  <1>n. <<e>> \in Seq(EventRecord) /\ EIDs(<<e>>) = {e.eid} /\ Len(<<e>>) = 1 /\ <<e>>[1] = e
    <2>1. <<e>> \in Seq(EventRecord) /\ Len(<<e>>) = 1 /\ <<e>>[1] = e /\ 1 .. 1 = {1}
      OBVIOUS
    <2> QED BY <2>1 DEF EIDs
  <1>0. s \in Seq(EventRecord) /\ d.events = t /\ Len(s) \in Nat /\ e.eid \notin EIDs(s)
    OBVIOUS
  <1>1. /\ t \in Seq(EventRecord) /\ EIDs(t) = EIDs(s) \cup {e.eid}
        /\ \A x \in EIDs(s) : Written(t, x) = Written(s, x) /\ Begins(t, x) = Begins(s, x)
        /\ Written(t, e.eid) = e
        /\ Begins(t, e.eid) > Len(s)
    <2>1. /\ t \in Seq(EventRecord) /\ EIDs(t) = EIDs(s) \cup EIDs(<<e>>)
          /\ \A x \in EIDs(s) \ EIDs(<<e>>) :
                Written(t, x) = Written(s, x) /\ Begins(t, x) = Begins(s, x)
          /\ \A x \in EIDs(<<e>>) : \E i \in 1 .. Len(<<e>>) : Written(t, x) = <<e>>[i]
          /\ \A x \in EIDs(<<e>>) \ EIDs(s) : Begins(t, x) > Len(s)
      BY <1>n, AppendedLog
    <2>2. \A i \in 1 .. 1 : i = 1
      OBVIOUS
    <2> HIDE DEF t, s
    <2> QED BY <1>0, <1>n, <2>1, <2>2
  <1>2. PICK n, f, a : Folding(n, f, a, s, v) /\ replay(c, v) = a[n]
    BY FoldOf
  <1> HIDE DEF t
  <1>3. PICK m, g, b : Folding(m, g, b, t, v) /\ replay(d, v) = b[m]
    BY <1>0, <1>1, FoldOf
  <1> HIDE DEF s
  <1>4. /\ m \in Nat
        /\ \A j \in 1 .. m : g[j] \in EIDs(s) \cup {e.eid}
        /\ \A x \in EIDs(s) \cup {e.eid} : \E j \in 1 .. m : g[j] = x
        /\ \A j, i \in 1 .. m : j < i => Earlier(t, g[j], g[i])
        /\ \A j \in 0 .. m : b[j] \in SnapshotRecord
        /\ \A j \in 1 .. m : b[j] = Effect(t, g[j], v, b[j - 1])
    BY <1>1, <1>3 DEF Folding
  <1>5. PICK k \in 1 .. m : g[k] = e.eid
    BY <1>4
  <1>6. \A x \in EIDs(s) : Written(s, x) \in EventRecord /\ Written(s, x).atv \in Nat
                           /\ Begins(s, x) \in 1 .. Len(s)
    <2>1. \A x \in EIDs(s) : Written(s, x) \in EventRecord /\ Begins(s, x) \in 1 .. Len(s)
      BY <1>0, WhereItIs
    <2> QED BY <2>1 DEF EventRecord
  \* What is applied after e does not show, so it does not matter.
  <1>7. ASSUME NEW j \in 1 .. m, j > k PROVE g[j] \in EIDs(s) \ X
    <2>1. Earlier(t, e.eid, g[j])
      BY <1>4, <1>5, <1>7
    <2>2. g[j] # e.eid
      <3>1. e.eid \in EIDs(t) /\ g[j] \in EIDs(t)
        BY <1>1, <1>4
      <3> QED BY <1>1, <2>1, <3>1, EarlierIsAnOrder
    <2>3. g[j] \in EIDs(s)
      BY <1>4, <2>2
    <2>4. Begins(t, g[j]) = Begins(s, g[j]) /\ Begins(s, g[j]) \in 1 .. Len(s)
      BY <1>1, <1>6, <2>3
    <2>5. ~(Begins(t, e.eid) < Begins(t, g[j]))
      <3>1. Begins(t, e.eid) \in Nat
        BY <1>1, WhereItIs
      <3> QED BY <1>0, <1>1, <2>4, <3>1
    <2>6. v < Written(s, g[j]).atv
      BY <1>1, <2>1, <2>3, <2>5 DEF Earlier
    <2> QED BY <1>6, <2>3, <2>6
  <1>8. \A x \in EIDs(s) \ X : ~Shows(Written(s, x), v)
    BY DEF Shows
  <1>9. \A j \in k .. m : b[j] = b[k]
    <2> DEFINE T == {i \in Nat : b[k + i] = b[k]}
    <2>0. k \in Nat /\ m \in Nat /\ k <= m
      BY <1>4
    <2>1. 0 \in T
      BY <2>0
    <2>2. ASSUME NEW i \in 0 .. ((m - k) - 1), i \in T PROVE i + 1 \in T
      <3>1. i \in Nat /\ k + (i + 1) \in 1 .. m /\ k + (i + 1) > k /\ (k + (i + 1)) - 1 = k + i
        BY <2>0
      <3> DEFINE j == k + (i + 1)
      <3>2. b[j] = Effect(t, g[j], v, b[j - 1])
        BY <1>4, <3>1
      <3>3. g[j] \in EIDs(s) \ X
        BY <1>7, <3>1
      <3>4. Effect(t, g[j], v, b[j - 1]) = b[j - 1]
        BY <1>1, <1>8, <3>3 DEF Effect
      <3> QED BY <2>2, <3>1, <3>2, <3>4
    <2>3. \A i \in 0 .. (m - k) : i \in T
      <3>1. m - k \in Nat
        BY <2>0
      <3> HIDE DEF T
      <3> QED BY <2>1, <2>2, <3>1, InductUpTo
    <2>4. ASSUME NEW j \in k .. m PROVE b[j] = b[k]
      <3>1. j - k \in 0 .. (m - k) /\ k + (j - k) = j
        BY <2>0
      <3> QED BY <2>3, <3>1
    <2> QED BY <2>4
  <1>10. replay(d, v) = applyCommentEvent(b[k - 1], e)
    <2>1. m \in k .. m
      BY <1>4
    <2>2. Shows(e, v)
      BY DEF Shows
    <2>3. b[k] = applyCommentEvent(b[k - 1], e)
      BY <1>1, <1>4, <1>5, <2>2 DEF Effect
    <2> QED BY <1>3, <1>9, <2>1, <2>3
  <1>11. ASSUME NEW x \in X PROVE \E j \in 1 .. (k - 1) : g[j] = x
    <2>1. x \in EIDs(s)
      OBVIOUS
    <2>2. PICK j \in 1 .. m : g[j] = x
      BY <1>4, <2>1
    <2>3. ~(j > k)
      BY <1>7, <2>2
    <2>4. j # k
      BY <1>0, <1>5, <2>1, <2>2
    <2> QED BY <1>4, <2>2, <2>3, <2>4
  <1>12. ASSUME NEW j \in 1 .. (k - 1) PROVE g[j] \in EIDs(s)
    <2>1. j \in 1 .. m /\ j < k
      BY <1>4
    <2>2. Earlier(t, g[j], e.eid) /\ g[j] \in EIDs(t) /\ e.eid \in EIDs(t)
      BY <1>1, <1>4, <1>5, <2>1
    <2>3. g[j] # e.eid
      BY <1>1, <2>2, EarlierIsAnOrder
    <2> QED BY <1>4, <2>1, <2>3
  <1>13. \A q, r : <<q, r>> \in Q <=> q \in SnapshotRecord /\ r = q
    OBVIOUS
  <1> HIDE DEF Q
  <1>14. Alike(s, v, t, v, X, EIDs(s), Q)
    <2>1. \A x, y \in X : Earlier(s, x, y) => Earlier(t, x, y)
      BY <1>1 DEF Earlier
    <2>2. <<emptySnapshot, emptySnapshot>> \in Q
      BY <1>13, EmptyTyped
    <2>3. \A x \in EIDs(s) \ X : \A q : Effect(s, x, v, q) = q /\ Effect(t, x, v, q) = q
      BY <1>1, <1>8 DEF Effect
    <2>4. ASSUME NEW x \in EIDs(s), NEW q \in SnapshotRecord
          PROVE  Effect(s, x, v, q) \in SnapshotRecord /\ Effect(t, x, v, q) = Effect(s, x, v, q)
      BY <1>1, <1>6, ApplyTyped DEF Effect
    <2>5. X \subseteq EIDs(s) /\ X \subseteq EIDs(t)
      BY <1>1
    <2> HIDE DEF X
    <2> QED BY <1>13, <2>1, <2>2, <2>3, <2>4, <2>5 DEF Alike
  <1> HIDE DEF X
  <1>15. k - 1 \in 0 .. m
    BY <1>4
  <1>16. <<a[n], b[k - 1]>> \in Q
    BY <1>0, <1>1, <1>2, <1>3, <1>11, <1>12, <1>14, <1>15, FoldsAgree
  <1> QED BY <1>2, <1>10, <1>13, <1>16

-------------------------------------------------------------------------------
(* What one event changes in a snapshot, field by field.                   *)

ContentKinds == {"created", "anchor_changed"}
MarkKinds == {"marked_applied", "marked_open", "deleted"}
ReactionKinds == {"reaction_added", "reaction_removed"}

RepliesAfter(replies, e) ==
    IF e.kind = "reply_added"
    THEN Append(replies, [id |-> e.rid, author |-> e.by, verdict |-> e.verdict,
                          deleted |-> FALSE, reactions |-> {}])
    ELSE [i \in DOMAIN replies |-> touchReply(replies[i], e)]

LEMMA AppliedFields ==
    ASSUME NEW q \in SnapshotRecord, NEW e \in EventRecord
    PROVE  LET a == applyCommentEvent(q, e)
           IN  /\ a.anchor = IF e.kind \in ContentKinds THEN e.anchor ELSE q.anchor
               /\ a.status = IF (e.kind = "anchor_changed" /\ e.reset) \/ e.kind = "marked_open" THEN "open"
                             ELSE IF e.kind = "marked_applied" THEN "applied" ELSE q.status
               /\ a.appliedIn = IF (e.kind = "anchor_changed" /\ e.reset) \/ e.kind = "marked_open" THEN 0
                                ELSE IF e.kind = "marked_applied" THEN e.atv ELSE q.appliedIn
               /\ a.deleted = IF e.kind = "deleted" THEN TRUE ELSE q.deleted
               /\ a.verdict = IF e.kind = "marked_applied" THEN "applied"
                              ELSE IF e.kind = "marked_open" THEN e.verdict ELSE q.verdict
               /\ a.reactions = IF e.kind \in ReactionKinds
                                THEN applyReaction(q.reactions, e, "reaction_added") ELSE q.reactions
               /\ a.replies = IF e.kind \in ContentKinds \cup MarkKinds \cup ReactionKinds
                              THEN q.replies ELSE RepliesAfter(q.replies, e)
  <1> DEFINE a == applyCommentEvent(q, e)
  <1>1. CASE e.kind \in ContentKinds
    <2>1. a = applyContentEvent(q, e)
      BY <1>1 DEF applyCommentEvent, ContentKinds
    <2> HIDE DEF a
    <2>2. CASE e.kind = "anchor_changed" /\ e.reset
      <3>1. a = [q EXCEPT !.anchor = e.anchor, !.status = "open", !.appliedIn = 0]
        BY <2>1, <2>2 DEF applyContentEvent
      <3>2. /\ a.anchor = e.anchor /\ a.status = "open" /\ a.appliedIn = 0 /\ a.deleted = q.deleted
            /\ a.verdict = q.verdict /\ a.reactions = q.reactions /\ a.replies = q.replies
        BY <3>1 DEF SnapshotRecord
      <3> QED BY <1>1, <2>2, <3>2 DEF a, ContentKinds, ReactionKinds
    <2>3. CASE ~(e.kind = "anchor_changed" /\ e.reset)
      <3>1. a = [q EXCEPT !.anchor = e.anchor]
        BY <2>1, <2>3 DEF applyContentEvent
      <3>2. /\ a.anchor = e.anchor /\ a.status = q.status /\ a.appliedIn = q.appliedIn
            /\ a.deleted = q.deleted /\ a.verdict = q.verdict /\ a.reactions = q.reactions
            /\ a.replies = q.replies
        BY <3>1 DEF SnapshotRecord
      <3> QED BY <1>1, <2>3, <3>2 DEF a, ContentKinds, ReactionKinds
    <2> QED BY <2>2, <2>3
  <1>2. CASE e.kind \in MarkKinds
    <2>1. a = applyStatusEvent(q, e)
      BY <1>2 DEF applyCommentEvent, MarkKinds
    <2> HIDE DEF a
    <2>2. CASE e.kind = "marked_applied"
      <3>1. a = [q EXCEPT !.status = "applied", !.appliedIn = e.atv, !.verdict = "applied"]
        BY <2>1, <2>2 DEF applyStatusEvent
      <3>2. /\ a.anchor = q.anchor /\ a.status = "applied" /\ a.appliedIn = e.atv
            /\ a.deleted = q.deleted /\ a.verdict = "applied" /\ a.reactions = q.reactions
            /\ a.replies = q.replies
        BY <3>1 DEF SnapshotRecord
      <3> QED BY <2>2, <3>2 DEF a, ContentKinds, ReactionKinds, MarkKinds
    <2>3. CASE e.kind = "marked_open"
      <3>1. a = [q EXCEPT !.status = "open", !.appliedIn = 0, !.verdict = e.verdict]
        BY <2>1, <2>3 DEF applyStatusEvent
      <3>2. /\ a.anchor = q.anchor /\ a.status = "open" /\ a.appliedIn = 0
            /\ a.deleted = q.deleted /\ a.verdict = e.verdict /\ a.reactions = q.reactions
            /\ a.replies = q.replies
        BY <3>1 DEF SnapshotRecord
      <3> QED BY <2>3, <3>2 DEF a, ContentKinds, ReactionKinds, MarkKinds
    <2>4. CASE e.kind = "deleted"
      <3>1. a = [q EXCEPT !.deleted = TRUE]
        BY <2>1, <2>4 DEF applyStatusEvent
      <3>2. /\ a.anchor = q.anchor /\ a.status = q.status /\ a.appliedIn = q.appliedIn
            /\ a.deleted = TRUE /\ a.verdict = q.verdict /\ a.reactions = q.reactions
            /\ a.replies = q.replies
        BY <3>1 DEF SnapshotRecord
      <3> QED BY <2>4, <3>2 DEF a, ContentKinds, ReactionKinds, MarkKinds
    <2> QED BY <1>2, <2>2, <2>3, <2>4 DEF MarkKinds
  <1>3. CASE e.kind \in ReactionKinds
    <2> DEFINE r == applyReaction(q.reactions, e, "reaction_added")
    <2>1. a = [q EXCEPT !.reactions = r]
      BY <1>3 DEF applyCommentEvent, ReactionKinds
    <2> HIDE DEF a, r
    <2>2. /\ a.anchor = q.anchor /\ a.status = q.status /\ a.appliedIn = q.appliedIn
          /\ a.deleted = q.deleted /\ a.verdict = q.verdict /\ a.reactions = r /\ a.replies = q.replies
      BY <2>1 DEF SnapshotRecord
    <2> QED BY <1>3, <2>2 DEF a, r, ContentKinds, ReactionKinds, MarkKinds
  <1>4. CASE e.kind \notin ContentKinds \cup MarkKinds \cup ReactionKinds
    <2> DEFINE r == RepliesAfter(q.replies, e)
    <2>1. a = [q EXCEPT !.replies = r]
      BY <1>4 DEF applyCommentEvent, applyReplyEvent, addReply, RepliesAfter,
                  ContentKinds, MarkKinds, ReactionKinds
    <2> HIDE DEF a, r
    <2>2. /\ a.anchor = q.anchor /\ a.status = q.status /\ a.appliedIn = q.appliedIn
          /\ a.deleted = q.deleted /\ a.verdict = q.verdict /\ a.reactions = q.reactions /\ a.replies = r
      BY <2>1 DEF SnapshotRecord
    <2> QED BY <1>4, <2>2 DEF a, r, ContentKinds, ReactionKinds, MarkKinds
  <1> QED BY <1>1, <1>2, <1>3, <1>4

\* Same but for the anchor.
Elsewhere(q, r) ==
    /\ r.status = q.status /\ r.appliedIn = q.appliedIn /\ r.deleted = q.deleted
    /\ r.verdict = q.verdict /\ r.reactions = q.reactions /\ r.replies = q.replies
SameElsewhere == {z \in SnapshotRecord \X SnapshotRecord : Elsewhere(z[1], z[2])}
SameSnapshot == {z \in SnapshotRecord \X SnapshotRecord : z[1] = z[2]}

LEMMA SameRelations ==
    /\ \A q, r : <<q, r>> \in SameSnapshot <=> q \in SnapshotRecord /\ r = q
    /\ \A q, r : <<q, r>> \in SameElsewhere <=>
                    q \in SnapshotRecord /\ r \in SnapshotRecord /\ Elsewhere(q, r)
  BY DEF SameSnapshot, SameElsewhere

LEMMA SameFollows == Follows(SameSnapshot) /\ Follows(SameElsewhere)
  <1>1. Follows(SameSnapshot)
    BY SameRelations, ApplyTyped DEF Follows
  <1>2. ASSUME NEW e \in EventRecord, NEW q \in SnapshotRecord, NEW r \in SnapshotRecord, Elsewhere(q, r)
        PROVE  Elsewhere(applyCommentEvent(q, e), applyCommentEvent(r, e))
    <2> DEFINE a == applyCommentEvent(q, e)
               b == applyCommentEvent(r, e)
    <2>0. /\ q.status = r.status /\ q.appliedIn = r.appliedIn /\ q.deleted = r.deleted
          /\ q.verdict = r.verdict /\ q.reactions = r.reactions /\ q.replies = r.replies
      BY <1>2 DEF Elsewhere
    <2>2. /\ a.status = IF (e.kind = "anchor_changed" /\ e.reset) \/ e.kind = "marked_open" THEN "open"
                        ELSE IF e.kind = "marked_applied" THEN "applied" ELSE q.status
          /\ a.appliedIn = IF (e.kind = "anchor_changed" /\ e.reset) \/ e.kind = "marked_open" THEN 0
                           ELSE IF e.kind = "marked_applied" THEN e.atv ELSE q.appliedIn
          /\ a.deleted = IF e.kind = "deleted" THEN TRUE ELSE q.deleted
          /\ a.verdict = IF e.kind = "marked_applied" THEN "applied"
                         ELSE IF e.kind = "marked_open" THEN e.verdict ELSE q.verdict
          /\ a.reactions = IF e.kind \in ReactionKinds
                           THEN applyReaction(q.reactions, e, "reaction_added") ELSE q.reactions
          /\ a.replies = IF e.kind \in ContentKinds \cup MarkKinds \cup ReactionKinds
                         THEN q.replies ELSE RepliesAfter(q.replies, e)
      BY AppliedFields
    <2>3. /\ b.status = IF (e.kind = "anchor_changed" /\ e.reset) \/ e.kind = "marked_open" THEN "open"
                        ELSE IF e.kind = "marked_applied" THEN "applied" ELSE r.status
          /\ b.appliedIn = IF (e.kind = "anchor_changed" /\ e.reset) \/ e.kind = "marked_open" THEN 0
                           ELSE IF e.kind = "marked_applied" THEN e.atv ELSE r.appliedIn
          /\ b.deleted = IF e.kind = "deleted" THEN TRUE ELSE r.deleted
          /\ b.verdict = IF e.kind = "marked_applied" THEN "applied"
                         ELSE IF e.kind = "marked_open" THEN e.verdict ELSE r.verdict
          /\ b.reactions = IF e.kind \in ReactionKinds
                           THEN applyReaction(r.reactions, e, "reaction_added") ELSE r.reactions
          /\ b.replies = IF e.kind \in ContentKinds \cup MarkKinds \cup ReactionKinds
                         THEN r.replies ELSE RepliesAfter(r.replies, e)
      BY AppliedFields
    <2> HIDE DEF a, b
    <2>4. /\ a.status = b.status /\ a.appliedIn = b.appliedIn /\ a.deleted = b.deleted
          /\ a.verdict = b.verdict /\ a.reactions = b.reactions /\ a.replies = b.replies
      BY <2>0, <2>2, <2>3
    <2>5. Elsewhere(a, b)
      BY <2>4 DEF Elsewhere
    <2> QED BY <2>5 DEF a, b
  <1>3. Follows(SameElsewhere)
    BY <1>2, SameRelations, ApplyTyped DEF Follows
  <1> QED BY <1>1, <1>3

-------------------------------------------------------------------------------
(* What an operation does to one comment.                                  *)

\* d is c after some operations: the same comment, no id of an event missing.
Keeps(c, d) == d.id = c.id /\ EIDs(c.events) \subseteq EIDs(d.events)

LEMMA KeepsOnKeeping ==
    ASSUME NEW b, NEW c, NEW d, Keeps(b, c), Keeps(c, d)
    PROVE  Keeps(b, d)
  BY DEF Keeps

\* The events that operations make are stamped when they are appended.
Draft == {e \in EventRecord : e.eid = NoEID}

LEMMA KindsOfEvents ==
    /\ StampedEvent \subseteq EventRecord /\ ArrivingEvent \subseteq EventRecord
    /\ Draft \subseteq ArrivingEvent /\ StampedEvent \subseteq ArrivingEvent
  BY DEF Draft, StampedEvent, ArrivingEvent

LEMMA EventTyped ==
    ASSUME NEW kind \in STRING, NEW v \in Nat
    PROVE  Event(kind, v) \in Draft /\ Event(kind, v).kind = kind /\ Event(kind, v).atv = v
  <1>1. "" \in STRING
    BY WordsAssumption DEF Words
  <1>2. NoEID \in EIDRecord
    <2>1. <<>> \in Seq(Nat) /\ 0 \in Nat
      OBVIOUS
    <2> QED BY <1>1, <2>1 DEF NoEID, EIDRecord
  <1> QED BY <1>1, <1>2, NoAnchorTyped DEF Event, EventRecord, Draft

\* An id is stamped once, and the number in it is the one drawn or none.
LEMMA EIDTyped ==
    ASSUME NEW e \in EventRecord, NEW n \in Seq(Nat)
    PROVE  /\ EventEID(e, n) \in EIDRecord
           /\ EventEID(e, n).kind = e.kind
           /\ EventEID(e, n).n \in {<<>>, n}
           /\ EventEID(e, EventEID(e, n).n) = EventEID(e, n)
  <1>1. /\ e.kind \in STRING /\ e.emoji \in STRING /\ e.by \in STRING /\ e.atv \in Nat
        /\ "" \in STRING
    BY WordsAssumption DEF EventRecord, Words
  <1>2. <<>> \in Seq(Nat) /\ 0 \in Nat
    OBVIOUS
  <1> DEFINE react == [NoEID EXCEPT !.kind = e.kind, !.emoji = e.emoji, !.by = e.by]
             mark == [NoEID EXCEPT !.kind = e.kind, !.atv = e.atv]
             other == [NoEID EXCEPT !.kind = e.kind, !.n = n]
  <1>3. /\ react \in EIDRecord /\ react.kind = e.kind /\ react.n = <<>>
        /\ mark \in EIDRecord /\ mark.kind = e.kind /\ mark.n = <<>>
        /\ other \in EIDRecord /\ other.kind = e.kind /\ other.n = n
    BY <1>1, <1>2 DEF NoEID, EIDRecord
  <1>4. CASE e.kind \in {"reaction_added", "reaction_removed"}
    <2>1. \A x : EventEID(e, x) = react
      BY <1>4 DEF EventEID
    <2> HIDE DEF react
    <2> QED BY <1>3, <2>1
  <1>5. CASE e.kind \in {"marked_applied", "marked_open", "deleted"}
    <2>1. \A x : EventEID(e, x) = mark
      BY <1>5 DEF EventEID
    <2> HIDE DEF mark
    <2> QED BY <1>3, <2>1
  <1>6. CASE e.kind \notin {"reaction_added", "reaction_removed", "marked_applied", "marked_open", "deleted"}
    <2>1. EventEID(e, n) = other /\ EventEID(e, other.n) = other
      BY <1>3, <1>6 DEF EventEID
    <2> HIDE DEF other
    <2> QED BY <1>3, <2>1
  <1> QED BY <1>4, <1>5, <1>6

LEMMA StampTyped ==
    ASSUME NEW e \in ArrivingEvent, NEW n \in Seq(Nat)
    PROVE  /\ Stamp(e, n) \in StampedEvent
           /\ Stamp(e, n) = [e EXCEPT !.eid = Stamp(e, n).eid]
           /\ Stamp(e, n).eid = IF e.eid = NoEID THEN EventEID(e, n) ELSE e.eid
  <1>1. e \in EventRecord
    BY DEF ArrivingEvent
  <1>2. CASE e.eid = NoEID
    <2> DEFINE id == EventEID(e, n)
               f == [e EXCEPT !.eid = id]
    <2>1. id \in EIDRecord /\ EventEID(e, id.n) = id
      BY <1>1, EIDTyped
    <2>2. Stamp(e, n) = f
      BY <1>2 DEF Stamp
    <2> HIDE DEF id
    <2>3. /\ f \in EventRecord /\ f.eid = id
          /\ f.kind = e.kind /\ f.emoji = e.emoji /\ f.by = e.by /\ f.atv = e.atv
      BY <1>1, <2>1 DEF EventRecord
    <2>4. f = [e EXCEPT !.eid = f.eid]
      BY <2>3
    <2> HIDE DEF f
    <2>5. EventEID(f, id.n) = EventEID(e, id.n)
      BY <2>3 DEF EventEID
    <2>6. f \in StampedEvent
      BY <2>1, <2>3, <2>5 DEF StampedEvent
    <2> QED BY <1>2, <2>2, <2>3, <2>4, <2>6 DEF id
  <1>3. CASE e.eid # NoEID
    <2>1. Stamp(e, n) = e
      BY <1>3 DEF Stamp
    <2>2. e \in StampedEvent
      BY <1>3 DEF ArrivingEvent, StampedEvent
    <2>3. e = [e EXCEPT !.eid = e.eid]
      BY <1>1 DEF EventRecord
    <2> QED BY <1>3, <2>1, <2>2, <2>3
  <1> QED BY <1>2, <1>3

LEMMA AppendKeeps ==
    ASSUME NEW c \in StoredComment, NEW evs \in Seq(ArrivingEvent), NEW n \in Seq(Nat)
    PROVE  /\ AppendEvents(c, evs, n) \in StoredComment
           /\ Keeps(c, AppendEvents(c, evs, n))
  <1> DEFINE old == c.events
             new == [i \in DOMAIN evs |-> Stamp(evs[i], Append(n, i))]
  <1>1. old \in Seq(StampedEvent)
    BY DEF StoredComment
  <1>2. new \in Seq(StampedEvent)
    <2>1. DOMAIN evs = 1 .. Len(evs) /\ Len(evs) \in Nat
      OBVIOUS
    <2>2. \A i \in 1 .. Len(evs) : evs[i] \in ArrivingEvent /\ Append(n, i) \in Seq(Nat)
      BY <2>1
    <2>3. \A i \in 1 .. Len(evs) : Stamp(evs[i], Append(n, i)) \in StampedEvent
      BY <2>2, StampTyped
    <2> QED BY <2>1, <2>3
  <1>3. AppendEvents(c, evs, n) = [c EXCEPT !.events = old \o new]
    BY DEF AppendEvents
  <1> HIDE DEF old, new
  <1>4. /\ old \o new \in Seq(StampedEvent) /\ Len(old) \in Nat
        /\ \A i \in 1 .. Len(old) : i \in 1 .. Len(old \o new) /\ (old \o new)[i] = old[i]
    BY <1>1, <1>2
  <1>5. EIDs(old) \subseteq EIDs(old \o new)
    BY <1>4 DEF EIDs
  <1> DEFINE log == old \o new
             d == [c EXCEPT !.events = log]
  <1>6. log \in Seq(StampedEvent) /\ EIDs(old) \subseteq EIDs(log)
    BY <1>4, <1>5
  <1> HIDE DEF log
  <1>7. d \in StoredComment /\ d.id = c.id /\ d.events = log
    BY <1>6 DEF StoredComment
  <1> HIDE DEF d
  <1> QED BY <1>3, <1>6, <1>7 DEF Keeps, old, d, log

LEMMA CompactKeeps ==
    ASSUME NEW c \in StoredComment
    PROVE  /\ [c EXCEPT !.events = DedupEvents(@)] \in StoredComment
           /\ Keeps(c, [c EXCEPT !.events = DedupEvents(@)])
  <1> DEFINE old == c.events
             log == DedupEvents(old)
             d == [c EXCEPT !.events = log]
  <1>1. old \in Seq(StampedEvent)
    BY DEF StoredComment
  <1>2. log \in Seq(StampedEvent) /\ EIDs(log) = EIDs(old)
    BY <1>1, KindsOfEvents, DedupKeepsIDs
  <1> HIDE DEF log
  <1>3. d \in StoredComment /\ d.id = c.id /\ d.events = log
    BY <1>2 DEF StoredComment
  <1> HIDE DEF d
  <1>4. Keeps(c, d)
    BY <1>2, <1>3 DEF Keeps
  <1> QED BY <1>3, <1>4 DEF d, log

-------------------------------------------------------------------------------
(* Re-anchoring.                                                           *)

LEMMA OnlyIsThere ==
    ASSUME NEW S, Cardinality(S) = 1
    PROVE  Only(S) \in S
  <1>1. S # {}
    BY FS_EmptySet
  <1> QED BY <1>1 DEF Only

LEMMA RebindTyped ==
    ASSUME NEW a \in AnchorRecord, NEW aids \in Seq(ArtifactRecord)
    PROVE  findRebindAid(a, aids) \in STRING
  <1> DEFINE wantTag == IF a.fp # "" THEN a.fp ELSE Lower[a.label]
             tagged  == {i \in DOMAIN aids : wantTag \in {"", aids[i].tag}}
             matches == {i \in tagged : a.head \in {"", aids[i].heading}}
  <1>1. \A i \in DOMAIN aids : aids[i].aid \in STRING
    <2>1. \A i \in DOMAIN aids : aids[i] \in ArtifactRecord
      OBVIOUS
    <2> QED BY <2>1 DEF ArtifactRecord
  <1>2. "" \in STRING
    BY WordsAssumption DEF Words
  <1>3. \A i \in tagged : aids[i].aid \in STRING
    BY <1>1
  <1>4. \A i \in matches : aids[i].aid \in STRING
    BY <1>3
  <1>5. findRebindAid(a, aids) =
           IF Cardinality(matches) = 1 THEN aids[Only(matches)].aid
           ELSE IF matches = {} /\ Cardinality(tagged) = 1 THEN aids[Only(tagged)].aid
           ELSE ""
    BY DEF findRebindAid
  <1> HIDE DEF tagged, matches
  <1> QED BY <1>2, <1>3, <1>4, <1>5, OnlyIsThere

\* The anchor to record, if any, is one.
AtMostOne == {<<>>} \cup {<<x>> : x \in AnchorRecord}

LEMMA ReconcileTyped ==
    ASSUME NEW a \in AnchorRecord, NEW aids \in Seq(ArtifactRecord), NEW pin \in PinRecord
    PROVE  reconcileAnchor(a, aids, pin) \in AtMostOne
  <1>1. /\ "element" \in STRING /\ "lost" \in STRING /\ "" \in STRING /\ "no_candidate" \in STRING
        /\ "ambiguous_aid" \in STRING /\ "fingerprint_mismatch" \in STRING
    BY WordsAssumption DEF Words
  <1>2. a.label \in STRING /\ a.fp \in STRING /\ pin.tag \in STRING /\ pin.canonical \in STRING
    BY DEF AnchorRecord, PinRecord
  <1>3. \A x \in AnchorRecord : <<x>> \in AtMostOne
    BY DEF AtMostOne
  <1>4. <<>> \in AtMostOne
    BY DEF AtMostOne
  <1>5. ASSUME NEW reason \in STRING PROVE lostAnchor(a, reason) \in AtMostOne
    <2>1. [a EXCEPT !.kind = "lost", !.aid = "", !.reason = reason] \in AnchorRecord
      BY <1>1 DEF AnchorRecord
    <2> QED BY <1>3, <1>4, <2>1 DEF lostAnchor
  <1>6. nextAnchor(a, aids) \in AtMostOne
    <2> DEFINE aid == findRebindAid(a, aids)
               label == IF a.label # "" THEN a.label ELSE IF a.fp # "" THEN a.fp ELSE "element"
    <2>1. aid \in STRING /\ label \in STRING
      BY <1>1, <1>2, RebindTyped
    <2>2. nextAnchor(a, aids) =
             IF aid # ""
             THEN <<[a EXCEPT !.kind = "element", !.aid = aid, !.label = label, !.reason = ""]>>
             ELSE IF a.kind = "lost" THEN <<>>
             ELSE <<[a EXCEPT !.kind = "lost", !.aid = "", !.reason = "no_candidate"]>>
      BY DEF nextAnchor
    <2> HIDE DEF aid, label
    <2>3. /\ [a EXCEPT !.kind = "element", !.aid = aid, !.label = label, !.reason = ""] \in AnchorRecord
          /\ [a EXCEPT !.kind = "lost", !.aid = "", !.reason = "no_candidate"] \in AnchorRecord
      BY <1>1, <2>1 DEF AnchorRecord
    <2> QED BY <1>3, <1>4, <2>2, <2>3
  <1>7. migratedAnchor(a, aids, pin) \in AtMostOne
    <2>1. [a EXCEPT !.aid = pin.canonical, !.label = pin.tag, !.fp = pin.tag] \in AnchorRecord
      BY <1>2 DEF AnchorRecord
    <2> QED BY <1>3, <1>4, <2>1 DEF migratedAnchor
  <1>8. pinnedAnchor(a, aids, pin) \in AtMostOne
    <2>1. [a EXCEPT !.label = pin.tag, !.fp = pin.tag] \in AnchorRecord
      BY <1>2 DEF AnchorRecord
    <2> QED BY <1>3, <1>4, <2>1 DEF pinnedAnchor
  <1>9. ResolveAID(a, aids) \in AtMostOne
    <2> DEFINE direct == ByAID(aids, a.aid)
               found == direct \cup ByLegacyAID(aids, a.aid)
    <2>1. \A i \in found : aids[i].aid \in STRING /\ aids[i].tag \in STRING
      <3>1. \A i \in found : aids[i] \in ArtifactRecord
        BY DEF ByAID, ByLegacyAID
      <3> QED BY <3>1 DEF ArtifactRecord
    <2>2. ASSUME Cardinality(found) = 1
          PROVE  canonicalAliasAnchor(a, aids[Only(found)]) \in AtMostOne
      <3> DEFINE x == aids[Only(found)]
                 label == IF a.label = "" THEN x.tag ELSE a.label
      <3> HIDE DEF found
      <3>1. x.aid \in STRING /\ label \in STRING
        BY <1>2, <2>1, <2>2, OnlyIsThere
      <3>2. canonicalAliasAnchor(a, x) = <<[a EXCEPT !.kind = "element", !.aid = x.aid, !.label = label]>>
        BY DEF canonicalAliasAnchor
      <3> HIDE DEF x, label
      <3>3. [a EXCEPT !.kind = "element", !.aid = x.aid, !.label = label] \in AnchorRecord
        BY <1>1, <3>1 DEF AnchorRecord
      <3> QED BY <1>3, <3>2, <3>3 DEF x
    <2>3. /\ lostAnchor(a, "ambiguous_aid") \in AtMostOne
          /\ lostAnchor(a, "fingerprint_mismatch") \in AtMostOne
      BY <1>1, <1>5
    <2>4. \/ ResolveAID(a, aids) \in {lostAnchor(a, "ambiguous_aid"),
                                      lostAnchor(a, "fingerprint_mismatch"), <<>>}
          \/ /\ Cardinality(found) = 1
             /\ ResolveAID(a, aids) = canonicalAliasAnchor(a, aids[Only(found)])
      BY DEF ResolveAID
    <2> QED BY <1>4, <2>2, <2>3, <2>4
  <1> QED BY <1>4, <1>6, <1>7, <1>8, <1>9 DEF reconcileAnchor

LEMMA StoredLog ==
    ASSUME NEW c \in StoredComment
    PROVE  c.events \in Seq(StampedEvent) /\ c.events \in Seq(EventRecord)
  <1>1. c.events \in Seq(StampedEvent)
    BY DEF StoredComment
  <1> QED BY <1>1, KindsOfEvents

\* The events that re-anchoring appends: none, or one of the published version.
Moves(next, v) ==
    [i \in DOMAIN next |->
        [Event("anchor_changed", v) EXCEPT !.anchor = next[i], !.by = "reconcile"]]
Move(e, v) == e \in Draft /\ e.kind = "anchor_changed" /\ e.atv = v /\ ~e.reset

LEMMA MovesTyped ==
    ASSUME NEW next \in AtMostOne, NEW v \in Nat
    PROVE  /\ Moves(next, v) \in Seq(Draft) /\ Moves(next, v) \in Seq(ArrivingEvent)
           /\ next = <<>> => Moves(next, v) = <<>>
           /\ next # <<>> => /\ Moves(next, v) = <<Moves(next, v)[1]>>
                             /\ Move(Moves(next, v)[1], v)
                             /\ Moves(next, v)[1].anchor = next[1]
           /\ \A i \in 1 .. Len(Moves(next, v)) : Move(Moves(next, v)[i], v)
  <1> DEFINE moved(x) == [Event("anchor_changed", v) EXCEPT !.anchor = x, !.by = "reconcile"]
  <1>1. "anchor_changed" \in STRING /\ "reconcile" \in STRING
    BY WordsAssumption DEF Words
  <1>2. /\ Event("anchor_changed", v) \in Draft /\ ~Event("anchor_changed", v).reset
        /\ Event("anchor_changed", v).kind = "anchor_changed" /\ Event("anchor_changed", v).atv = v
    <2>1. ~Event("anchor_changed", v).reset
      BY DEF Event
    <2> QED BY <1>1, <2>1, EventTyped
  <1>3. ASSUME NEW x \in AnchorRecord PROVE Move(moved(x), v) /\ moved(x).anchor = x
    <2>1. moved(x) \in EventRecord /\ moved(x).eid = NoEID
      BY <1>1, <1>2 DEF EventRecord, Draft
    <2>2. moved(x).kind = "anchor_changed" /\ moved(x).atv = v /\ ~moved(x).reset /\ moved(x).anchor = x
      BY <1>2 DEF EventRecord, Draft
    <2> HIDE DEF moved
    <2> QED BY <2>1, <2>2 DEF Move, Draft
  <1>4. Moves(next, v) = [i \in DOMAIN next |-> moved(next[i])]
    BY DEF Moves
  <1> HIDE DEF moved
  <1>5. CASE next = <<>>
    <2>1. Moves(next, v) = <<>> /\ Len(<<>>) = 0
      BY <1>4, <1>5
    <2>2. <<>> \in Seq(Draft) /\ <<>> \in Seq(ArrivingEvent) /\ 1 .. 0 = {}
      OBVIOUS
    <2> QED BY <1>5, <2>1, <2>2, Zenon
  <1>6. CASE next # <<>>
    <2>1. PICK x \in AnchorRecord : next = <<x>>
      BY <1>6 DEF AtMostOne
    <2>2. Moves(next, v) = <<moved(x)>>
      BY <1>4, <2>1
    <2>3. Move(moved(x), v) /\ moved(x).anchor = x
      BY <1>3
    <2> DEFINE y == moved(x)
    <2>4. y \in Draft /\ y \in ArrivingEvent
      BY <2>3, KindsOfEvents DEF Move
    <2> HIDE DEF y
    <2>5. <<y>> \in Seq(Draft) /\ <<y>> \in Seq(ArrivingEvent) /\ Len(<<y>>) = 1 /\ <<y>>[1] = y
      BY <2>4
    <2>6. Moves(next, v) = <<y>> /\ Move(y, v) /\ y.anchor = next[1]
      BY <2>1, <2>2, <2>3 DEF y
    <2> QED BY <1>6, <2>5, <2>6
  <1> QED BY <1>5, <1>6

\* The anchor that re-anchoring starts from, and what it does.
LEMMA ReconcileMoves ==
    ASSUME NEW c \in StoredComment, NEW n,
           NEW v \in Nat, NEW aids \in Seq(ArtifactRecord), NEW pin \in PinRecord,
           NEW op, op.v = v, op.aids = aids, op.pin = pin
    PROVE  LET next == reconcileAnchor(SnapshotAt(c, v).anchor, aids, pin)
           IN  /\ next \in AtMostOne
               /\ reconcileComment(c, op, n)
                    = IF ~AliveAt(c, v) THEN c ELSE AppendEvents(c, Moves(next, v), n)
  <1> DEFINE next == reconcileAnchor(SnapshotAt(c, v).anchor, aids, pin)
  <1>1. next \in AtMostOne
    <2>1. c.events \in Seq(EventRecord)
      BY StoredLog
    <2> QED BY <2>1, AnchorTyped, ReconcileTyped
  <1>2. reconcileComment(c, op, n)
           = IF ~AliveAt(c, v) THEN c ELSE AppendEvents(c, Moves(next, v), n)
    BY DEF reconcileComment, Moves
  <1> QED BY <1>1, <1>2

LEMMA ReconcileKeeps ==
    ASSUME NEW c \in StoredComment, NEW n \in Seq(Nat),
           NEW v \in Nat, NEW aids \in Seq(ArtifactRecord), NEW pin \in PinRecord,
           NEW op, op.v = v, op.aids = aids, op.pin = pin
    PROVE  reconcileComment(c, op, n) \in StoredComment /\ Keeps(c, reconcileComment(c, op, n))
  <1> DEFINE next == reconcileAnchor(SnapshotAt(c, v).anchor, aids, pin)
             evs == Moves(next, v)
  <1>1. /\ next \in AtMostOne
        /\ reconcileComment(c, op, n) = IF ~AliveAt(c, v) THEN c ELSE AppendEvents(c, evs, n)
    BY ReconcileMoves
  <1>2. evs \in Seq(ArrivingEvent)
    <2> HIDE DEF next
    <2> QED BY <1>1, MovesTyped
  <1>3. Keeps(c, c)
    BY DEF Keeps
  <1> HIDE DEF evs
  <1> QED BY <1>1, <1>2, <1>3, AppendKeeps

-------------------------------------------------------------------------------
(* Ids.  A clean log has no event that the requests in M drew the number of, *)
(* and no reply with the id of its comment.                                  *)

CleanEvent(id, M) ==
    {e \in EventRecord : /\ \A m \in M : ~DrawnBy(e, m)
                         /\ e.kind = "reply_added" => e.rid # id}
Clean(c, M) == c.id \notin M /\ c.events \in Seq(CleanEvent(c.id, M))
\* A draw of a request that is not in M.
OtherDraw(n, M) == n \in Seq(Nat) /\ n # <<>> /\ n[1] \notin M

LEMMA LongerDraw ==
    ASSUME NEW M, NEW n, OtherDraw(n, M), NEW i \in Nat
    PROVE  OtherDraw(Append(n, i), M) /\ Append(n, i) \in Seq(Nat)
  <1>1. n \in Seq(Nat) /\ Len(n) \in Nat /\ 1 \in 1 .. Len(n)
    BY DEF OtherDraw
  <1>2. Append(n, i) \in Seq(Nat) /\ Append(n, i) # <<>> /\ Append(n, i)[1] = n[1]
    BY <1>1
  <1> QED BY <1>2 DEF OtherDraw

LEMMA DraftClean ==
    ASSUME NEW e \in Draft, NEW M, NEW id, e.kind = "reply_added" => e.rid # id
    PROVE  e \in CleanEvent(id, M)
  <1>1. e \in EventRecord /\ e.eid = NoEID
    BY DEF Draft
  <1>2. NoEID.n = <<>>
    BY DEF NoEID
  <1> QED BY <1>1, <1>2 DEF CleanEvent, DrawnBy

LEMMA AppendClean ==
    ASSUME NEW M, NEW c \in StoredComment, Clean(c, M),
           NEW evs \in Seq(ArrivingEvent), evs \in Seq(CleanEvent(c.id, M)),
           NEW n, OtherDraw(n, M)
    PROVE  Clean(AppendEvents(c, evs, n), M)
  <1> DEFINE old == c.events
             new == [i \in DOMAIN evs |-> Stamp(evs[i], Append(n, i))]
             V == CleanEvent(c.id, M)
  <1>1. old \in Seq(V)
    BY DEF Clean
  <1>2. DOMAIN evs = 1 .. Len(evs) /\ Len(evs) \in Nat
    OBVIOUS
  <1>3. ASSUME NEW i \in 1 .. Len(evs) PROVE Stamp(evs[i], Append(n, i)) \in V
    <2> DEFINE e == evs[i]
               k == Append(n, i)
               f == Stamp(e, k)
    <2>1. e \in ArrivingEvent /\ e \in V /\ e \in EventRecord
      BY KindsOfEvents
    <2>2. OtherDraw(k, M) /\ k \in Seq(Nat)
      BY <1>2, LongerDraw
    <2> HIDE DEF e, k
    <2>3. /\ f \in EventRecord /\ f = [e EXCEPT !.eid = f.eid]
          /\ f.eid = IF e.eid = NoEID THEN EventEID(e, k) ELSE e.eid
      BY <2>1, <2>2, StampTyped, KindsOfEvents
    <2> HIDE DEF f
    <2>4. f.kind = e.kind /\ f.rid = e.rid
      BY <2>1, <2>3 DEF EventRecord
    <2>5. f.eid = e.eid \/ f.eid.n \in {<<>>, k}
      BY <2>1, <2>2, <2>3, EIDTyped
    <2>6. \A m \in M : ~DrawnBy(f, m)
      BY <2>1, <2>2, <2>5 DEF CleanEvent, DrawnBy, OtherDraw
    <2> QED BY <2>1, <2>3, <2>4, <2>6 DEF CleanEvent, f, e, k
  <1>4. new \in Seq(V)
    BY <1>2, <1>3
  <1>5. AppendEvents(c, evs, n) = [c EXCEPT !.events = old \o new]
    BY DEF AppendEvents
  <1> HIDE DEF old, new, V
  <1> DEFINE log == old \o new
             d == [c EXCEPT !.events = log]
  <1>6. log \in Seq(V)
    BY <1>1, <1>4
  <1> HIDE DEF log
  <1>7. d.id = c.id /\ d.events = log
    BY DEF StoredComment
  <1> HIDE DEF d
  <1> QED BY <1>5, <1>6, <1>7 DEF Clean, V, d, log

LEMMA CompactClean ==
    ASSUME NEW M, NEW c \in StoredComment, Clean(c, M)
    PROVE  Clean([c EXCEPT !.events = DedupEvents(@)], M)
  <1> DEFINE log == DedupEvents(c.events)
             d == [c EXCEPT !.events = log]
             V == CleanEvent(c.id, M)
  <1>1. V \in SUBSET EventRecord /\ c.events \in Seq(V)
    BY DEF Clean, CleanEvent
  <1> HIDE DEF V
  <1>2. log \in Seq(V)
    BY <1>1, DedupKeepsIDs
  <1> HIDE DEF log
  <1>3. d.id = c.id /\ d.events = log
    BY DEF StoredComment
  <1> HIDE DEF d
  <1> QED BY <1>2, <1>3 DEF Clean, V, d, log

LEMMA ReconcileClean ==
    ASSUME NEW M, NEW c \in StoredComment, Clean(c, M), NEW n, OtherDraw(n, M),
           NEW v \in Nat, NEW aids \in Seq(ArtifactRecord), NEW pin \in PinRecord,
           NEW op, op.v = v, op.aids = aids, op.pin = pin
    PROVE  Clean(reconcileComment(c, op, n), M)
  <1> DEFINE next == reconcileAnchor(SnapshotAt(c, v).anchor, aids, pin)
             evs == Moves(next, v)
  <1>1. /\ next \in AtMostOne
        /\ reconcileComment(c, op, n) = IF ~AliveAt(c, v) THEN c ELSE AppendEvents(c, evs, n)
    BY ReconcileMoves
  <1>2. /\ evs \in Seq(ArrivingEvent)
        /\ \A i \in 1 .. Len(evs) : Move(evs[i], v)
    <2> HIDE DEF next
    <2> QED BY <1>1, MovesTyped
  <1> HIDE DEF evs
  <1>3. \A i \in 1 .. Len(evs) : evs[i] \in CleanEvent(c.id, M)
    BY <1>2, DraftClean DEF Move
  <1>4. evs \in Seq(CleanEvent(c.id, M))
    BY <1>2, <1>3
  <1> QED BY <1>1, <1>2, <1>4, AppendClean

-------------------------------------------------------------------------------
(* What an operation does to the list.                                     *)

Distinct(l) == \A i, j \in DOMAIN l : l[i].id = l[j].id => i = j

\* m is l after some operations: every comment is where it was.
Continues(l, m) == \A i \in DOMAIN l : i \in DOMAIN m /\ Keeps(l[i], m[i])

\* Merging adds only comments the list lacks, each once.
LEMMA MergeContinues ==
    ASSUME NEW l \in Seq(StoredComment), NEW locals \in Seq(ArrivingComment), NEW n \in Seq(Nat)
    PROVE  LET m == MergeLocals(l, locals, n)
           IN  /\ m \in Seq(StoredComment)
               /\ Len(l) <= Len(m)
               /\ \A i \in 1 .. Len(l) : m[i] = l[i]
               /\ \A i \in 1 .. Len(m) : i > Len(l) =>
                     \E j \in DOMAIN locals :
                        m[i].id = locals[j].id /\ m[i] = StampedLocals(locals, n)[j]
               /\ Distinct(l) => Distinct(m)
  <1> DEFINE st == StampedLocals(locals, n)
             N == NewLocals(l, locals)
             new == Subsequence(st, N)
             m == l \o new
  <1>1. DOMAIN locals = 1 .. Len(locals) /\ Len(locals) \in Nat /\ DOMAIN l = 1 .. Len(l) /\ Len(l) \in Nat
    OBVIOUS
  <1>2. ASSUME NEW i \in DOMAIN locals
        PROVE  LET s == AppendEvents([locals[i] EXCEPT !.events = <<>>], locals[i].events, Append(n, i))
               IN  s \in StoredComment /\ s.id = locals[i].id
    <2> DEFINE c == locals[i]
               bare == [c EXCEPT !.events = <<>>]
    <2>1. c \in ArrivingComment
      OBVIOUS
    <2> HIDE DEF c
    <2>2. c.events \in Seq(ArrivingEvent) /\ <<>> \in Seq(StampedEvent)
      BY <2>1 DEF ArrivingComment
    <2>3. bare \in StoredComment /\ bare.id = c.id
      BY <2>1, <2>2 DEF ArrivingComment, StoredComment
    <2> HIDE DEF bare
    <2>4. Append(n, i) \in Seq(Nat)
      BY <1>1
    <2>5. AppendEvents(bare, c.events, Append(n, i)) \in StoredComment
          /\ Keeps(bare, AppendEvents(bare, c.events, Append(n, i)))
      BY <2>2, <2>3, <2>4, AppendKeeps
    <2> QED BY <2>3, <2>5 DEF Keeps, bare, c
  <1>3. st \in Seq(StoredComment) /\ Len(st) = Len(locals) /\ \A i \in DOMAIN locals : st[i].id = locals[i].id
    <2> DEFINE s(i) == AppendEvents([locals[i] EXCEPT !.events = <<>>], locals[i].events, Append(n, i))
    <2>1. st = [i \in DOMAIN locals |-> s(i)]
      BY DEF StampedLocals
    <2>2. \A i \in DOMAIN locals : s(i) \in StoredComment /\ s(i).id = locals[i].id
      BY <1>2
    <2> HIDE DEF s, st
    <2>3. st \in Seq(StoredComment) /\ Len(st) = Len(locals)
      BY <1>1, <2>1, <2>2
    <2> QED BY <2>1, <2>2, <2>3
  <1> HIDE DEF st
  <1>4. new \in Seq(StoredComment) /\ \E at : Picks(at, st, N \cap (1 .. Len(st)), new)
    BY <1>3, SubsequencePicks
  <1>5. PICK at : Picks(at, st, N \cap (1 .. Len(st)), new)
    BY <1>4
  <1> HIDE DEF new
  <1>6. \A k \in 1 .. Len(new) : /\ at[k] \in N /\ at[k] \in DOMAIN locals
                                /\ new[k].id = locals[at[k]].id /\ new[k] = st[at[k]]
    BY <1>1, <1>3, <1>5 DEF Picks
  <1>7. \A k \in 1 .. Len(new) : \A i \in DOMAIN l : l[i].id # new[k].id
    BY <1>6 DEF N, NewLocals, IndexOf
  <1>8. \A j, k \in 1 .. Len(new) : new[j].id = new[k].id => j = k
    <2> SUFFICES ASSUME NEW j \in 1 .. Len(new), NEW k \in 1 .. Len(new), new[j].id = new[k].id
                 PROVE  j = k
      OBVIOUS
    <2>1. at[j] \in IndexOf(locals, locals[at[k]].id) /\ at[k] \in IndexOf(locals, locals[at[j]].id)
      BY <1>6 DEF IndexOf
    <2>2. at[j] <= at[k] /\ at[k] <= at[j]
      BY <1>6, <2>1 DEF N, NewLocals
    <2>3. at[j] \in Nat /\ at[k] \in Nat
      <3>1. at[j] \in DOMAIN locals /\ at[k] \in DOMAIN locals
        BY <1>6
      <3>2. DOMAIN locals \in SUBSET Nat
        OBVIOUS
      <3> QED BY <3>1, <3>2
    <2>4. at[j] = at[k]
      BY <2>2, <2>3
    <2>5. ~(j < k) /\ ~(k < j)
      BY <1>5, <2>3, <2>4 DEF Picks
    <2> QED BY <1>4, <2>5
  <1>9. /\ m \in Seq(StoredComment) /\ Len(m) = Len(l) + Len(new) /\ Len(new) \in Nat
        /\ \A i \in 1 .. Len(l) : m[i] = l[i]
        /\ \A i \in 1 .. Len(m) : i > Len(l) => i - Len(l) \in 1 .. Len(new) /\ m[i] = new[i - Len(l)]
    BY <1>1, <1>4
  <1>10. m = MergeLocals(l, locals, n)
    BY DEF MergeLocals, new, st
  <1> HIDE DEF m, N
  <1>11. ASSUME Distinct(l) PROVE Distinct(m)
    <2>1. SUFFICES ASSUME NEW i \in 1 .. Len(m), NEW j \in 1 .. Len(m), m[i].id = m[j].id, i < j
                   PROVE  FALSE
      <3>1. DOMAIN m = 1 .. Len(m) /\ Len(m) \in Nat
        BY <1>9
      <3>2. \A i, j \in DOMAIN m : m[i].id = m[j].id => ~(i < j)
        BY <3>1, <2>1
      <3>3. \A i, j \in DOMAIN m : m[i].id = m[j].id => i = j
        BY <3>1, <3>2
      <3> QED BY <3>3 DEF Distinct
    <2>2. Len(m) \in Nat
      BY <1>9
    <2>3. CASE j <= Len(l)
      <3>1. i \in DOMAIN l /\ j \in DOMAIN l /\ m[i] = l[i] /\ m[j] = l[j]
        BY <1>1, <1>9, <2>1, <2>3
      <3> QED BY <1>11, <2>1, <3>1 DEF Distinct
    <2>4. CASE i <= Len(l) /\ j > Len(l)
      <3>1. i \in DOMAIN l /\ m[i] = l[i] /\ j - Len(l) \in 1 .. Len(new) /\ m[j] = new[j - Len(l)]
        BY <1>1, <1>9, <2>1, <2>4
      <3> QED BY <1>7, <2>1, <3>1
    <2>5. CASE i > Len(l) /\ j > Len(l)
      <3>1. /\ i - Len(l) \in 1 .. Len(new) /\ m[i] = new[i - Len(l)]
            /\ j - Len(l) \in 1 .. Len(new) /\ m[j] = new[j - Len(l)]
        BY <1>9, <2>5
      <3>2. i - Len(l) = j - Len(l)
        BY <1>8, <2>1, <3>1
      <3> QED BY <1>1, <2>1, <3>2
    <2> QED BY <1>1, <2>1, <2>3, <2>4, <2>5
  <1>12. ASSUME NEW i \in 1 .. Len(m), i > Len(l)
         PROVE  \E j \in DOMAIN locals : m[i].id = locals[j].id /\ m[i] = st[j]
    <2>1. i - Len(l) \in 1 .. Len(new) /\ m[i] = new[i - Len(l)]
      BY <1>9, <1>12
    <2> DEFINE j == at[i - Len(l)]
    <2>2. j \in DOMAIN locals /\ new[i - Len(l)].id = locals[j].id /\ new[i - Len(l)] = st[j]
      BY <1>6, <2>1
    <2> HIDE DEF j
    <2> QED BY <2>1, <2>2
  <1>13. Len(l) <= Len(m) /\ m \in Seq(StoredComment) /\ \A i \in 1 .. Len(l) : m[i] = l[i]
    BY <1>1, <1>9
  <1>14. \A i \in 1 .. Len(m) : i > Len(l) =>
            \E j \in DOMAIN locals : m[i].id = locals[j].id /\ m[i] = StampedLocals(locals, n)[j]
    BY <1>12 DEF st
  <1> QED BY <1>10, <1>11, <1>13, <1>14, Zenon

\* Publishing reconciles and compacts what is merged.
LEMMA PublishContinues ==
    ASSUME NEW l \in Seq(StoredComment), NEW n \in Seq(Nat), NEW op,
           op.v \in Nat, op.aids \in Seq(ArtifactRecord), op.pin \in PinRecord,
           op.locals \in Seq(ArrivingComment)
    PROVE  LET m == opPublishMerge(l, op, n)
           IN  /\ m \in Seq(StoredComment)
               /\ Continues(l, m)
               /\ \A i \in DOMAIN m : i \notin DOMAIN l =>
                     \E j \in DOMAIN op.locals : m[i].id = op.locals[j].id
               /\ Distinct(l) => Distinct(m)
  <1> DEFINE merged == MergeLocals(l, op.locals, Append(n, 0))
             rec(i) == reconcileComment(merged[i], op, Append(n, i))
             r == [i \in DOMAIN merged |-> rec(i)]
             m == CompactComments(r)
  <1>1. /\ merged \in Seq(StoredComment)
        /\ Len(l) <= Len(merged)
        /\ \A i \in 1 .. Len(l) : merged[i] = l[i]
        /\ \A i \in 1 .. Len(merged) : i > Len(l) =>
              \E j \in DOMAIN op.locals : merged[i].id = op.locals[j].id
        /\ Distinct(l) => Distinct(merged)
    <2>1. Append(n, 0) \in Seq(Nat)
      OBVIOUS
    <2> QED BY <2>1, MergeContinues
  <1>2. opPublishMerge(l, op, n) = m
    BY DEF opPublishMerge
  <1> HIDE DEF merged
  <1>3. /\ DOMAIN merged = 1 .. Len(merged) /\ Len(merged) \in Nat
        /\ DOMAIN l = 1 .. Len(l) /\ Len(l) \in Nat
        /\ \A i \in DOMAIN merged : merged[i] \in StoredComment /\ Append(n, i) \in Seq(Nat)
    BY <1>1
  <1>4. \A i \in DOMAIN merged : rec(i) \in StoredComment /\ Keeps(merged[i], rec(i))
    BY <1>3, ReconcileKeeps
  <1> HIDE DEF rec
  <1>5. \A i \in DOMAIN merged : r[i] = rec(i)
    OBVIOUS
  <1>6. DOMAIN r = DOMAIN merged
    OBVIOUS
  <1> HIDE DEF r
  <1> DEFINE kept(i) == [r[i] EXCEPT !.events = DedupEvents(@)]
  <1>7. m = [i \in DOMAIN merged |-> kept(i)]
    BY <1>6 DEF CompactComments
  <1>8. ASSUME NEW i \in DOMAIN merged
        PROVE  kept(i) \in StoredComment /\ Keeps(merged[i], kept(i))
    <2>1. r[i] \in StoredComment /\ Keeps(merged[i], r[i])
      BY <1>4, <1>5
    <2>2. kept(i) \in StoredComment /\ Keeps(r[i], kept(i))
      BY <2>1, CompactKeeps
    <2> HIDE DEF kept
    <2> QED BY <2>1, <2>2, KeepsOnKeeping
  <1> HIDE DEF kept, m
  <1>9. DOMAIN m = DOMAIN merged /\ \A i \in DOMAIN merged : m[i] = kept(i)
    BY <1>7
  <1>10. m \in Seq(StoredComment)
    BY <1>3, <1>7, <1>8
  <1>11. \A i \in DOMAIN m : m[i].id = merged[i].id
    BY <1>8, <1>9 DEF Keeps
  <1>12. Continues(l, m)
    <2> SUFFICES ASSUME NEW i \in DOMAIN l PROVE i \in DOMAIN m /\ Keeps(l[i], m[i])
      BY DEF Continues
    <2>1. i \in DOMAIN merged /\ merged[i] = l[i]
      BY <1>1, <1>3
    <2> QED BY <1>8, <1>9, <2>1
  <1>13. ASSUME NEW i \in DOMAIN m, i \notin DOMAIN l
         PROVE  \E j \in DOMAIN op.locals : m[i].id = op.locals[j].id
    <2>1. i \in 1 .. Len(merged) /\ i > Len(l)
      BY <1>3, <1>9, <1>13
    <2>2. \E j \in DOMAIN op.locals : merged[i].id = op.locals[j].id
      BY <1>1, <2>1
    <2> QED BY <1>11, <2>2
  <1>14. Distinct(l) => Distinct(m)
    BY <1>1, <1>9, <1>11 DEF Distinct
  <1> QED BY <1>2, <1>10, <1>12, <1>13, <1>14, Zenon

\* Publishing, comment by comment.
PublishedComment(merged, op, n, i) ==
    LET c == reconcileComment(merged[i], op, Append(n, i))
    IN  [c EXCEPT !.events = DedupEvents(@)]

LEMMA PublishDoes ==
    ASSUME NEW l, NEW op, NEW n
    PROVE  LET m == opPublishMerge(l, op, n)
               merged == MergeLocals(l, op.locals, Append(n, 0))
           IN  DOMAIN m = DOMAIN merged /\ \A i \in DOMAIN merged : m[i] = PublishedComment(merged, op, n, i)
  BY DEF opPublishMerge, CompactComments, PublishedComment

LEMMA StampedClean ==
    ASSUME NEW M, NEW locals \in Seq(ArrivingComment), NEW n, OtherDraw(n, M),
           NEW j \in DOMAIN locals, Clean(locals[j], M)
    PROVE  Clean(StampedLocals(locals, n)[j], M)
  <1> DEFINE c == locals[j]
             bare == [c EXCEPT !.events = <<>>]
             k == Append(n, j)
  <1>1. c \in ArrivingComment /\ j \in Nat
    OBVIOUS
  <1>2. StampedLocals(locals, n)[j] = AppendEvents(bare, c.events, k)
    BY DEF StampedLocals
  <1>3. Clean(c, M)
    OBVIOUS
  <1> HIDE DEF c
  <1>4. c.events \in Seq(ArrivingEvent) /\ c.events \in Seq(CleanEvent(c.id, M)) /\ c.id \notin M
    BY <1>1, <1>3 DEF ArrivingComment, Clean
  <1>5. bare \in StoredComment /\ bare.id = c.id /\ bare.events = <<>>
    <2>1. <<>> \in Seq(StampedEvent)
      OBVIOUS
    <2> QED BY <1>1, <2>1 DEF ArrivingComment, StoredComment
  <1>6. OtherDraw(k, M)
    BY <1>1, LongerDraw
  <1> HIDE DEF bare, k
  <1>7. <<>> \in Seq(CleanEvent(c.id, M))
    OBVIOUS
  <1>8. Clean(bare, M)
    BY <1>4, <1>5, <1>7 DEF Clean
  <1> QED BY <1>2, <1>4, <1>5, <1>6, <1>8, AppendClean

LEMMA PublishClean ==
    ASSUME NEW M, NEW l \in Seq(StoredComment), NEW n, OtherDraw(n, M), NEW op,
           op.v \in Nat, op.aids \in Seq(ArtifactRecord), op.pin \in PinRecord,
           op.locals \in Seq(ArrivingComment),
           \A i \in DOMAIN l : Clean(l[i], M),
           \A i \in DOMAIN op.locals : Clean(op.locals[i], M)
    PROVE  \A i \in DOMAIN opPublishMerge(l, op, n) : Clean(opPublishMerge(l, op, n)[i], M)
  <1> DEFINE merged == MergeLocals(l, op.locals, Append(n, 0))
             m == opPublishMerge(l, op, n)
  <1>1. DOMAIN m = DOMAIN merged /\ \A i \in DOMAIN merged : m[i] = PublishedComment(merged, op, n, i)
    BY PublishDoes
  <1>2. OtherDraw(Append(n, 0), M) /\ Append(n, 0) \in Seq(Nat)
    BY LongerDraw
  <1>3. /\ merged \in Seq(StoredComment)
        /\ \A i \in 1 .. Len(l) : merged[i] = l[i]
        /\ \A i \in 1 .. Len(merged) : i > Len(l) =>
              \E j \in DOMAIN op.locals : merged[i] = StampedLocals(op.locals, Append(n, 0))[j]
    BY <1>2, MergeContinues
  <1> HIDE DEF merged, m
  <1>4. DOMAIN merged = 1 .. Len(merged) /\ DOMAIN l = 1 .. Len(l) /\ Len(l) \in Nat
    BY <1>3
  <1>5. ASSUME NEW i \in DOMAIN merged PROVE merged[i] \in StoredComment /\ Clean(merged[i], M)
    <2>1. CASE i <= Len(l)
      BY <1>3, <1>4, <2>1
    <2>2. CASE i > Len(l)
      <3>1. PICK j \in DOMAIN op.locals : merged[i] = StampedLocals(op.locals, Append(n, 0))[j]
        BY <1>3, <1>4, <2>2
      <3>2. Clean(StampedLocals(op.locals, Append(n, 0))[j], M)
        BY <1>2, StampedClean
      <3> QED BY <1>3, <3>1, <3>2
    <2> QED BY <1>4, <2>1, <2>2
  <1>6. ASSUME NEW i \in DOMAIN merged PROVE Clean(PublishedComment(merged, op, n, i), M)
    <2> DEFINE k == Append(n, i)
               c == reconcileComment(merged[i], op, k)
    <2>1. i \in Nat
      BY <1>4
    <2>2. OtherDraw(k, M) /\ k \in Seq(Nat)
      BY <2>1, LongerDraw
    <2> HIDE DEF k
    <2>3. c \in StoredComment
      BY <1>5, <2>2, ReconcileKeeps
    <2>4. Clean(c, M)
      BY <1>5, <2>2, ReconcileClean
    <2>5. PublishedComment(merged, op, n, i) = [c EXCEPT !.events = DedupEvents(@)]
      BY DEF PublishedComment, k
    <2> HIDE DEF c
    <2> QED BY <2>3, <2>4, <2>5, CompactClean
  <1> QED BY <1>1, <1>6 DEF m

-------------------------------------------------------------------------------
(* Deletion.  Whether a reader sees a comment as deleted depends on the ids  *)
(* in its log alone: the id of a deletion tells its version.                 *)

DeletionID(w) == [NoEID EXCEPT !.kind = "deleted", !.atv = w]

LEMMA DeletionEvents ==
    ASSUME NEW e \in StampedEvent
    PROVE  /\ e.kind = "deleted" => e.eid = DeletionID(e.atv)
           /\ \A w \in Nat : e.eid = DeletionID(w) => e.kind = "deleted" /\ e.atv = w
  <1>1. e.eid = EventEID(e, e.eid.n) /\ e \in EventRecord
    BY DEF StampedEvent
  <1>2. e.kind = "deleted" => e.eid = DeletionID(e.atv)
    BY <1>1 DEF EventEID, DeletionID
  <1>3. e.eid.kind = e.kind
    <2>1. e.eid.n \in Seq(Nat)
      BY <1>1 DEF EventRecord, EIDRecord
    <2> DEFINE id == EventEID(e, e.eid.n)
    <2>2. id.kind = e.kind
      BY <1>1, <2>1, EIDTyped
    <2>3. e.eid = id
      BY <1>1
    <2> HIDE DEF id
    <2> QED BY <2>2, <2>3
  <1>4. ASSUME NEW w \in Nat, e.eid = DeletionID(w) PROVE e.kind = "deleted" /\ e.atv = w
    <2>1. ASSUME NEW x \in Nat PROVE DeletionID(x).kind = "deleted" /\ DeletionID(x).atv = x
      BY DEF DeletionID, NoEID
    <2>2. e.atv \in Nat
      BY <1>1 DEF EventRecord
    <2>3. e.kind = "deleted"
      BY <1>3, <1>4, <2>1
    <2>4. DeletionID(e.atv) = DeletionID(w)
      BY <1>2, <1>4, <2>3
    <2>5. DeletionID(e.atv).atv = e.atv /\ DeletionID(w).atv = w
      BY <2>1, <2>2
    <2> QED BY <2>3, <2>4, <2>5
  <1> QED BY <1>2, <1>4

LEMMA ApplyDeletes ==
    ASSUME NEW snap \in SnapshotRecord, NEW e \in EventRecord
    PROVE  applyCommentEvent(snap, e).deleted <=> snap.deleted \/ e.kind = "deleted"
  <1>0. snap.deleted \in BOOLEAN
    BY DEF SnapshotRecord
  <1>1. applyContentEvent(snap, e).deleted = snap.deleted
    BY DEF applyContentEvent, SnapshotRecord
  <1>2. e.kind = "deleted" => applyStatusEvent(snap, e).deleted = TRUE
    BY DEF applyStatusEvent, SnapshotRecord
  <1>3. e.kind \in {"marked_applied", "marked_open"} => applyStatusEvent(snap, e).deleted = snap.deleted
    BY DEF applyStatusEvent, SnapshotRecord
  <1>4. [snap EXCEPT !.reactions = applyReaction(@, e, "reaction_added")].deleted = snap.deleted
    BY DEF SnapshotRecord
  <1>5. applyReplyEvent(snap, e).deleted = snap.deleted
    BY DEF applyReplyEvent, addReply, SnapshotRecord
  <1> QED BY <1>0, <1>1, <1>2, <1>3, <1>4, <1>5 DEF applyCommentEvent

LEMMA DeletionShows ==
    ASSUME NEW c \in StoredComment, NEW v \in Nat
    PROVE  SnapshotAt(c, v).deleted <=>
              \E w \in Nat : w <= v /\ w # VersionLatest /\ DeletionID(w) \in EIDs(c.events)
  <1> DEFINE evs == orderedEvents(c.events)
             n == Len(evs)
  <1>1. /\ evs \in Seq(StampedEvent) /\ EIDs(evs) = EIDs(c.events) /\ n \in Nat
        /\ \A i \in 1 .. n : evs[i] \in StampedEvent /\ evs[i] \in EventRecord
    <2>1. evs \in Seq(StampedEvent) /\ EIDs(evs) = EIDs(c.events)
      BY StoredLog, KindsOfEvents, OrderedLog
    <2> HIDE DEF evs
    <2> QED BY <2>1, KindsOfEvents
  <1>2. PICK u \in [0 .. n -> SnapshotRecord] :
            /\ replay(c, v) = u[n]
            /\ u[0] = emptySnapshot
            /\ \A i \in 1 .. n :
                  u[i] = IF Shows(evs[i], v) THEN applyCommentEvent(u[i - 1], evs[i]) ELSE u[i - 1]
    BY StoredLog, ReplayLoop
  <1> HIDE DEF n, evs
  <1> DEFINE seen(k) == \E i \in 1 .. k : evs[i].kind = "deleted" /\ Shows(evs[i], v)
             T == {k \in Nat : u[k].deleted <=> seen(k)}
  <1>3. 0 \in T
    <2>1. ~emptySnapshot.deleted
      BY DEF emptySnapshot
    <2>2. ~u[0].deleted
      BY <1>2, <2>1
    <2> QED BY <2>2
  <1>4. ASSUME NEW k \in 0 .. (n - 1), k \in T PROVE k + 1 \in T
    <2>1. k \in Nat /\ k + 1 \in 1 .. n /\ (k + 1) - 1 = k /\ u[k] \in SnapshotRecord
      BY <1>1
    <2>2. u[k].deleted <=> seen(k)
      BY <1>4
    <2>3. seen(k + 1) <=> seen(k) \/ (evs[k + 1].kind = "deleted" /\ Shows(evs[k + 1], v))
      <3>1. \A i : i \in 1 .. (k + 1) <=> i \in 1 .. k \/ i = k + 1
        BY <2>1
      <3> QED BY <3>1, Zenon
    <2>4. u[k + 1] = IF Shows(evs[k + 1], v) THEN applyCommentEvent(u[k], evs[k + 1]) ELSE u[k]
      BY <1>2, <2>1
    <2>5. applyCommentEvent(u[k], evs[k + 1]).deleted <=> u[k].deleted \/ evs[k + 1].kind = "deleted"
      BY <1>1, <2>1, ApplyDeletes
    <2> HIDE DEF seen
    <2>6. u[k + 1].deleted <=> seen(k + 1)
      BY <2>2, <2>3, <2>4, <2>5
    <2> QED BY <2>1, <2>6
  <1>5. \A k \in 0 .. n : k \in T
    <2> HIDE DEF T
    <2> QED BY <1>1, <1>3, <1>4, InductUpTo
  <1>6. replay(c, v).deleted <=> seen(n)
    <2>1. n \in T
      BY <1>1, <1>5
    <2> HIDE DEF seen
    <2> QED BY <1>2, <2>1
  <1>7. SnapshotAt(c, v).deleted = replay(c, v).deleted
    <2>1. replay(c, v) \in SnapshotRecord
      BY <1>1, <1>2
    <2> QED BY <2>1 DEF SnapshotAt, finalize, SnapshotRecord
  <1>8. seen(n) <=> \E w \in Nat : w <= v /\ w # VersionLatest /\ DeletionID(w) \in EIDs(evs)
    <2>1. ASSUME NEW i \in 1 .. n, evs[i].kind = "deleted", Shows(evs[i], v)
          PROVE  \E w \in Nat : w <= v /\ w # VersionLatest /\ DeletionID(w) \in EIDs(evs)
      <3>1. evs[i].atv \in Nat /\ evs[i].atv <= v /\ evs[i].atv # VersionLatest
        <4>1. evs[i] \in EventRecord
          BY <1>1
        <4> QED BY <2>1, <4>1 DEF Shows, EventRecord
      <3>2. evs[i].eid = DeletionID(evs[i].atv) /\ evs[i].eid \in EIDs(evs)
        BY <1>1, <2>1, DeletionEvents DEF EIDs, n
      <3> QED BY <3>1, <3>2
    <2>2. ASSUME NEW w \in Nat, w <= v, w # VersionLatest, DeletionID(w) \in EIDs(evs)
          PROVE  seen(n)
      <3>1. PICK i \in 1 .. n : evs[i].eid = DeletionID(w)
        BY <2>2 DEF EIDs, n
      <3>2. evs[i].kind = "deleted" /\ evs[i].atv = w
        BY <1>1, <3>1, DeletionEvents
      <3> QED BY <2>2, <3>2 DEF Shows
    <2> QED BY <2>1, <2>2
  <1> HIDE DEF seen
  <1> QED BY <1>1, <1>6, <1>7, <1>8

-------------------------------------------------------------------------------
(* The ids of appended events.                                             *)

Stamps(evs, n) == [i \in DOMAIN evs |-> Stamp(evs[i], Append(n, i))]
\* No event of the comment was numbered by a draw that continues n.
Undrawn(c, n) == \A k \in DOMAIN c.events : \A i \in Nat : c.events[k].eid.n # Append(n, i)

LEMMA StampsTyped ==
    ASSUME NEW evs \in Seq(Draft), NEW n \in Seq(Nat)
    PROVE  /\ Stamps(evs, n) \in Seq(StampedEvent) /\ Stamps(evs, n) \in Seq(EventRecord)
           /\ Len(Stamps(evs, n)) = Len(evs)
           /\ \A i \in 1 .. Len(evs) :
                 LET e == evs[i]
                     f == Stamps(evs, n)[i]
                 IN  /\ f \in EventRecord /\ f = [e EXCEPT !.eid = f.eid]
                     /\ f.kind = e.kind /\ f.atv = e.atv /\ f.by = e.by /\ f.emoji = e.emoji
                     /\ f.rid = e.rid /\ f.anchor = e.anchor /\ f.verdict = e.verdict /\ f.reset = e.reset
                     /\ f.eid = EventEID(e, Append(n, i))
  <1>1. DOMAIN evs = 1 .. Len(evs) /\ Len(evs) \in Nat
    OBVIOUS
  <1>2. ASSUME NEW i \in 1 .. Len(evs)
        PROVE  LET e == evs[i]
                   f == Stamps(evs, n)[i]
               IN  /\ f \in StampedEvent /\ f \in EventRecord /\ f = [e EXCEPT !.eid = f.eid]
                   /\ f.kind = e.kind /\ f.atv = e.atv /\ f.by = e.by /\ f.emoji = e.emoji
                   /\ f.rid = e.rid /\ f.anchor = e.anchor /\ f.verdict = e.verdict /\ f.reset = e.reset
                   /\ f.eid = EventEID(e, Append(n, i))
    <2> DEFINE e == evs[i]
               k == Append(n, i)
               f == Stamps(evs, n)[i]
    <2>1. e \in Draft /\ e \in ArrivingEvent /\ e \in EventRecord /\ e.eid = NoEID
      <3>1. e \in Draft
        OBVIOUS
      <3> QED BY <3>1, KindsOfEvents DEF Draft
    <2>2. k \in Seq(Nat)
      BY <1>1
    <2>3. f = Stamp(e, k)
      BY <1>1 DEF Stamps
    <2> HIDE DEF e, k, f
    <2>4. /\ f \in StampedEvent /\ f = [e EXCEPT !.eid = f.eid] /\ f.eid = EventEID(e, k)
      BY <2>1, <2>2, <2>3, StampTyped
    <2>5. /\ f.kind = e.kind /\ f.atv = e.atv /\ f.by = e.by /\ f.emoji = e.emoji
          /\ f.rid = e.rid /\ f.anchor = e.anchor /\ f.verdict = e.verdict /\ f.reset = e.reset
      BY <2>1, <2>4 DEF EventRecord
    <2>6. f \in EventRecord
      BY <2>4, KindsOfEvents
    <2> QED BY <2>4, <2>5, <2>6 DEF e, k, f
  <1> DEFINE new == Stamps(evs, n)
  <1>3. new = [i \in 1 .. Len(evs) |-> new[i]]
    BY <1>1 DEF Stamps
  <1> HIDE DEF new
  <1>4. \A i \in 1 .. Len(evs) : new[i] \in StampedEvent /\ new[i] \in EventRecord
    BY <1>2 DEF new
  <1>5. new \in Seq(StampedEvent) /\ new \in Seq(EventRecord) /\ Len(new) = Len(evs)
    BY <1>1, <1>3, <1>4
  <1> QED BY <1>2, <1>5 DEF new

\* The id of an event tells its kind, and that of a mark its version; the others, but
\* for reactions, are unique.
LEMMA IDsTell ==
    ASSUME NEW e \in EventRecord, NEW n
    PROVE  /\ EventEID(e, n).kind = e.kind
           /\ e.kind \in MarkKinds => EventEID(e, n).atv = e.atv
           /\ e.kind \notin MarkKinds \cup ReactionKinds => EventEID(e, n).n = n
  <1>1. CASE e.kind \in ReactionKinds
    BY <1>1 DEF EventEID, NoEID, ReactionKinds, MarkKinds
  <1>2. CASE e.kind \in MarkKinds
    BY <1>2 DEF EventEID, NoEID, ReactionKinds, MarkKinds
  <1>3. CASE e.kind \notin MarkKinds \cup ReactionKinds
    BY <1>3 DEF EventEID, NoEID, ReactionKinds, MarkKinds
  <1> QED BY <1>1, <1>2, <1>3

\* An event that is there and bears the id of one that is appended is a mark of the same
\* version or a reaction.
LEMMA OldAndNew ==
    ASSUME NEW c \in StoredComment, NEW evs \in Seq(Draft), NEW n \in Seq(Nat), Undrawn(c, n),
           NEW x \in EIDs(c.events) \cap EIDs(Stamps(evs, n))
    PROVE  /\ x.kind \in MarkKinds \cup ReactionKinds
           /\ Written(c.events, x).kind = x.kind
           /\ x.kind \in MarkKinds => \E i \in 1 .. Len(evs) : Written(c.events, x).atv = evs[i].atv
  <1> DEFINE s == c.events
             new == Stamps(evs, n)
             e == Written(s, x)
  <1>1. s \in Seq(StampedEvent) /\ s \in Seq(EventRecord) /\ DOMAIN s = 1 .. Len(s)
    BY StoredLog
  <1>2. PICK i \in 1 .. Len(evs) : x = EventEID(evs[i], Append(n, i)) /\ evs[i] \in EventRecord
    <2>1. PICK i \in 1 .. Len(new) : new[i].eid = x
      BY DEF EIDs
    <2>2. i \in 1 .. Len(evs) /\ x = EventEID(evs[i], Append(n, i))
      BY <2>1, StampsTyped
    <2>3. evs[i] \in Draft
      BY <2>2
    <2> QED BY <2>2, <2>3, KindsOfEvents DEF Draft
  <1>3. e \in StampedEvent /\ e.eid = x
    BY <1>1, KindsOfEvents, WhereItIs
  <1>4. PICK k \in DOMAIN s : s[k].eid = x
    BY <1>1 DEF EIDs
  <1> HIDE DEF e
  <1>5. e \in EventRecord /\ x = EventEID(e, x.n)
    BY <1>3 DEF StampedEvent
  <1>6. /\ x.kind = e.kind /\ x.kind = evs[i].kind
        /\ e.kind \in MarkKinds => e.atv = x.atv /\ x.atv = evs[i].atv
    <2>1. x.kind = e.kind /\ (e.kind \in MarkKinds => x.atv = e.atv)
      BY <1>5, IDsTell
    <2>2. x.kind = evs[i].kind /\ (evs[i].kind \in MarkKinds => x.atv = evs[i].atv)
      BY <1>2, IDsTell
    <2> QED BY <2>1, <2>2
  <1>7. x.n # Append(n, i)
    <2>1. i \in Nat
      OBVIOUS
    <2> QED BY <1>4, <2>1 DEF Undrawn
  <1>8. evs[i].kind \in MarkKinds \cup ReactionKinds
    BY <1>2, <1>7, IDsTell
  <1> QED BY <1>6, <1>8 DEF e

LEMMA AppendedComment ==
    ASSUME NEW c \in StoredComment, NEW evs \in Seq(Draft), NEW n \in Seq(Nat)
    PROVE  /\ AppendEvents(c, evs, n) \in StoredComment
           /\ AppendEvents(c, evs, n).events = c.events \o Stamps(evs, n)
           /\ c.events \in Seq(EventRecord) /\ Stamps(evs, n) \in Seq(EventRecord)
           /\ AppendEvents(c, evs, n).createdIn = c.createdIn
  <1> DEFINE log == c.events \o Stamps(evs, n)
  <1>1. AppendEvents(c, evs, n) = [c EXCEPT !.events = log]
    BY DEF AppendEvents, Stamps
  <1> HIDE DEF log
  <1>2. [c EXCEPT !.events = log].events = log /\ [c EXCEPT !.events = log].createdIn = c.createdIn
    BY DEF StoredComment
  <1>3. evs \in Seq(ArrivingEvent)
    BY KindsOfEvents
  <1> QED BY <1>1, <1>2, <1>3, AppendKeeps, StoredLog, StampsTyped DEF log

-------------------------------------------------------------------------------
(* What readers see of a comment that was published over.                  *)

FinalReactions(q) ==
    IF q.verdict = "" THEN q.reactions ELSE q.reactions \cup {<<AgentEmoji[q.verdict], "odoc-agent">>}
FinalReplies(q) == Subsequence(q.replies, {i \in DOMAIN q.replies : ~q.replies[i].deleted})

LEMMA FinalizeFields ==
    ASSUME NEW q \in SnapshotRecord
    PROVE  /\ finalize(q) = [q EXCEPT !.reactions = FinalReactions(q), !.replies = FinalReplies(q)]
           /\ finalize(q).anchor = q.anchor /\ finalize(q).status = q.status
           /\ finalize(q).appliedIn = q.appliedIn /\ finalize(q).deleted = q.deleted
           /\ finalize(q).replies = FinalReplies(q)
  <1>1. finalize(q) = [q EXCEPT !.reactions = FinalReactions(q), !.replies = FinalReplies(q)]
    BY DEF finalize, FinalReactions, FinalReplies
  <1> DEFINE a == FinalReactions(q)
             b == FinalReplies(q)
             f == [q EXCEPT !.reactions = a, !.replies = b]
  <1> HIDE DEF a, b
  <1>2. /\ f.anchor = q.anchor /\ f.status = q.status /\ f.appliedIn = q.appliedIn
        /\ f.deleted = q.deleted /\ f.replies = b
    BY DEF SnapshotRecord
  <1> QED BY <1>1, <1>2 DEF a, b

LEMMA FinalizeElsewhere ==
    ASSUME NEW q \in SnapshotRecord, NEW r \in SnapshotRecord, Elsewhere(q, r)
    PROVE  finalize(r) = [finalize(q) EXCEPT !.anchor = finalize(r).anchor]
  <1> DEFINE a == FinalReactions(q)
             b == FinalReplies(q)
             f == [q EXCEPT !.reactions = a, !.replies = b]
             g == [r EXCEPT !.reactions = a, !.replies = b]
  <1>1. FinalReactions(r) = a /\ FinalReplies(r) = b
    BY DEF Elsewhere, FinalReactions, FinalReplies
  <1>2. finalize(q) = f /\ finalize(r) = g
    BY <1>1, FinalizeFields
  <1> HIDE DEF a, b
  <1>3. r = [q EXCEPT !.anchor = r.anchor]
    BY DEF Elsewhere, SnapshotRecord
  <1>4. g = [f EXCEPT !.anchor = g.anchor]
    BY <1>3 DEF SnapshotRecord
  <1> HIDE DEF f, g
  <1> QED BY <1>2, <1>4

\* What a publish makes of a comment, and what it spares: everything, for the readers of
\* earlier versions, and for the others all but the anchor.
Republish(c, op, n) == [reconcileComment(c, op, n) EXCEPT !.events = DedupEvents(@)]
Spares(old, new, early) == new = [old EXCEPT !.anchor = new.anchor] /\ (early => new = old)

LEMMA PublishedSnapshot ==
    ASSUME NEW c \in StoredComment, NEW n \in Seq(Nat), Undrawn(c, n),
           NEW op, op.v \in Nat, op.aids \in Seq(ArtifactRecord), op.pin \in PinRecord,
           NEW w \in Nat
    PROVE  Spares(SnapshotAt(c, w), SnapshotAt(Republish(c, op, n), w), w < op.v)
  <1> DEFINE v == op.v
             r == reconcileComment(c, op, n)
             d == [r EXCEPT !.events = DedupEvents(@)]
             next == reconcileAnchor(SnapshotAt(c, v).anchor, op.aids, op.pin)
             evs == Moves(next, v)
             s == c.events
             new == Stamps(evs, n)
  <1>d. Republish(c, op, n) = d
    BY DEF Republish
  <1>1. /\ next \in AtMostOne
        /\ r = IF ~AliveAt(c, v) THEN c ELSE AppendEvents(c, evs, n)
    BY ReconcileMoves
  <1>2. evs \in Seq(Draft) /\ \A i \in 1 .. Len(evs) : Move(evs[i], v)
    <2> HIDE DEF next
    <2> QED BY <1>1, MovesTyped
  <1>3. r \in StoredComment
    BY ReconcileKeeps
  <1> HIDE DEF r
  <1>4. SnapshotAt(d, w) = SnapshotAt(r, w)
    BY <1>3, CompactionIsInvisible
  <1> HIDE DEF evs, d
  <1>s. s \in Seq(EventRecord)
    BY StoredLog
  <1>5. CASE r = c
    <2> DEFINE q == replay(c, w)
    <2>1. Alike(s, w, s, w, EIDs(s), EIDs(s), SameSnapshot)
      <3>1. <<emptySnapshot, emptySnapshot>> \in SameSnapshot
        BY EmptyTyped, SameRelations
      <3>2. \A x \in EIDs(s) : Written(s, x) \in EventRecord
        BY <1>s, WhereItIs
      <3>3. \A x \in EIDs(s) : \A q0 \in SnapshotRecord : Effect(s, x, w, q0) \in SnapshotRecord
        BY <3>2, ApplyTyped DEF Effect
      <3> QED BY <3>1, <3>3, SameRelations DEF Alike
    <2>2. q \in SnapshotRecord
      BY <1>s, <2>1, ReplaysAgree
    <2>3. Elsewhere(q, q)
      BY DEF Elsewhere
    <2>4. finalize(q) = [finalize(q) EXCEPT !.anchor = finalize(q).anchor]
      BY <2>2, <2>3, FinalizeElsewhere
    <2>5. SnapshotAt(c, w) = finalize(q) /\ SnapshotAt(d, w) = finalize(q)
      BY <1>4, <1>5 DEF SnapshotAt
    <2> HIDE DEF q
    <2> QED BY <1>d, <2>4, <2>5 DEF d, r, Spares
  <1>6. CASE r # c
    <2>1. r.events = s \o new /\ new \in Seq(EventRecord)
      BY <1>1, <1>2, <1>6, AppendedComment
    <2>2. ASSUME NEW i \in 1 .. Len(new)
          PROVE  new[i] \in EventRecord /\ new[i].kind = "anchor_changed" /\ ~new[i].reset /\ new[i].atv = v
      <3>1. i \in 1 .. Len(evs)
        BY <1>2, StampsTyped
      <3>2. Move(evs[i], v)
        BY <1>2, <3>1
      <3>3. /\ new[i] \in EventRecord /\ new[i].kind = evs[i].kind /\ new[i].atv = evs[i].atv
            /\ new[i].reset = evs[i].reset
        BY <1>2, <3>1, StampsTyped
      <3> QED BY <3>2, <3>3 DEF Move
    <2>3. Len(new) = Len(evs)
      BY <1>2, StampsTyped
    <2>4. EIDs(s) \cap EIDs(new) = {}
      <3> SUFFICES ASSUME NEW x \in EIDs(s) \cap EIDs(new) PROVE FALSE
        OBVIOUS
      <3>1. x.kind \in MarkKinds \cup ReactionKinds
        BY <1>2, OldAndNew
      <3>2. PICK i \in 1 .. Len(new) : x = new[i].eid
        BY DEF EIDs
      <3>3. x = EventEID(evs[i], Append(n, i)) /\ evs[i] \in EventRecord /\ evs[i].kind = "anchor_changed"
        <4>1. i \in 1 .. Len(evs)
          BY <2>3
        <4> QED BY <1>2, <3>2, <4>1, StampsTyped DEF Move, Draft
      <3>4. x.kind = "anchor_changed"
        BY <3>3, IDsTell
      <3> QED BY <3>1, <3>4 DEF MarkKinds, ReactionKinds
    <2> HIDE DEF new
    <2>5. \A Q : Forgives(Q, s, new, w)
      BY <2>4 DEF Forgives
    <2>6. Allows(SameElsewhere, new, w)
      <3> SUFFICES ASSUME NEW i \in 1 .. Len(new), NEW q \in SnapshotRecord, NEW p \in SnapshotRecord,
                          <<q, p>> \in SameElsewhere
                   PROVE  <<q, applyCommentEvent(p, new[i])>> \in SameElsewhere
        BY DEF Allows
      <3> DEFINE e == new[i]
                 a == applyCommentEvent(p, e)
      <3>1. e \in EventRecord /\ e.kind = "anchor_changed" /\ ~e.reset
        BY <2>2
      <3> HIDE DEF e
      <3>2. a \in SnapshotRecord
        BY <3>1, ApplyTyped
      <3>3. a.status = p.status /\ a.appliedIn = p.appliedIn /\ a.deleted = p.deleted
            /\ a.verdict = p.verdict
        BY <3>1, AppliedFields
      <3>4. a.reactions = p.reactions /\ a.replies = p.replies
        <4>1. e.kind \in ContentKinds /\ e.kind \notin ReactionKinds
          BY <3>1 DEF ContentKinds, ReactionKinds
        <4> QED BY <3>1, <4>1, AppliedFields
      <3> HIDE DEF a
      <3>5. Elsewhere(q, a)
        BY <3>3, <3>4, SameRelations DEF Elsewhere
      <3> QED BY <3>2, <3>5, SameRelations DEF a, e
    <2>7. ASSUME w < v PROVE Allows(SameSnapshot, new, w)
      <3>1. \A i \in 1 .. Len(new) : ~Shows(new[i], w)
        BY <2>2, <2>7 DEF Shows
      <3> QED BY <3>1 DEF Allows
    <2>8. <<emptySnapshot, emptySnapshot>> \in SameElsewhere /\ <<emptySnapshot, emptySnapshot>> \in SameSnapshot
      BY EmptyTyped, SameRelations DEF Elsewhere
    <2> DEFINE q == replay(c, w)
               p == replay(r, w)
    <2>9. q \in SnapshotRecord /\ p \in SnapshotRecord /\ Elsewhere(q, p)
      <3>1. q \in SnapshotRecord /\ p \in SnapshotRecord /\ <<q, p>> \in SameElsewhere
        BY <1>s, <2>1, <2>5, <2>6, <2>8, SameFollows, AppendAgrees
      <3> QED BY <3>1, SameRelations
    <2>10. w < v => p = q
      <3>1. w < v => <<q, p>> \in SameSnapshot
        BY <1>s, <2>1, <2>5, <2>7, <2>8, SameFollows, AppendAgrees
      <3> QED BY <3>1, SameRelations
    <2>11. finalize(p) = [finalize(q) EXCEPT !.anchor = finalize(p).anchor]
      BY <2>9, FinalizeElsewhere
    <2>12. SnapshotAt(c, w) = finalize(q) /\ SnapshotAt(d, w) = finalize(p)
      BY <1>4 DEF SnapshotAt
    <2> HIDE DEF q, p
    <2> QED BY <1>d, <2>10, <2>11, <2>12 DEF d, r, Spares
  <1> QED BY <1>5, <1>6

-------------------------------------------------------------------------------
(* The numbers of a publish: m, i, j for the event that re-anchors the comment at i, *)
(* and m, 0, j, k for event k of local comment j.                          *)

NotDrawn(c, m) == \A k \in DOMAIN c.events : ~DrawnBy(c.events[k], m)

LEMMA Undrawn1 ==
    ASSUME NEW c, NEW m \in Nat, NEW i \in Nat, NotDrawn(c, m)
    PROVE  Undrawn(c, Append(<<m>>, i)) /\ Undrawn(c, <<m>>)
  <1>1. ASSUME NEW j \in Nat
        PROVE  /\ Append(Append(<<m>>, i), j) # <<>> /\ Append(Append(<<m>>, i), j)[1] = m
               /\ Append(<<m>>, j) # <<>> /\ Append(<<m>>, j)[1] = m
    OBVIOUS
  <1>2. ASSUME NEW k \in DOMAIN c.events, NEW x, x # <<>>, x[1] = m PROVE c.events[k].eid.n # x
    BY <1>2 DEF NotDrawn, DrawnBy
  <1> QED BY <1>1, <1>2 DEF Undrawn

LEMMA LocalsUndrawn ==
    ASSUME NEW locals \in Seq(ArrivingComment), NEW j \in DOMAIN locals, NEW m \in Nat, NEW i \in Nat,
           NotDrawn(locals[j], m)
    PROVE  Undrawn(StampedLocals(locals, Append(<<m>>, 0))[j], Append(<<m>>, i))
  <1> DEFINE c == locals[j]
             bare == [c EXCEPT !.events = <<>>]
             n == Append(Append(<<m>>, 0), j)
             evs == c.events
             new == [k \in DOMAIN evs |-> Stamp(evs[k], Append(n, k))]
             d == AppendEvents(bare, evs, n)
  <1>1. StampedLocals(locals, Append(<<m>>, 0))[j] = d
    BY DEF StampedLocals
  <1>2. c \in ArrivingComment /\ j \in Nat
    OBVIOUS
  <1>3. \A k \in DOMAIN evs : ~DrawnBy(evs[k], m)
    BY DEF NotDrawn
  <1> HIDE DEF c
  <1>4. evs \in Seq(ArrivingEvent)
    BY <1>2 DEF ArrivingComment
  <1>5. d.events = new
    <2>1. bare.events = <<>>
      BY <1>2 DEF ArrivingComment
    <2>2. d = [bare EXCEPT !.events = <<>> \o new]
      BY <2>1 DEF AppendEvents
    <2>3. <<>> \o new = new
      <3>1. DOMAIN evs = 1 .. Len(evs) /\ Len(evs) \in Nat
        BY <1>4
      <3>2. new \in Seq({new[k] : k \in DOMAIN evs})
        BY <3>1
      <3> HIDE DEF new
      <3> QED BY <3>2
    <2> HIDE DEF new
    <2>4. [bare EXCEPT !.events = <<>> \o new].events = <<>> \o new
      BY <1>2 DEF ArrivingComment
    <2> QED BY <2>2, <2>3, <2>4
  <1>6. DOMAIN evs = 1 .. Len(evs) /\ Len(evs) \in Nat /\ n \in Seq(Nat) /\ Len(n) = 3
    BY <1>2, <1>4
  <1> HIDE DEF evs, n, d
  <1>7. ASSUME NEW k \in DOMAIN evs, NEW h \in Nat
        PROVE  new[k].eid.n # Append(Append(<<m>>, i), h)
    <2> DEFINE e == evs[k]
               x == Append(n, k)
               y == Append(Append(<<m>>, i), h)
    <2>1. e \in ArrivingEvent /\ e \in EventRecord
      BY <1>4, KindsOfEvents
    <2>2. x \in Seq(Nat) /\ Len(x) = 4
      <3>1. n \in Seq(Nat) /\ Len(n) = 3 /\ k \in Nat
        BY <1>6
      <3>2. Len(Append(n, k)) = Len(n) + 1 /\ Append(n, k) \in Seq(Nat)
        BY <3>1, OneLonger
      <3> QED BY <3>1, <3>2
    <2>3. Len(y) = 3 /\ y # <<>> /\ y[1] = m
      OBVIOUS
    <2>4. ~DrawnBy(e, m)
      BY <1>3
    <2>5. new[k] = Stamp(e, x)
      OBVIOUS
    <2> HIDE DEF e, x, y, new
    <2>6. new[k].eid = IF e.eid = NoEID THEN EventEID(e, x) ELSE e.eid
      BY <2>1, <2>2, <2>5, StampTyped
    <2>7. CASE e.eid = NoEID
      <3>1. EventEID(e, x).n \in {<<>>, x}
        BY <2>1, <2>2, EIDTyped
      <3>2. x # y
        <4>1. 4 # 3
          OBVIOUS
        <4> QED BY <2>2, <2>3, <4>1, Zenon
      <3>3. new[k].eid.n # y
        BY <2>3, <2>6, <2>7, <3>1, <3>2
      <3> QED BY <3>3 DEF y
    <2>8. CASE e.eid # NoEID
      BY <2>3, <2>4, <2>6, <2>8 DEF DrawnBy, y
    <2> QED BY <2>7, <2>8 DEF y
  <1>8. Undrawn(d, Append(<<m>>, i))
    BY <1>5, <1>7 DEF Undrawn
  <1> QED BY <1>1, <1>8
-------------------------------------------------------------------------------
(* Where re-anchoring leads.                                               *)

\* An anchor of an element is one of an element that the document has and, if the anchor
\* pointed there before, the only one of its aid.
Resolves(old, new, aids) ==
    new.kind = "element" =>
       /\ \E x \in ByAID(aids, new.aid) : anchorMatchesArtifact(new, aids[x])
       /\ knownAid(old) = new.aid => Cardinality(ByAID(aids, new.aid)) = 1

\* What the anchor of a comment becomes.
Reanchored(old, next) == IF next = <<>> THEN old ELSE next[1]

LEMMA OneOf ==
    ASSUME NEW x, NEW s, s = <<x>>
    PROVE  s # <<>> /\ s[1] = x /\ \A old : Reanchored(old, s) = x
  <1>1. s # <<>> /\ s[1] = x
    OBVIOUS
  <1> QED BY <1>1 DEF Reanchored

LEMMA MigratedResolves ==
    ASSUME NEW a \in AnchorRecord, NEW aids \in Seq(ArtifactRecord), NEW pin \in PinRecord,
           \A i \in DOMAIN aids : Lower[aids[i].tag] = aids[i].tag
    PROVE  /\ migratedAnchor(a, aids, pin) # <<>> => Resolves(a, migratedAnchor(a, aids, pin)[1], aids)
           /\ pinnedAnchor(a, aids, pin) # <<>> => Resolves(a, pinnedAnchor(a, aids, pin)[1], aids)
  <1>1. ASSUME migratedAnchor(a, aids, pin) # <<>>
        PROVE  Resolves(a, migratedAnchor(a, aids, pin)[1], aids)
    <2> DEFINE to == ByAID(aids, pin.canonical)
               b == [a EXCEPT !.aid = pin.canonical, !.label = pin.tag, !.fp = pin.tag]
    <2>1. /\ Cardinality(to) = 1 /\ aids[Only(to)].tag = pin.tag
          /\ migratedAnchor(a, aids, pin) = <<b>>
      BY <1>1 DEF migratedAnchor
    <2>2. b.aid = pin.canonical /\ b.fp = pin.tag
      BY DEF AnchorRecord
    <2> HIDE DEF b
    <2>3. Only(to) \in to /\ Only(to) \in DOMAIN aids
      BY <2>1, OnlyIsThere DEF ByAID
    <2>4. anchorMatchesArtifact(b, aids[Only(to)])
      BY <2>1, <2>2, <2>3 DEF anchorMatchesArtifact
    <2>5. Resolves(a, b, aids)
      BY <2>1, <2>2, <2>3, <2>4 DEF Resolves
    <2> QED BY <2>1, <2>5, OneOf
  <1>2. ASSUME pinnedAnchor(a, aids, pin) # <<>>
        PROVE  Resolves(a, pinnedAnchor(a, aids, pin)[1], aids)
    <2> DEFINE at == ByAID(aids, pin.aid)
               b == [a EXCEPT !.label = pin.tag, !.fp = pin.tag]
    <2>1. /\ pin.aid # "" /\ knownAid(a) = pin.aid
          /\ Cardinality(at) = 1 /\ aids[Only(at)].tag = pin.tag
          /\ pinnedAnchor(a, aids, pin) = <<b>>
      BY <1>2 DEF pinnedAnchor
    <2>2. b.aid = a.aid /\ b.fp = pin.tag
      BY DEF AnchorRecord
    <2>3. a.aid = pin.aid
      BY <2>1 DEF knownAid
    <2> HIDE DEF b
    <2>4. Only(at) \in at /\ Only(at) \in DOMAIN aids
      BY <2>1, OnlyIsThere DEF ByAID
    <2>5. anchorMatchesArtifact(b, aids[Only(at)])
      BY <2>1, <2>2, <2>4 DEF anchorMatchesArtifact
    <2>6. Resolves(a, b, aids)
      BY <2>1, <2>2, <2>3, <2>4, <2>5 DEF Resolves
    <2>7. pinnedAnchor(a, aids, pin)[1] = b
      BY <2>1, OneOf
    <2> QED BY <2>6, <2>7
  <1> QED BY <1>1, <1>2

\* An anchor that is lost is not one of an element.
LEMMA LostResolves ==
    ASSUME NEW a \in AnchorRecord, NEW reason, NEW aids
    PROVE  /\ lostAnchor(a, reason) = <<>> => a.kind = "lost"
           /\ lostAnchor(a, reason) # <<>> => Resolves(a, lostAnchor(a, reason)[1], aids)
  <1> DEFINE b == [a EXCEPT !.kind = "lost", !.aid = "", !.reason = reason]
  <1>1. b.kind = "lost"
    BY DEF AnchorRecord
  <1>2. lostAnchor(a, reason) = IF a.kind = "lost" /\ a.reason = reason THEN <<>> ELSE <<b>>
    BY DEF lostAnchor
  <1> HIDE DEF b
  <1>3. Resolves(a, b, aids)
    BY <1>1 DEF Resolves
  <1> QED BY <1>2, <1>3, OneOf

LEMMA PresentResolves ==
    ASSUME NEW a \in AnchorRecord, NEW aids \in Seq(ArtifactRecord),
           knownAid(a) # "", ByAID(aids, knownAid(a)) \cup ByLegacyAID(aids, knownAid(a)) # {}
    PROVE  Resolves(a, Reanchored(a, ResolveAID(a, aids)), aids)
  <1> DEFINE direct == ByAID(aids, a.aid)
             alias == ByLegacyAID(aids, a.aid)
             found == direct \cup alias
             only == Only(found)
             b == canonicalAliasAnchor(a, aids[only])[1]
  <1>1. knownAid(a) = a.aid /\ a.kind = "element"
    BY DEF knownAid
  <1>2. ASSUME NEW reason PROVE Resolves(a, Reanchored(a, lostAnchor(a, reason)), aids)
    <2>1. lostAnchor(a, reason) # <<>> /\ Resolves(a, lostAnchor(a, reason)[1], aids)
      BY <1>1, LostResolves
    <2> QED BY <2>1 DEF Reanchored
  <1>3. ASSUME Cardinality(found) = 1, anchorMatchesArtifact(a, aids[only]), direct # {},
               alias = {}
        PROVE  Resolves(a, Reanchored(a, <<>>), aids)
    <2>1. found = direct
      BY <1>3
    <2>2. only \in direct
      <3> HIDE DEF found
      <3> QED BY <1>3, <2>1, OnlyIsThere
    <2>3. Cardinality(direct) = 1
      BY <1>3, <2>1
    <2> HIDE DEF only, direct
    <2>4. Resolves(a, a, aids)
      BY <1>1, <1>3, <2>2, <2>3 DEF Resolves, direct
    <2> QED BY <2>4 DEF Reanchored
  <1>4. ASSUME Cardinality(found) = 1, anchorMatchesArtifact(a, aids[only]), direct = {}
        PROVE  Resolves(a, Reanchored(a, canonicalAliasAnchor(a, aids[only])), aids)
    <2> DEFINE x == aids[only]
               label == IF a.label = "" THEN x.tag ELSE a.label
               y == [a EXCEPT !.kind = "element", !.aid = x.aid, !.label = label]
    <2>1. only \in found
      <3> HIDE DEF found
      <3> QED BY <1>4, OnlyIsThere
    <2>2. only \in DOMAIN aids
      BY <2>1 DEF ByAID, ByLegacyAID
    <2>3. canonicalAliasAnchor(a, x) = <<y>>
      BY DEF canonicalAliasAnchor
    <2> HIDE DEF label
    <2>4. y.kind = "element" /\ y.aid = x.aid /\ y.fp = a.fp
      BY DEF AnchorRecord
    <2> HIDE DEF y, only, found
    <2>5. only \in ByAID(aids, y.aid)
      BY <2>2, <2>4 DEF ByAID
    <2>6. y.aid # a.aid
      BY <1>4, <2>5
    <2>7. anchorMatchesArtifact(y, aids[only])
      BY <1>4, <2>4 DEF anchorMatchesArtifact
    <2>8. Resolves(a, y, aids)
      BY <1>1, <2>5, <2>6, <2>7 DEF Resolves
    <2> QED BY <2>3, <2>8, OneOf
  <1>5. \/ \E reason : ResolveAID(a, aids) = lostAnchor(a, reason)
        \/ /\ Cardinality(found) = 1 /\ anchorMatchesArtifact(a, aids[only]) /\ direct # {}
           /\ alias = {} /\ ResolveAID(a, aids) = <<>>
        \/ /\ Cardinality(found) = 1 /\ anchorMatchesArtifact(a, aids[only]) /\ direct = {}
           /\ ResolveAID(a, aids) = canonicalAliasAnchor(a, aids[only])
    BY DEF ResolveAID
  <1> HIDE DEF found, only, direct, alias
  <1> QED BY <1>2, <1>3, <1>4, <1>5

LEMMA NextResolves ==
    ASSUME NEW a \in AnchorRecord, NEW aids \in Seq(ArtifactRecord),
           \A i \in DOMAIN aids : Lower[aids[i].tag] = aids[i].tag,
           knownAid(a) # "" => ByAID(aids, knownAid(a)) = {}
    PROVE  Resolves(a, Reanchored(a, nextAnchor(a, aids)), aids)
  <1> DEFINE aid == findRebindAid(a, aids)
             label == IF a.label # "" THEN a.label ELSE IF a.fp # "" THEN a.fp ELSE "element"
             b == [a EXCEPT !.kind = "element", !.aid = aid, !.label = label, !.reason = ""]
             lost == [a EXCEPT !.kind = "lost", !.aid = "", !.reason = "no_candidate"]
             wantTag == IF a.fp # "" THEN a.fp ELSE Lower[a.label]
             tagged  == {i \in DOMAIN aids : wantTag \in {"", aids[i].tag}}
             matches == {i \in tagged : a.head \in {"", aids[i].heading}}
  <1>1. nextAnchor(a, aids) = IF aid # "" THEN <<b>> ELSE IF a.kind = "lost" THEN <<>> ELSE <<lost>>
    BY DEF nextAnchor
  <1>2. ASSUME aid # "" PROVE \E i \in DOMAIN aids : aids[i].aid = aid /\ wantTag \in {"", aids[i].tag}
    <2>1. aid = IF Cardinality(matches) = 1 THEN aids[Only(matches)].aid
                ELSE IF matches = {} /\ Cardinality(tagged) = 1 THEN aids[Only(tagged)].aid
                ELSE ""
      BY DEF findRebindAid
    <2>2. matches \subseteq tagged /\ \A i \in tagged : i \in DOMAIN aids /\ wantTag \in {"", aids[i].tag}
      OBVIOUS
    <2> HIDE DEF aid, matches, tagged, wantTag
    <2>3. CASE Cardinality(matches) = 1
      BY <2>1, <2>2, <2>3, OnlyIsThere
    <2>4. CASE Cardinality(matches) # 1
      BY <1>2, <2>1, <2>2, <2>4, OnlyIsThere
    <2> QED BY <2>3, <2>4
  <1>3. b.kind = "element" /\ b.aid = aid /\ b.fp = a.fp /\ lost.kind = "lost"
    <2> HIDE DEF aid, label
    <2> QED BY DEF AnchorRecord
  <1> HIDE DEF aid, b, lost, tagged, matches
  <1>4. CASE aid # ""
    <2>1. PICK i \in DOMAIN aids : aids[i].aid = aid /\ wantTag \in {"", aids[i].tag}
      BY <1>2, <1>4
    <2>2. anchorMatchesArtifact(b, aids[i])
      BY <1>3, <2>1 DEF anchorMatchesArtifact
    <2> HIDE DEF wantTag
    <2>3. i \in ByAID(aids, b.aid)
      BY <1>3, <2>1 DEF ByAID
    <2>4. knownAid(a) # b.aid
      BY <1>3, <1>4, <2>3
    <2>5. Resolves(a, b, aids)
      BY <2>2, <2>3, <2>4 DEF Resolves
    <2> QED BY <1>1, <1>4, <2>5, OneOf
  <1>5. CASE aid = "" /\ a.kind = "lost"
    <2>1. Resolves(a, a, aids)
      BY <1>5 DEF Resolves
    <2> QED BY <1>1, <1>5, <2>1 DEF Reanchored
  <1>6. CASE aid = "" /\ a.kind # "lost"
    <2>1. Resolves(a, lost, aids)
      BY <1>3 DEF Resolves
    <2>2. nextAnchor(a, aids) = <<lost>>
      BY <1>1, <1>6
    <2>3. Reanchored(a, nextAnchor(a, aids)) = lost
      BY <2>2, OneOf
    <2> QED BY <2>1, <2>3
  <1> QED BY <1>4, <1>5, <1>6

\* Whatever an anchor becomes, it is resolved (reconcile.go:62-130).
LEMMA ReconcileResolves ==
    ASSUME NEW a \in AnchorRecord, NEW aids \in Seq(ArtifactRecord), NEW pin \in PinRecord,
           \A i \in DOMAIN aids : Lower[aids[i].tag] = aids[i].tag
    PROVE  Resolves(a, Reanchored(a, reconcileAnchor(a, aids, pin)), aids)
  <1> DEFINE migrated == migratedAnchor(a, aids, pin)
             refreshed == pinnedAnchor(a, aids, pin)
             aid == knownAid(a)
             present == aid # "" /\ ByAID(aids, aid) \cup ByLegacyAID(aids, aid) # {}
  <1>1. reconcileAnchor(a, aids, pin) =
           IF a.kind \notin {"element", "lost"} THEN <<>>
           ELSE IF a.kind = "lost" /\ pin.migrating THEN <<>>
           ELSE IF migrated # <<>> THEN migrated
           ELSE IF refreshed # <<>> THEN refreshed
           ELSE IF present THEN ResolveAID(a, aids)
           ELSE nextAnchor(a, aids)
    BY DEF reconcileAnchor
  <1>2. a.kind # "element" => Resolves(a, Reanchored(a, <<>>), aids)
    BY DEF Resolves, Reanchored
  <1>3. migrated # <<>> => Resolves(a, Reanchored(a, migrated), aids)
    BY MigratedResolves DEF Reanchored
  <1>4. refreshed # <<>> => Resolves(a, Reanchored(a, refreshed), aids)
    BY MigratedResolves DEF Reanchored
  <1>5. present => Resolves(a, Reanchored(a, ResolveAID(a, aids)), aids)
    BY PresentResolves
  <1>6. ~present => Resolves(a, Reanchored(a, nextAnchor(a, aids)), aids)
    BY NextResolves
  <1> HIDE DEF migrated, refreshed, present
  <1> QED BY <1>1, <1>2, <1>3, <1>4, <1>5, <1>6
\* A comment that is visible after it was published over was visible before, and its
\* anchor is what re-anchoring made of it.
LEMMA RepublishedAnchor ==
    ASSUME NEW c \in StoredComment, NEW n \in Seq(Nat), Undrawn(c, n),
           NEW op, op.v \in Nat, op.v # VersionLatest,
           op.aids \in Seq(ArtifactRecord), op.pin \in PinRecord,
           AliveAt(Republish(c, op, n), op.v)
    PROVE  LET old == SnapshotAt(c, op.v).anchor
           IN  /\ old \in AnchorRecord
               /\ SnapshotAt(Republish(c, op, n), op.v).anchor
                    = Reanchored(old, reconcileAnchor(old, op.aids, op.pin))
  <1> DEFINE v == op.v
             r == reconcileComment(c, op, n)
             d == [r EXCEPT !.events = DedupEvents(@)]
             old == SnapshotAt(c, v).anchor
             next == reconcileAnchor(old, op.aids, op.pin)
             evs == Moves(next, v)
             s == c.events
  <1>d. Republish(c, op, n) = d
    BY DEF Republish
  <1>1. /\ next \in AtMostOne
        /\ r = IF ~AliveAt(c, v) THEN c ELSE AppendEvents(c, evs, n)
    BY ReconcileMoves
  <1>s. s \in Seq(EventRecord)
    BY StoredLog
  <1>o. old \in AnchorRecord
    BY <1>s, AnchorTyped
  <1>3. r \in StoredComment
    BY ReconcileKeeps
  <1> HIDE DEF r, next
  <1>4. SnapshotAt(d, v) = SnapshotAt(r, v)
    BY <1>3, CompactionIsInvisible
  <1>5. AliveAt(c, v)
    <2> SUFFICES ASSUME ~AliveAt(c, v) PROVE FALSE
      OBVIOUS
    <2>1. r = c
      BY <1>1
    <2>2. d.events = DedupEvents(s) /\ d.createdIn = c.createdIn
      BY <2>1 DEF StoredComment
    <2>3. DedupEvents(s) # <<>> => s # <<>>
      <3>1. EIDs(DedupEvents(s)) = EIDs(s) /\ DedupEvents(s) \in Seq(EventRecord)
        BY <1>s, DedupKeepsIDs, DedupInOrder
      <3> DEFINE t == DedupEvents(s)
      <3> HIDE DEF t
      <3>2. ASSUME t # <<>> PROVE s # <<>>
        <4>1. 1 \in 1 .. Len(t)
          BY <3>1, <3>2 DEF t
        <4>2. t[1].eid \in EIDs(t)
          BY <4>1 DEF EIDs
        <4>3. EIDs(s) # {}
          BY <3>1, <4>2 DEF t
        <4>4. Len(s) # 0
          BY <1>s, <4>3 DEF EIDs
        <4> QED BY <4>4
      <3> QED BY <3>2 DEF t
    <2>4. AliveAt(d, v)
      BY <1>d
    <2> HIDE DEF d
    <2>5. ExistsAt(c, v) /\ ~SnapshotAt(c, v).deleted
      BY <1>4, <2>1, <2>2, <2>3, <2>4 DEF AliveAt, ExistsAt
    <2> QED BY <2>5 DEF AliveAt
  <1>6. r = AppendEvents(c, evs, n)
    BY <1>1, <1>5
  <1>7. evs \in Seq(Draft)
    BY <1>1, MovesTyped
  <1> HIDE DEF d, old
  <1>8. CASE next = <<>>
    <2>1. evs = <<>>
      BY <1>1, <1>8, MovesTyped
    <2>2. r.events = s
      <3>1. r.events = s \o Stamps(evs, n) /\ Stamps(evs, n) \in Seq(EventRecord) /\ Len(Stamps(evs, n)) = Len(evs)
        BY <1>6, <1>7, AppendedComment, StampsTyped
      <3> DEFINE new == Stamps(evs, n)
      <3> HIDE DEF new
      <3>2. Len(<<>>) = 0 /\ new = <<>>
        BY <2>1, <3>1 DEF new
      <3>3. s \o <<>> = s
        BY <1>s
      <3> QED BY <3>1, <3>2, <3>3 DEF new
    <2>3. SnapshotAt(r, v) = SnapshotAt(c, v)
      BY <2>2 DEF SnapshotAt, replay
    <2> QED BY <1>d, <1>o, <1>4, <1>8, <2>3 DEF Reanchored, old, next
  <1>9. CASE next # <<>>
    <2> DEFINE m == evs[1]
               e == Stamps(evs, n)[1]
    <2>1. evs = <<m>> /\ Move(m, v) /\ m.anchor = next[1]
      BY <1>1, <1>9, MovesTyped
    <2> HIDE DEF m
    <2>2. Len(evs) = 1 /\ 1 \in 1 .. Len(evs) /\ evs[1] = m
      BY <2>1
    <2>3. /\ e \in EventRecord /\ e.kind = m.kind /\ e.atv = m.atv /\ e.anchor = m.anchor
          /\ Stamps(evs, n) \in Seq(EventRecord) /\ Len(Stamps(evs, n)) = 1
      <3> HIDE DEF evs
      <3> QED BY <1>7, <2>2, StampsTyped
    <2>4. e.kind = "anchor_changed" /\ e.atv = v /\ e.anchor = next[1]
      BY <2>1, <2>3 DEF Move
    <2>5. Stamps(evs, n) = <<e>>
      <3> DEFINE new == Stamps(evs, n)
      <3>1. new \in Seq(EventRecord) /\ Len(new) = 1
        BY <2>3
      <3> HIDE DEF new
      <3>2. new = <<new[1]>>
        BY <3>1
      <3> QED BY <3>2 DEF new
    <2>6. r.events = s \o <<e>>
      <3>1. AppendEvents(c, evs, n).events = c.events \o Stamps(evs, n)
        BY <1>7, AppendedComment
      <3> HIDE DEF evs, e
      <3> QED BY <1>6, <2>5, <3>1
    <2>7. e.eid \notin EIDs(s)
      <3> SUFFICES ASSUME e.eid \in EIDs(s) PROVE FALSE
        OBVIOUS
      <3>1. e.eid \in EIDs(Stamps(evs, n))
        <4> DEFINE new == Stamps(evs, n)
        <4>1. 1 \in 1 .. Len(new) /\ new[1] = e
          BY <2>3
        <4> HIDE DEF new, e
        <4>2. e.eid \in EIDs(new)
          BY <4>1 DEF EIDs
        <4> QED BY <4>2 DEF new
      <3>2. e.eid.kind \in MarkKinds \cup ReactionKinds
        <4>1. e.eid \in EIDs(s) \cap EIDs(Stamps(evs, n))
          BY <3>1
        <4> HIDE DEF e, evs
        <4> QED BY <1>7, <4>1, OldAndNew
      <3>3. e.eid = EventEID(m, Append(n, 1)) /\ m \in EventRecord
        <4>1. e.eid = EventEID(evs[1], Append(n, 1))
          <5> HIDE DEF evs
          <5> QED BY <1>7, <2>2, StampsTyped
        <4> QED BY <2>1, <2>2, <4>1 DEF Move, Draft
      <3>4. e.eid.kind = "anchor_changed"
        <4> HIDE DEF e
        <4> QED BY <2>1, <3>3, IDsTell DEF Move
      <3> QED BY <3>2, <3>4 DEF MarkKinds, ReactionKinds
    <2> HIDE DEF e, evs
    <2>8. replay(c, v) \in SnapshotRecord /\ replay(r, v) = applyCommentEvent(replay(c, v), e)
      BY <1>s, <2>3, <2>4, <2>6, <2>7, AppendedLast
    <2> DEFINE q == replay(c, v)
               z == applyCommentEvent(q, e)
    <2>9. z.anchor = next[1] /\ z \in SnapshotRecord
      <3>1. z \in SnapshotRecord
        BY <2>3, <2>8, ApplyTyped
      <3>2. z.anchor = IF e.kind \in ContentKinds THEN e.anchor ELSE q.anchor
        BY <2>3, <2>8, AppliedFields
      <3> QED BY <2>4, <3>1, <3>2 DEF ContentKinds
    <2> HIDE DEF z
    <2>10. SnapshotAt(r, v).anchor = next[1]
      BY <2>8, <2>9, FinalizeFields DEF SnapshotAt, z
    <2> QED BY <1>d, <1>o, <1>4, <1>9, <2>10 DEF Reanchored, old, next
  <1> QED BY <1>8, <1>9

-------------------------------------------------------------------------------
(* Replies.                                                                *)

LEMMA TouchedReply ==
    ASSUME NEW r \in ReplyRecord, NEW e \in EventRecord
    PROVE  LET t == touchReply(r, e)
           IN  /\ t \in ReplyRecord /\ t.id = r.id /\ t.verdict = r.verdict
               /\ t.deleted = IF r.id = e.rid /\ e.kind = "reply_deleted" THEN TRUE ELSE r.deleted
               /\ t.reactions = IF r.id = e.rid /\ e.kind # "reply_deleted"
                                THEN applyReaction(r.reactions, e, "reply_reaction_added")
                                ELSE r.reactions
  <1> DEFINE m == applyReaction(r.reactions, e, "reply_reaction_added")
  <1>1. r.reactions \in Marks
    BY DEF ReplyRecord
  <1>2. m \in Marks
    BY <1>1, ReactionTyped
  <1>3. touchReply(r, e) = IF r.id # e.rid THEN r
                           ELSE IF e.kind = "reply_deleted" THEN [r EXCEPT !.deleted = TRUE]
                           ELSE [r EXCEPT !.reactions = m]
    BY DEF touchReply
  <1> HIDE DEF m
  <1>4. CASE r.id # e.rid
    BY <1>3, <1>4
  <1>5. CASE r.id = e.rid /\ e.kind = "reply_deleted"
    BY <1>3, <1>5 DEF ReplyRecord
  <1>6. CASE r.id = e.rid /\ e.kind # "reply_deleted"
    <2>1. touchReply(r, e) = [r EXCEPT !.reactions = m]
      BY <1>3, <1>6
    <2>2. /\ [r EXCEPT !.reactions = m] \in ReplyRecord
          /\ [r EXCEPT !.reactions = m].id = r.id /\ [r EXCEPT !.reactions = m].verdict = r.verdict
          /\ [r EXCEPT !.reactions = m].deleted = r.deleted
          /\ [r EXCEPT !.reactions = m].reactions = m
      BY <1>2 DEF ReplyRecord
    <2> QED BY <1>6, <2>1, <2>2 DEF m
  <1> QED BY <1>4, <1>5, <1>6

\* The replies after an event: one more, or the same with one of them touched.
LEMMA RepliesGrow ==
    ASSUME NEW rs \in Seq(ReplyRecord), NEW e \in EventRecord, e.kind = "reply_added"
    PROVE  LET t == RepliesAfter(rs, e)
           IN  /\ t \in Seq(ReplyRecord) /\ Len(t) = Len(rs) + 1 /\ \A i \in 1 .. Len(rs) : t[i] = rs[i]
               /\ t[Len(rs) + 1].id = e.rid /\ t[Len(rs) + 1].verdict = e.verdict
               /\ ~t[Len(rs) + 1].deleted
  <1> DEFINE r == [id |-> e.rid, author |-> e.by, verdict |-> e.verdict,
                   deleted |-> FALSE, reactions |-> {}]
  <1>1. r \in ReplyRecord /\ r.id = e.rid /\ r.verdict = e.verdict /\ ~r.deleted
    BY DEF EventRecord, ReplyRecord, Marks
  <1>2. RepliesAfter(rs, e) = Append(rs, r)
    BY DEF RepliesAfter
  <1> HIDE DEF r
  <1> QED BY <1>1, <1>2

LEMMA RepliesTouched ==
    ASSUME NEW rs \in Seq(ReplyRecord), NEW e \in EventRecord, e.kind # "reply_added"
    PROVE  LET t == RepliesAfter(rs, e)
           IN  /\ t \in Seq(ReplyRecord) /\ Len(t) = Len(rs)
               /\ \A i \in 1 .. Len(rs) : rs[i] \in ReplyRecord /\ t[i] = touchReply(rs[i], e)
  <1> DEFINE t == RepliesAfter(rs, e)
  <1>1. t = [i \in DOMAIN rs |-> touchReply(rs[i], e)]
    BY DEF RepliesAfter
  <1>2. DOMAIN rs = 1 .. Len(rs) /\ Len(rs) \in Nat /\ \A i \in 1 .. Len(rs) : rs[i] \in ReplyRecord
    OBVIOUS
  <1> HIDE DEF t
  <1>3. \A i \in 1 .. Len(rs) : t[i] = touchReply(rs[i], e) /\ t[i] \in ReplyRecord
    BY <1>1, <1>2, TouchedReply
  <1>4. t \in Seq(ReplyRecord) /\ Len(t) = Len(rs)
    <2>1. t = [i \in 1 .. Len(rs) |-> t[i]]
      BY <1>1, <1>2
    <2> QED BY <1>2, <1>3, <2>1
  <1> QED BY <1>2, <1>3, <1>4 DEF t

\* The replies that a log adds.
AddedReplies(s) == {s[k].rid : k \in {j \in DOMAIN s : s[j].kind = "reply_added"}}
RepliesFrom(q, R) == \A j \in DOMAIN q.replies : q.replies[j].id \in R

LEMMA AppliedReplies ==
    ASSUME NEW R, NEW q \in SnapshotRecord, NEW e \in EventRecord, RepliesFrom(q, R),
           e.kind = "reply_added" => e.rid \in R
    PROVE  RepliesFrom(applyCommentEvent(q, e), R)
  <1> DEFINE a == applyCommentEvent(q, e)
             rs == q.replies
  <1>1. a.replies = IF e.kind \in ContentKinds \cup MarkKinds \cup ReactionKinds
                    THEN rs ELSE RepliesAfter(rs, e)
    BY AppliedFields
  <1>2. rs \in Seq(ReplyRecord) /\ Len(rs) \in Nat /\ DOMAIN rs = 1 .. Len(rs)
        /\ \A j \in 1 .. Len(rs) : rs[j].id \in R
    <2>1. rs \in Seq(ReplyRecord)
      BY DEF SnapshotRecord
    <2> QED BY <2>1 DEF RepliesFrom
  <1> HIDE DEF a, rs
  <1>3. CASE a.replies = rs
    BY <1>2, <1>3 DEF RepliesFrom, a
  <1>4. CASE a.replies = RepliesAfter(rs, e) /\ e.kind = "reply_added"
    <2> DEFINE t == RepliesAfter(rs, e)
    <2>1. /\ t \in Seq(ReplyRecord) /\ Len(t) = Len(rs) + 1 /\ \A i \in 1 .. Len(rs) : t[i] = rs[i]
          /\ t[Len(rs) + 1].id = e.rid
      BY <1>2, <1>4, RepliesGrow
    <2> HIDE DEF t
    <2>2. \A i \in DOMAIN t : t[i].id \in R
      <3>1. DOMAIN t = 1 .. (Len(rs) + 1)
        BY <2>1
      <3>2. \A i \in DOMAIN t : i \in 1 .. Len(rs) \/ i = Len(rs) + 1
        BY <1>2, <3>1
      <3> QED BY <1>2, <1>4, <2>1, <3>2
    <2> QED BY <1>4, <2>2 DEF RepliesFrom, a, t
  <1>5. CASE a.replies = RepliesAfter(rs, e) /\ e.kind # "reply_added"
    <2> DEFINE t == RepliesAfter(rs, e)
    <2>1. /\ t \in Seq(ReplyRecord) /\ Len(t) = Len(rs)
          /\ \A i \in 1 .. Len(rs) : rs[i] \in ReplyRecord /\ t[i] = touchReply(rs[i], e)
      BY <1>2, <1>5, RepliesTouched
    <2> HIDE DEF t
    <2>2. DOMAIN t = 1 .. Len(rs)
      BY <2>1
    <2>3. \A i \in 1 .. Len(rs) : t[i].id = rs[i].id
      <3>1. \A x \in ReplyRecord : touchReply(x, e).id = x.id
        BY TouchedReply
      <3> QED BY <2>1, <3>1
    <2> QED BY <1>2, <1>5, <2>2, <2>3 DEF RepliesFrom, a, t
  <1> QED BY <1>1, <1>3, <1>4, <1>5

LEMMA RepliesWereAdded ==
    ASSUME NEW c, c.events \in Seq(EventRecord), NEW v
    PROVE  replay(c, v) \in SnapshotRecord /\ RepliesFrom(replay(c, v), AddedReplies(c.events))
  <1> DEFINE s == c.events
             R == AddedReplies(s)
  <1>1. PICK n, f, u : Folding(n, f, u, s, v) /\ replay(c, v) = u[n]
    BY FoldOf
  <1>s. s \in Seq(EventRecord) /\ DOMAIN s = 1 .. Len(s)
    OBVIOUS
  <1> HIDE DEF s
  <1>2. /\ n \in Nat
        /\ \A k \in 1 .. n : f[k] \in EIDs(s)
        /\ \A k \in 0 .. n : u[k] \in SnapshotRecord
        /\ u[0] = emptySnapshot
        /\ \A k \in 1 .. n : u[k] = Effect(s, f[k], v, u[k - 1])
    BY <1>1 DEF Folding
  <1>3. ASSUME NEW x \in EIDs(s)
        PROVE  /\ Written(s, x) \in EventRecord
               /\ Written(s, x).kind = "reply_added" => Written(s, x).rid \in R
    <2>1. Written(s, x) \in EventRecord /\ Latest(Where(s, x)) \in DOMAIN s
      BY <1>s, WhereItIs
    <2>2. Written(s, x) = s[Latest(Where(s, x))]
      BY DEF Written
    <2> QED BY <2>1, <2>2 DEF AddedReplies
  <1> HIDE DEF R
  <1> DEFINE T == {k \in Nat : RepliesFrom(u[k], R)}
  <1>4. 0 \in T
    <2>1. emptySnapshot.replies = <<>> /\ DOMAIN <<>> = {}
      BY DEF emptySnapshot
    <2> QED BY <1>2, <2>1 DEF RepliesFrom
  <1>5. ASSUME NEW k \in 0 .. (n - 1), k \in T PROVE k + 1 \in T
    <2>1. k + 1 \in 1 .. n /\ (k + 1) - 1 = k /\ k \in 0 .. n /\ k + 1 \in Nat
      BY <1>2
    <2>2. u[k + 1] = Effect(s, f[k + 1], v, u[k]) /\ f[k + 1] \in EIDs(s) /\ u[k] \in SnapshotRecord
      BY <1>2, <2>1
    <2>3. RepliesFrom(u[k + 1], R)
      BY <1>3, <1>5, <2>2, AppliedReplies DEF Effect
    <2> QED BY <2>1, <2>3
  <1>6. n \in T
    <2>1. n \in 0 .. n
      BY <1>2
    <2> HIDE DEF T
    <2> QED BY <1>2, <1>4, <1>5, <2>1, InductUpTo
  <1>7. u[n] \in SnapshotRecord
    BY <1>2
  <1> QED BY <1>1, <1>6, <1>7 DEF R, s

\* Readers see the replies that are not deleted.
Seen(q) == {q.replies[k] : k \in {j \in DOMAIN q.replies : ~q.replies[j].deleted}}

LEMMA FinalRepliesSeen ==
    ASSUME NEW q \in SnapshotRecord
    PROVE  /\ finalize(q).replies \in Seq(ReplyRecord)
           /\ {finalize(q).replies[k] : k \in DOMAIN finalize(q).replies} = Seen(q)
  <1> DEFINE rs == q.replies
             S == {i \in DOMAIN rs : ~rs[i].deleted}
             r == Subsequence(rs, S)
  <1>1. rs \in Seq(ReplyRecord) /\ DOMAIN rs = 1 .. Len(rs)
    BY DEF SnapshotRecord
  <1>2. finalize(q).replies = r
    BY FinalizeFields DEF FinalReplies
  <1>3. Seen(q) = {rs[k] : k \in S}
    BY DEF Seen
  <1> HIDE DEF rs
  <1>4. r \in Seq(ReplyRecord) /\ \E at : Picks(at, rs, S \cap (1 .. Len(rs)), r)
    <2> HIDE DEF S
    <2> QED BY <1>1, SubsequencePicks
  <1>5. PICK at : Picks(at, rs, S, r)
    <2>1. S \cap (1 .. Len(rs)) = S
      BY <1>1
    <2> QED BY <1>4, <2>1
  <1> HIDE DEF r, S
  <1>6. DOMAIN r = 1 .. Len(r)
    BY <1>4
  <1>7. {r[k] : k \in DOMAIN r} = {rs[k] : k \in S}
    BY <1>5, <1>6 DEF Picks
  <1> QED BY <1>2, <1>3, <1>4, <1>7

LEMMA RepliesHeld ==
    ASSUME NEW q \in SnapshotRecord, NEW rid, rid # 0
    PROVE  /\ HasReply(finalize(q), rid) <=> \E r \in Seen(q) : r.id = rid
           /\ \A m : m \in reactionsOf(finalize(q), rid) <=>
                        \E r \in Seen(q) : r.id = rid /\ m \in r.reactions
  <1> DEFINE t == finalize(q).replies
  <1>1. {t[k] : k \in DOMAIN t} = Seen(q)
    BY FinalRepliesSeen
  <1>2. HasReply(finalize(q), rid) <=> \E k \in DOMAIN t : t[k].id = rid
    BY DEF HasReply
  <1>3. reactionsOf(finalize(q), rid) = UNION {t[k].reactions : k \in {j \in DOMAIN t : t[j].id = rid}}
    BY DEF reactionsOf
  <1> HIDE DEF t
  <1>4. \A m : m \in reactionsOf(finalize(q), rid) <=>
                  \E k \in DOMAIN t : t[k].id = rid /\ m \in t[k].reactions
    BY <1>3
  <1>5. /\ \A k \in DOMAIN t : t[k] \in Seen(q)
        /\ \A r \in Seen(q) : \E k \in DOMAIN t : t[k] = r
    BY <1>1
  <1> QED BY <1>2, <1>4, <1>5

LEMMA StampedOne ==
    ASSUME NEW e \in Draft, NEW n \in Seq(Nat)
    PROVE  LET new == Stamps(<<e>>, n)
               f == new[1]
           IN  /\ f \in EventRecord /\ f.kind = e.kind /\ f.atv = e.atv /\ f.by = e.by /\ f.emoji = e.emoji
               /\ f.rid = e.rid /\ f.anchor = e.anchor /\ f.verdict = e.verdict /\ f.reset = e.reset
               /\ f.eid = EventEID(e, Append(n, 1))
               /\ new \in Seq(EventRecord) /\ Len(new) = 1
  <1> DEFINE k == Append(n, 1)
             f == Stamp(e, k)
  <1>1. e \in ArrivingEvent /\ e \in EventRecord /\ e.eid = NoEID /\ k \in Seq(Nat)
    BY KindsOfEvents DEF Draft
  <1>2. Stamps(<<e>>, n) = <<f>>
    BY DEF Stamps
  <1> HIDE DEF k, f
  <1>3. f \in StampedEvent /\ f = [e EXCEPT !.eid = f.eid] /\ f.eid = EventEID(e, k)
    BY <1>1, StampTyped DEF f
  <1>4. f \in EventRecord
    BY <1>3, KindsOfEvents
  <1>5. /\ f.kind = e.kind /\ f.atv = e.atv /\ f.by = e.by /\ f.emoji = e.emoji
        /\ f.rid = e.rid /\ f.anchor = e.anchor /\ f.verdict = e.verdict /\ f.reset = e.reset
    BY <1>1, <1>3 DEF EventRecord
  <1>6. <<f>> \in Seq(EventRecord) /\ Len(<<f>>) = 1 /\ <<f>>[1] = f
    BY <1>4
  <1> QED BY <1>2, <1>3, <1>4, <1>5, <1>6 DEF k

\* An appended event with an id of its own is applied last.
LEMMA AppendedOne ==
    ASSUME NEW c \in StoredComment, NEW n \in Seq(Nat), Undrawn(c, n), NEW e \in Draft,
           e.kind \notin MarkKinds \cup ReactionKinds, NEW v \in Nat, e.atv = v, v # VersionLatest
    PROVE  \E f \in EventRecord :
              /\ f.kind = e.kind /\ f.atv = e.atv /\ f.by = e.by /\ f.emoji = e.emoji
              /\ f.rid = e.rid /\ f.anchor = e.anchor /\ f.verdict = e.verdict /\ f.reset = e.reset
              /\ replay(c, v) \in SnapshotRecord
              /\ replay(AppendEvents(c, <<e>>, n), v) = applyCommentEvent(replay(c, v), f)
  <1> DEFINE new == Stamps(<<e>>, n)
             d == AppendEvents(c, <<e>>, n)
             f == new[1]
  <1>1. <<e>> \in Seq(Draft) /\ Len(<<e>>) = 1 /\ <<e>>[1] = e /\ 1 \in 1 .. 1
    OBVIOUS
  <1>2. /\ f \in EventRecord /\ f.kind = e.kind /\ f.atv = e.atv /\ f.by = e.by /\ f.emoji = e.emoji
        /\ f.rid = e.rid /\ f.anchor = e.anchor /\ f.verdict = e.verdict /\ f.reset = e.reset
        /\ f.eid = EventEID(e, Append(n, 1))
        /\ new \in Seq(EventRecord) /\ Len(new) = 1
    BY StampedOne
  <1>3. d.events = c.events \o new /\ c.events \in Seq(EventRecord)
    BY <1>1, AppendedComment
  <1>4. f.eid \in EIDs(new) /\ new = <<f>>
    <2> HIDE DEF new
    <2>1. 1 \in 1 .. Len(new) /\ new = <<new[1]>>
      BY <1>2
    <2> QED BY <2>1 DEF EIDs
  <1>5. f.eid \notin EIDs(c.events)
    <2>1. f.eid.kind = e.kind
      <3>1. e \in EventRecord
        BY DEF Draft
      <3> HIDE DEF f
      <3> QED BY <1>2, <3>1, IDsTell
    <2>2. f.eid \in EIDs(c.events) => f.eid.kind \in MarkKinds \cup ReactionKinds
      <3>1. \A x \in EIDs(c.events) \cap EIDs(new) : x.kind \in MarkKinds \cup ReactionKinds
        BY <1>1, OldAndNew
      <3> HIDE DEF new
      <3> QED BY <1>4, <3>1
    <2> QED BY <2>1, <2>2
  <1>6. d.events = c.events \o <<f>>
    BY <1>3, <1>4
  <1> HIDE DEF f, d, new
  <1>7. replay(c, v) \in SnapshotRecord /\ replay(d, v) = applyCommentEvent(replay(c, v), f)
    BY <1>2, <1>3, <1>5, <1>6, AppendedLast
  <1> QED BY <1>2, <1>7 DEF d

\* The mark that e puts on a reply, as version v shows it.
MarkSeen(c, v, e) == <<e.emoji, e.by>> \in reactionsOf(SnapshotAt(c, v), e.rid)

\* e reacts, at version v, to a reply that version shows: it takes the mark away when it is there.
Reacts(c, v, e) == /\ e.atv = v /\ v # VersionLatest /\ e.rid # 0
                   /\ e.kind = (IF MarkSeen(c, v, e) THEN "reply_reaction_removed" ELSE "reply_reaction_added")
                   /\ HasReply(SnapshotAt(c, v), e.rid)

\* Reacting to a reply that is seen.
LEMMA ReplyReactionFlips ==
    ASSUME NEW c \in StoredComment, NEW n \in Seq(Nat), Undrawn(c, n), NEW e \in Draft,
           NEW v \in Nat, Reacts(c, v, e)
    PROVE  MarkSeen(AppendEvents(c, <<e>>, n), v, e) <=> ~MarkSeen(c, v, e)
  <1> DEFINE had == MarkSeen(c, v, e)
  <1>r. /\ e.atv = v /\ v # VersionLatest /\ e.rid # 0
        /\ e.kind = (IF had THEN "reply_reaction_removed" ELSE "reply_reaction_added")
        /\ HasReply(SnapshotAt(c, v), e.rid)
    BY DEF Reacts
  <1> HIDE DEF had
  <1> DEFINE d == AppendEvents(c, <<e>>, n)
             rid == e.rid
             mark == <<e.emoji, e.by>>
             q == replay(c, v)
  <1>1. /\ e.kind \notin MarkKinds \cup ReactionKinds /\ e.kind \notin ContentKinds
        /\ e.kind # "reply_added" /\ e.kind # "reply_deleted"
    BY <1>r DEF MarkKinds, ReactionKinds, ContentKinds
  <1>2. PICK f \in EventRecord :
              /\ f.kind = e.kind /\ f.by = e.by /\ f.emoji = e.emoji /\ f.rid = e.rid
              /\ replay(c, v) \in SnapshotRecord
              /\ replay(AppendEvents(c, <<e>>, n), v) = applyCommentEvent(replay(c, v), f)
    BY <1>1, <1>r, AppendedOne
  <1> DEFINE z == applyCommentEvent(q, f)
  <1>3. q \in SnapshotRecord /\ z \in SnapshotRecord
    BY <1>2, ApplyTyped
  <1>4. SnapshotAt(c, v) = finalize(q) /\ SnapshotAt(d, v) = finalize(z)
    BY <1>2 DEF SnapshotAt
  <1>5. z.replies = RepliesAfter(q.replies, f)
    <2>1. f.kind \notin ContentKinds \cup MarkKinds \cup ReactionKinds
      BY <1>1, <1>2
    <2> QED BY <1>3, <2>1, AppliedFields
  <1>f. f.kind # "reply_added" /\ f.kind # "reply_deleted" /\ f.rid = rid /\ mark = <<f.emoji, f.by>>
    BY <1>1, <1>2
  <1>k. f.kind = IF had THEN "reply_reaction_removed" ELSE "reply_reaction_added"
    BY <1>2, <1>r
  <1> HIDE DEF q, z, d
  <1>6. /\ q.replies \in Seq(ReplyRecord) /\ DOMAIN q.replies = 1 .. Len(q.replies)
        /\ DOMAIN z.replies = 1 .. Len(q.replies)
        /\ \A i \in DOMAIN q.replies : q.replies[i] \in ReplyRecord /\ z.replies[i] = touchReply(q.replies[i], f)
    <2>1. q.replies \in Seq(ReplyRecord)
      BY <1>3 DEF SnapshotRecord
    <2>2. /\ z.replies \in Seq(ReplyRecord) /\ Len(z.replies) = Len(q.replies)
          /\ \A i \in 1 .. Len(q.replies) :
                q.replies[i] \in ReplyRecord /\ z.replies[i] = touchReply(q.replies[i], f)
      BY <1>5, <1>f, <2>1, RepliesTouched
    <2>3. DOMAIN q.replies = 1 .. Len(q.replies) /\ DOMAIN z.replies = 1 .. Len(q.replies)
      BY <2>1, <2>2
    <2> QED BY <2>1, <2>2, <2>3
  <1>7. \A r \in ReplyRecord :
           /\ touchReply(r, f).id = r.id /\ touchReply(r, f).deleted = r.deleted
           /\ r.id = rid => /\ mark \in touchReply(r, f).reactions <=> ~had
    <2> SUFFICES ASSUME NEW r \in ReplyRecord
                 PROVE  /\ touchReply(r, f).id = r.id /\ touchReply(r, f).deleted = r.deleted
                        /\ r.id = rid => (mark \in touchReply(r, f).reactions <=> ~had)
      OBVIOUS
    <2>1. /\ touchReply(r, f).id = r.id /\ touchReply(r, f).deleted = r.deleted
          /\ r.id = rid => touchReply(r, f).reactions = applyReaction(r.reactions, f, "reply_reaction_added")
      <3> DEFINE t == touchReply(r, f)
      <3>1. /\ t.id = r.id
            /\ t.deleted = IF r.id = f.rid /\ f.kind = "reply_deleted" THEN TRUE ELSE r.deleted
            /\ t.reactions = IF r.id = f.rid /\ f.kind # "reply_deleted"
                             THEN applyReaction(r.reactions, f, "reply_reaction_added") ELSE r.reactions
        BY TouchedReply
      <3> HIDE DEF t, rid, mark
      <3>2. t.id = r.id /\ t.deleted = r.deleted
        BY <1>f, <3>1
      <3>3. r.id = rid => t.reactions = applyReaction(r.reactions, f, "reply_reaction_added")
        BY <1>f, <3>1
      <3> QED BY <3>2, <3>3 DEF t
    <2>2. mark \in applyReaction(r.reactions, f, "reply_reaction_added") <=> ~had
      <3>1. CASE had
        <4>1. applyReaction(r.reactions, f, "reply_reaction_added") = r.reactions \ {mark}
          BY <1>f, <1>k, <3>1 DEF applyReaction
        <4> QED BY <3>1, <4>1
      <3>2. CASE ~had
        <4>1. applyReaction(r.reactions, f, "reply_reaction_added") = r.reactions \cup {mark}
          BY <1>f, <1>k, <3>2 DEF applyReaction
        <4> QED BY <3>2, <4>1
      <3> QED BY <3>1, <3>2
    <2> QED BY <2>1, <2>2
  <1>8. /\ \A r \in Seen(q) : r \in ReplyRecord /\ touchReply(r, f) \in Seen(z)
        /\ \A r \in Seen(z) : \E x \in Seen(q) : r = touchReply(x, f)
    <2>1. /\ \A i \in DOMAIN q.replies : q.replies[i].deleted = z.replies[i].deleted
          /\ DOMAIN z.replies = DOMAIN q.replies
      BY <1>6, <1>7
    <2> QED BY <1>6, <2>1 DEF Seen
  <1>9. \E r \in Seen(q) : r.id = rid
    BY <1>3, <1>4, <1>r, RepliesHeld
  <1>10. mark \in reactionsOf(SnapshotAt(d, v), rid) <=> \E r \in Seen(z) : r.id = rid /\ mark \in r.reactions
    BY <1>3, <1>4, <1>r, RepliesHeld
  <1>11. (\E r \in Seen(z) : r.id = rid /\ mark \in r.reactions) <=> ~had
    <2>1. ASSUME had, NEW r \in Seen(z), r.id = rid PROVE mark \notin r.reactions
      <3>1. PICK x \in Seen(q) : r = touchReply(x, f)
        BY <1>8
      <3>2. x \in ReplyRecord
        BY <1>8
      <3> QED BY <1>7, <2>1, <3>1, <3>2
    <2>2. ASSUME ~had PROVE \E r \in Seen(z) : r.id = rid /\ mark \in r.reactions
      <3>1. PICK x \in Seen(q) : x.id = rid
        BY <1>9
      <3>2. x \in ReplyRecord /\ touchReply(x, f) \in Seen(z)
        BY <1>8
      <3> QED BY <1>7, <2>2, <3>1, <3>2
    <2> QED BY <2>1, <2>2
  <1>12. MarkSeen(d, v, e) <=> \E r \in Seen(z) : r.id = rid /\ mark \in r.reactions
    BY <1>10 DEF MarkSeen
  <1> QED BY <1>11, <1>12 DEF d, had

-------------------------------------------------------------------------------
(* What readers of an earlier version see of a comment, apart from reactions. *)

\* The same replies, but for who reacted to them.
AlikeReply(r, s) == s.id = r.id /\ s.verdict = r.verdict /\ (s.deleted <=> r.deleted)
AlikeReplies(a, b) == Len(b) = Len(a) /\ \A k \in 1 .. Len(a) : AlikeReply(a[k], b[k])

LEMMA AlikeLonger ==
    ASSUME NEW a \in Seq(ReplyRecord), NEW b \in Seq(ReplyRecord), AlikeReplies(a, b),
           NEW x \in ReplyRecord, NEW y \in ReplyRecord, AlikeReply(x, y)
    PROVE  AlikeReplies(Append(a, x), Append(b, y))
  <1>1. /\ Len(a) \in Nat /\ Len(b) = Len(a)
        /\ Len(Append(a, x)) = Len(a) + 1 /\ Len(Append(b, y)) = Len(b) + 1
        /\ \A k \in 1 .. Len(a) : Append(a, x)[k] = a[k] /\ Append(b, y)[k] = b[k]
        /\ Append(a, x)[Len(a) + 1] = x /\ Append(b, y)[Len(a) + 1] = y
    <2>1. Len(b) = Len(a)
      BY DEF AlikeReplies
    <2> QED BY <2>1
  <1>2. \A k \in 1 .. (Len(a) + 1) : k \in 1 .. Len(a) \/ k = Len(a) + 1
    BY <1>1
  <1>3. \A k \in 1 .. Len(a) : AlikeReply(a[k], b[k])
    BY DEF AlikeReplies
  <1> QED BY <1>1, <1>2, <1>3 DEF AlikeReplies

LEMMA RepliesStayAlike ==
    ASSUME NEW a \in Seq(ReplyRecord), NEW b \in Seq(ReplyRecord), AlikeReplies(a, b),
           NEW e \in EventRecord
    PROVE  AlikeReplies(RepliesAfter(a, e), RepliesAfter(b, e))
  <1>1. CASE e.kind = "reply_added"
    <2> DEFINE r == [id |-> e.rid, author |-> e.by, verdict |-> e.verdict,
                     deleted |-> FALSE, reactions |-> {}]
    <2>1. r \in ReplyRecord
      BY DEF EventRecord, ReplyRecord, Marks
    <2>2. RepliesAfter(a, e) = Append(a, r) /\ RepliesAfter(b, e) = Append(b, r)
      BY <1>1 DEF RepliesAfter
    <2> HIDE DEF r
    <2>3. AlikeReply(r, r)
      BY DEF AlikeReply
    <2> QED BY <2>1, <2>2, <2>3, AlikeLonger
  <1>2. CASE e.kind # "reply_added"
    <2> DEFINE s == RepliesAfter(a, e)
               t == RepliesAfter(b, e)
    <2>1. /\ Len(s) = Len(a)
          /\ \A k \in 1 .. Len(a) : a[k] \in ReplyRecord /\ s[k] = touchReply(a[k], e)
      BY <1>2, RepliesTouched
    <2>2. /\ Len(t) = Len(b)
          /\ \A k \in 1 .. Len(b) : b[k] \in ReplyRecord /\ t[k] = touchReply(b[k], e)
      BY <1>2, RepliesTouched
    <2> HIDE DEF s, t
    <2>3. Len(b) = Len(a) /\ \A k \in 1 .. Len(a) : AlikeReply(a[k], b[k])
      BY DEF AlikeReplies
    <2>4. ASSUME NEW x \in ReplyRecord, NEW y \in ReplyRecord, AlikeReply(x, y)
          PROVE  AlikeReply(touchReply(x, e), touchReply(y, e))
      <3> DEFINE p == touchReply(x, e)
                 q == touchReply(y, e)
      <3>1. /\ p.id = x.id /\ p.verdict = x.verdict
            /\ p.deleted = IF x.id = e.rid /\ e.kind = "reply_deleted" THEN TRUE ELSE x.deleted
        BY TouchedReply
      <3>2. /\ q.id = y.id /\ q.verdict = y.verdict
            /\ q.deleted = IF y.id = e.rid /\ e.kind = "reply_deleted" THEN TRUE ELSE y.deleted
        BY TouchedReply
      <3> HIDE DEF p, q
      <3>3. y.id = x.id /\ y.verdict = x.verdict /\ (y.deleted <=> x.deleted)
        BY <2>4 DEF AlikeReply
      <3>4. q.id = p.id /\ q.verdict = p.verdict
        BY <3>1, <3>2, <3>3
      <3>5. q.deleted <=> p.deleted
        <4>1. CASE x.id = e.rid /\ e.kind = "reply_deleted"
          BY <3>1, <3>2, <3>3, <4>1
        <4>2. CASE ~(x.id = e.rid /\ e.kind = "reply_deleted")
          BY <3>1, <3>2, <3>3, <4>2
        <4> QED BY <4>1, <4>2
      <3>6. AlikeReply(p, q)
        BY <3>4, <3>5 DEF AlikeReply
      <3> QED BY <3>6 DEF p, q
    <2>5. \A k \in 1 .. Len(a) : AlikeReply(s[k], t[k])
      BY <2>1, <2>2, <2>3, <2>4
    <2>6. AlikeReplies(s, t)
      BY <2>1, <2>2, <2>3, <2>5 DEF AlikeReplies
    <2> QED BY <2>6 DEF s, t
  <1> QED BY <1>1, <1>2

\* u collects the replies of s at the positions in S.
Collecting(u, s, S) ==
    /\ Subsequence(s, S) = u[Len(s)]
    /\ u[0] = <<>>
    /\ \A i \in 1 .. Len(s) :
          /\ u[i] = IF i \in S THEN Append(u[i - 1], s[i]) ELSE u[i - 1]
          /\ u[i - 1] \in Seq(ReplyRecord)

LEMMA CollectReplies ==
    ASSUME NEW s \in Seq(ReplyRecord), NEW S
    PROVE  \E u : Collecting(u, s, S)
  <1>1. PICK u \in [0 .. Len(s) -> Seq(ReplyRecord)] :
              /\ Subsequence(s, S) = u[Len(s)]
              /\ u[0] = <<>>
              /\ \A i \in 1 .. Len(s) :
                    u[i] = IF i \in S THEN Append(u[i - 1], s[i]) ELSE u[i - 1]
    BY SubsequenceLoop
  <1>2. Len(s) \in Nat /\ \A i \in 1 .. Len(s) : i - 1 \in 0 .. Len(s)
    OBVIOUS
  <1>3. \A i \in 1 .. Len(s) : u[i - 1] \in Seq(ReplyRecord)
    BY <1>2
  <1> QED BY <1>1, <1>3 DEF Collecting

\* Those that are shown are the same as well.
LEMMA FinalRepliesAlike ==
    ASSUME NEW a \in Seq(ReplyRecord), NEW b \in Seq(ReplyRecord), AlikeReplies(a, b)
    PROVE  AlikeReplies(Subsequence(a, {i \in DOMAIN a : ~a[i].deleted}),
                        Subsequence(b, {i \in DOMAIN b : ~b[i].deleted}))
  <1> DEFINE n == Len(a)
             S == {i \in DOMAIN a : ~a[i].deleted}
  <1>1. /\ n \in Nat /\ Len(b) = n /\ DOMAIN a = 1 .. n /\ DOMAIN b = 1 .. n
        /\ \A k \in 1 .. n : a[k] \in ReplyRecord /\ b[k] \in ReplyRecord /\ AlikeReply(a[k], b[k])
    <2>1. Len(b) = Len(a) /\ \A k \in 1 .. Len(a) : AlikeReply(a[k], b[k])
      BY DEF AlikeReplies
    <2> QED BY <2>1
  <1>2. {i \in DOMAIN b : ~b[i].deleted} = S
    BY <1>1 DEF AlikeReply
  <1> HIDE DEF S
  <1>3. PICK u : Collecting(u, a, S)
    BY CollectReplies
  <1>4. PICK w : Collecting(w, b, S)
    BY CollectReplies
  <1> HIDE DEF n
  <1> DEFINE T == {k \in Nat : AlikeReplies(u[k], w[k])}
  <1>5. 0 \in T
    <2>1. Len(<<>>) = 0 /\ 1 .. 0 = {}
      OBVIOUS
    <2> QED BY <1>3, <1>4, <2>1 DEF AlikeReplies, Collecting
  <1>6. ASSUME NEW k \in 0 .. (n - 1), k \in T PROVE k + 1 \in T
    <2>1. k + 1 \in 1 .. n /\ (k + 1) - 1 = k /\ k \in 0 .. n /\ k + 1 \in Nat
      BY <1>1
    <2>2. /\ u[k + 1] = IF k + 1 \in S THEN Append(u[k], a[k + 1]) ELSE u[k]
          /\ w[k + 1] = IF k + 1 \in S THEN Append(w[k], b[k + 1]) ELSE w[k]
          /\ u[k] \in Seq(ReplyRecord) /\ w[k] \in Seq(ReplyRecord)
      <3>1. u[k + 1] = IF k + 1 \in S THEN Append(u[(k + 1) - 1], a[k + 1]) ELSE u[(k + 1) - 1]
        BY <1>3, <2>1 DEF n, Collecting
      <3>2. w[k + 1] = IF k + 1 \in S THEN Append(w[(k + 1) - 1], b[k + 1]) ELSE w[(k + 1) - 1]
        BY <1>1, <1>4, <2>1 DEF Collecting
      <3>3. u[k] \in Seq(ReplyRecord) /\ w[k] \in Seq(ReplyRecord)
        BY <1>1, <1>3, <1>4, <2>1 DEF n, Collecting
      <3> QED BY <2>1, <3>1, <3>2, <3>3
    <2>3. AlikeReplies(Append(u[k], a[k + 1]), Append(w[k], b[k + 1]))
      <3>1. a[k + 1] \in ReplyRecord /\ b[k + 1] \in ReplyRecord /\ AlikeReply(a[k + 1], b[k + 1])
        BY <1>1, <2>1
      <3> QED BY <1>6, <2>2, <3>1, AlikeLonger
    <2>4. AlikeReplies(u[k + 1], w[k + 1])
      BY <1>6, <2>2, <2>3
    <2> QED BY <2>1, <2>4
  <1>7. n \in T
    <2>1. n \in 0 .. n
      BY <1>1
    <2> HIDE DEF T
    <2> QED BY <1>1, <1>5, <1>6, <2>1, InductUpTo
  <1>8. Subsequence(a, S) = u[n] /\ Subsequence(b, S) = w[n]
    BY <1>1, <1>3, <1>4 DEF n, Collecting
  <1>9. AlikeReplies(u[n], w[n])
    BY <1>7
  <1>10. AlikeReplies(Subsequence(a, S), Subsequence(b, S))
    BY <1>8, <1>9
  <1> QED BY <1>2, <1>10 DEF S

\* The same but for reactions and what the agent thinks of it.
AlikeContent(q, r) ==
    /\ r.anchor = q.anchor /\ r.status = q.status /\ r.appliedIn = q.appliedIn /\ r.deleted = q.deleted
    /\ AlikeReplies(q.replies, r.replies)
SameContent == {z \in SnapshotRecord \X SnapshotRecord : AlikeContent(z[1], z[2])}

LEMMA ContentRelation ==
    \A q, r : <<q, r>> \in SameContent <=>
                 q \in SnapshotRecord /\ r \in SnapshotRecord /\ AlikeContent(q, r)
  BY DEF SameContent

LEMMA ContentFollows == Follows(SameContent)
  <1>1. ASSUME NEW e \in EventRecord, NEW q \in SnapshotRecord, NEW r \in SnapshotRecord,
               AlikeContent(q, r)
        PROVE  AlikeContent(applyCommentEvent(q, e), applyCommentEvent(r, e))
    <2> DEFINE a == applyCommentEvent(q, e)
               b == applyCommentEvent(r, e)
    <2>1. /\ q.anchor = r.anchor /\ q.status = r.status /\ q.appliedIn = r.appliedIn
          /\ q.deleted = r.deleted /\ AlikeReplies(q.replies, r.replies)
      BY <1>1 DEF AlikeContent
    <2>2. /\ a.anchor = IF e.kind \in ContentKinds THEN e.anchor ELSE q.anchor
          /\ a.status = IF (e.kind = "anchor_changed" /\ e.reset) \/ e.kind = "marked_open" THEN "open"
                        ELSE IF e.kind = "marked_applied" THEN "applied" ELSE q.status
          /\ a.appliedIn = IF (e.kind = "anchor_changed" /\ e.reset) \/ e.kind = "marked_open" THEN 0
                           ELSE IF e.kind = "marked_applied" THEN e.atv ELSE q.appliedIn
          /\ a.deleted = IF e.kind = "deleted" THEN TRUE ELSE q.deleted
          /\ a.replies = IF e.kind \in ContentKinds \cup MarkKinds \cup ReactionKinds
                         THEN q.replies ELSE RepliesAfter(q.replies, e)
      BY AppliedFields
    <2>3. /\ b.anchor = IF e.kind \in ContentKinds THEN e.anchor ELSE r.anchor
          /\ b.status = IF (e.kind = "anchor_changed" /\ e.reset) \/ e.kind = "marked_open" THEN "open"
                        ELSE IF e.kind = "marked_applied" THEN "applied" ELSE r.status
          /\ b.appliedIn = IF (e.kind = "anchor_changed" /\ e.reset) \/ e.kind = "marked_open" THEN 0
                           ELSE IF e.kind = "marked_applied" THEN e.atv ELSE r.appliedIn
          /\ b.deleted = IF e.kind = "deleted" THEN TRUE ELSE r.deleted
          /\ b.replies = IF e.kind \in ContentKinds \cup MarkKinds \cup ReactionKinds
                         THEN r.replies ELSE RepliesAfter(r.replies, e)
      BY AppliedFields
    <2> HIDE DEF a, b
    <2>4. /\ b.anchor = a.anchor /\ b.status = a.status /\ b.appliedIn = a.appliedIn
          /\ b.deleted = a.deleted
      BY <2>1, <2>2, <2>3
    <2>5. q.replies \in Seq(ReplyRecord) /\ r.replies \in Seq(ReplyRecord)
      BY DEF SnapshotRecord
    <2>6. AlikeReplies(RepliesAfter(q.replies, e), RepliesAfter(r.replies, e))
      BY <2>1, <2>5, RepliesStayAlike
    <2>7. AlikeReplies(a.replies, b.replies)
      <3>1. CASE e.kind \in ContentKinds \cup MarkKinds \cup ReactionKinds
        <4>1. a.replies = q.replies
          BY <2>2, <3>1
        <4>2. b.replies = r.replies
          BY <2>3, <3>1
        <4> QED BY <2>1, <4>1, <4>2
      <3>2. CASE e.kind \notin ContentKinds \cup MarkKinds \cup ReactionKinds
        <4>1. a.replies = RepliesAfter(q.replies, e)
          BY <2>2, <3>2
        <4>2. b.replies = RepliesAfter(r.replies, e)
          BY <2>3, <3>2
        <4> QED BY <2>6, <4>1, <4>2
      <3> QED BY <3>1, <3>2
    <2>8. AlikeContent(a, b)
      BY <2>4, <2>7 DEF AlikeContent
    <2> QED BY <2>8 DEF a, b
  <1> QED BY <1>1, ContentRelation, ApplyTyped DEF Follows

\* A reaction is no content.
LEMMA ReactionIsNoContent ==
    ASSUME NEW q \in SnapshotRecord, NEW r \in SnapshotRecord, AlikeContent(q, r),
           NEW e \in EventRecord, e.kind \in ReactionKinds
    PROVE  AlikeContent(applyCommentEvent(q, e), r)
  <1> DEFINE a == applyCommentEvent(q, e)
  <1>1. /\ e.kind \notin ContentKinds \cup MarkKinds /\ e.kind # "anchor_changed"
        /\ e.kind # "marked_open" /\ e.kind # "marked_applied" /\ e.kind # "deleted"
    BY DEF ReactionKinds, ContentKinds, MarkKinds
  <1>2. /\ a.anchor = IF e.kind \in ContentKinds THEN e.anchor ELSE q.anchor
        /\ a.status = IF (e.kind = "anchor_changed" /\ e.reset) \/ e.kind = "marked_open" THEN "open"
                      ELSE IF e.kind = "marked_applied" THEN "applied" ELSE q.status
        /\ a.appliedIn = IF (e.kind = "anchor_changed" /\ e.reset) \/ e.kind = "marked_open" THEN 0
                         ELSE IF e.kind = "marked_applied" THEN e.atv ELSE q.appliedIn
        /\ a.deleted = IF e.kind = "deleted" THEN TRUE ELSE q.deleted
        /\ a.replies = IF e.kind \in ContentKinds \cup MarkKinds \cup ReactionKinds
                       THEN q.replies ELSE RepliesAfter(q.replies, e)
    BY AppliedFields
  <1> HIDE DEF a
  <1>3. /\ a.anchor = q.anchor /\ a.status = q.status /\ a.appliedIn = q.appliedIn
        /\ a.deleted = q.deleted /\ a.replies = q.replies
    BY <1>1, <1>2
  <1>4. AlikeContent(a, r)
    BY <1>3 DEF AlikeContent
  <1> QED BY <1>4 DEF a

\* Events of later versions.
Later(evs, w) == \A i \in 1 .. Len(evs) : evs[i].atv > w

\* What is appended for later versions leaves the content of an earlier one alone.
LEMMA LaterKeepsContent ==
    ASSUME NEW c \in StoredComment, NEW n \in Seq(Nat), Undrawn(c, n), NEW evs \in Seq(Draft),
           NEW w \in Nat, Later(evs, w)
    PROVE  <<replay(c, w), replay(AppendEvents(c, evs, n), w)>> \in SameContent
  <1> DEFINE d == AppendEvents(c, evs, n)
             new == Stamps(evs, n)
             s == c.events
  <1>1. d.events = s \o new /\ s \in Seq(EventRecord) /\ new \in Seq(EventRecord)
    BY AppendedComment
  <1>2. \A i \in 1 .. Len(new) : new[i].atv > w
    <2>1. Len(new) = Len(evs) /\ \A i \in 1 .. Len(evs) : new[i].atv = evs[i].atv
      BY StampsTyped
    <2> QED BY <2>1 DEF Later
  <1>3. ASSUME NEW x \in EIDs(s) \cap EIDs(new)
        PROVE  /\ Written(s, x) \in EventRecord
               /\ Shows(Written(s, x), w) => Written(s, x).kind \in ReactionKinds
    <2>1. /\ x.kind \in MarkKinds \cup ReactionKinds
          /\ Written(s, x).kind = x.kind
          /\ x.kind \in MarkKinds => \E i \in 1 .. Len(evs) : Written(s, x).atv = evs[i].atv
      BY OldAndNew
    <2>2. Written(s, x) \in EventRecord
      BY <1>1, WhereItIs
    <2> HIDE DEF s, new
    <2>3. Written(s, x).atv \in Nat
      BY <2>2 DEF EventRecord
    <2>4. x.kind \in MarkKinds => Written(s, x).atv > w
      BY <2>1 DEF Later
    <2>5. x.kind \in MarkKinds => ~Shows(Written(s, x), w)
      BY <2>3, <2>4 DEF Shows
    <2> QED BY <2>1, <2>2, <2>5
  <1> HIDE DEF d, new
  <1>4. Forgives(SameContent, s, new, w)
    <2> SUFFICES ASSUME NEW x \in EIDs(s) \cap EIDs(new), NEW q \in SnapshotRecord,
                        NEW r \in SnapshotRecord, <<q, r>> \in SameContent, Shows(Written(s, x), w)
                 PROVE  <<applyCommentEvent(q, Written(s, x)), r>> \in SameContent
      BY DEF Forgives
    <2> DEFINE e == Written(s, x)
    <2>1. e \in EventRecord /\ e.kind \in ReactionKinds
      BY <1>3
    <2> HIDE DEF e
    <2>2. AlikeContent(q, r)
      BY ContentRelation
    <2>3. AlikeContent(applyCommentEvent(q, e), r) /\ applyCommentEvent(q, e) \in SnapshotRecord
      BY <2>1, <2>2, ReactionIsNoContent, ApplyTyped
    <2> QED BY <2>3, ContentRelation DEF e
  <1>5. Allows(SameContent, new, w)
    <2>1. \A i \in 1 .. Len(new) : ~Shows(new[i], w)
      <3>1. \A i \in 1 .. Len(new) : new[i] \in EventRecord /\ new[i].atv \in Nat
        <4>1. \A i \in 1 .. Len(new) : new[i] \in EventRecord
          BY <1>1
        <4> QED BY <4>1 DEF EventRecord
      <3> QED BY <1>2, <3>1 DEF Shows
    <2> QED BY <2>1 DEF Allows
  <1>6. <<emptySnapshot, emptySnapshot>> \in SameContent
    <2>1. AlikeReplies(emptySnapshot.replies, emptySnapshot.replies)
      BY DEF AlikeReplies, AlikeReply
    <2>2. AlikeContent(emptySnapshot, emptySnapshot)
      BY <2>1 DEF AlikeContent
    <2> QED BY <2>2, EmptyTyped, ContentRelation
  <1>7. <<replay(c, w), replay(d, w)>> \in SameContent
    BY <1>1, <1>4, <1>5, <1>6, ContentFollows, AppendAgrees
  <1> QED BY <1>7 DEF d

-------------------------------------------------------------------------------
(* What a request of the service makes and stores.                           *)

LEMMA LoggedGrows ==
    ASSUME NEW l \in Seq(StoredComment), NEW m \in Seq(StoredComment), Continues(l, m)
    PROVE  Logged(l) \subseteq Logged(m)
  <1> SUFFICES ASSUME NEW x \in Logged(l) PROVE x \in Logged(m)
    OBVIOUS
  <1>1. PICK i \in DOMAIN l : x \in {<<l[i].id, e.eid>> : e \in Range(l[i].events)}
    BY DEF Logged
  <1>2. l[i] \in StoredComment /\ i \in DOMAIN m /\ m[i] \in StoredComment /\ Keeps(l[i], m[i])
    BY DEF Continues
  <1>3. l[i].events \in Seq(EventRecord) /\ m[i].events \in Seq(EventRecord)
    BY <1>2, StoredLog
  <1>4. PICK j \in 1 .. Len(l[i].events) : x = <<l[i].id, l[i].events[j].eid>>
    BY <1>1, <1>3 DEF Range
  <1>5. l[i].events[j].eid \in EIDs(l[i].events)
    BY DEF EIDs
  <1>6. PICK k \in 1 .. Len(m[i].events) : m[i].events[k].eid = l[i].events[j].eid
    BY <1>2, <1>5 DEF Keeps, EIDs
  <1>7. k \in DOMAIN m[i].events
    BY <1>3
  <1>8. m[i].events[k] \in Range(m[i].events) /\ x = <<m[i].id, m[i].events[k].eid>>
    BY <1>2, <1>4, <1>6, <1>7 DEF Range, Keeps
  <1> QED BY <1>2, <1>8 DEF Logged

\* The requests.
CreateOp  == [kind : {"create"}, n : Nat, v : Nat, id : Nat, by : STRING, anchor : AnchorRecord]
ReplyOp   == [kind : {"reply"}, n : Nat, v : Nat, id : Nat, by : STRING, target : Nat]
PatchOp   == [kind : {"patch_anchor"}, n : Nat, v : Nat, by : STRING, target : Nat, anchor : AnchorRecord]
DeleteOp  == [kind : {"delete"}, n : Nat, v : Nat, by : STRING, target : Nat]
WipeOp    == [kind : {"wipe"}, n : Nat, v : Nat]
ReactOp   == [kind : {"react"}, n : Nat, v : Nat, by : STRING, target : Nat \ {0}, emoji : STRING]
AgentOp   == [kind : {"agent"}, n : Nat, v : Nat, id : Nat, target : Nat,
              verdict : {"applied", "partial", "question", ""}]
PublishOp == [kind : {"publish"}, n : Nat, v : Nat, aids : Seq(ArtifactRecord), pin : PinRecord,
              locals : Seq(ArrivingComment)]
Targeted == ReplyOp \cup PatchOp \cup DeleteOp \cup ReactOp \cup AgentOp
Operation == {NoOp} \cup CreateOp \cup WipeOp \cup PublishOp \cup Targeted

\* The events a request makes: of its version, a reply with the id it drew.
DraftOf(op) ==
    {e \in Draft : /\ e.atv = op.v
                   /\ e.kind = "reply_added" => op.kind \in {"reply", "agent"} /\ e.rid = op.id}

LEMMA NewEventsTyped ==
    ASSUME NEW l, NEW i, NEW op \in Targeted
    PROVE  NewEvents(l, i, op) \in Seq(DraftOf(op)) /\ NewEvents(l, i, op) # <<>>
  <1> DEFINE Base(kind) == /\ Event(kind, op.v) \in Draft
                           /\ Event(kind, op.v).kind = kind /\ Event(kind, op.v).atv = op.v
  <1>1. Words \subseteq STRING
    BY WordsAssumption
  <1>2. \A e \in DraftOf(op) : <<e>> \in Seq(DraftOf(op)) /\ <<e>> # <<>>
    OBVIOUS
  <1>3. CASE op \in ReplyOp
    <2> DEFINE e == [Event("reply_added", op.v) EXCEPT !.rid = op.id, !.by = op.by]
    <2>1. op.kind = "reply" /\ op.v \in Nat /\ op.id \in Nat /\ op.by \in STRING
      BY <1>3 DEF ReplyOp
    <2>2. Base("reply_added")
      BY <1>1, <2>1, EventTyped DEF Words
    <2>3. e \in DraftOf(op)
      BY <2>1, <2>2 DEF EventRecord, Draft, DraftOf
    <2>4. NewEvents(l, i, op) = <<e>>
      BY <2>1 DEF NewEvents, opReplyEvents
    <2> HIDE DEF e
    <2> QED BY <1>2, <2>3, <2>4
  <1>4. CASE op \in PatchOp
    <2> DEFINE e == [Event("anchor_changed", op.v) EXCEPT !.anchor = op.anchor, !.reset = TRUE, !.by = op.by]
    <2>1. op.kind = "patch_anchor" /\ op.v \in Nat /\ op.anchor \in AnchorRecord /\ op.by \in STRING
      BY <1>4 DEF PatchOp
    <2>2. Base("anchor_changed")
      BY <1>1, <2>1, EventTyped DEF Words
    <2>3. e \in DraftOf(op)
      BY <2>1, <2>2 DEF EventRecord, Draft, DraftOf
    <2>4. NewEvents(l, i, op) = <<e>>
      BY <2>1 DEF NewEvents, opPatchAnchorEvents
    <2> HIDE DEF e
    <2> QED BY <1>2, <2>3, <2>4
  <1>5. CASE op \in DeleteOp
    <2> DEFINE d == [Event("reply_deleted", op.v) EXCEPT !.rid = op.target, !.by = op.by]
               e == [Event("deleted", op.v) EXCEPT !.by = op.by]
    <2>1. op.kind = "delete" /\ op.v \in Nat /\ op.target \in Nat /\ op.by \in STRING
      BY <1>5 DEF DeleteOp
    <2>2. Base("reply_deleted") /\ Base("deleted")
      <3>1. "reply_deleted" \in STRING /\ "deleted" \in STRING
        BY <1>1 DEF Words
      <3>2. Base("reply_deleted")
        BY ONLY <2>1, <3>1, EventTyped
      <3>3. Base("deleted")
        BY ONLY <2>1, <3>1, EventTyped
      <3> QED BY <3>2, <3>3
    <2>3. d \in DraftOf(op) /\ e \in DraftOf(op)
      BY <2>1, <2>2 DEF EventRecord, Draft, DraftOf
    <2>4. NewEvents(l, i, op) \in {<<d>>, <<e>>}
      BY <2>1 DEF NewEvents, opDeleteEvents
    <2> HIDE DEF d, e
    <2> QED BY <1>2, <2>3, <2>4
  <1>6. CASE op \in ReactOp
    <2> DEFINE e(kind, rid) == [Event(kind, op.v) EXCEPT !.emoji = op.emoji, !.by = op.by, !.rid = rid]
    <2>1. op.kind = "react" /\ op.v \in Nat /\ op.target \in Nat \ {0} /\ op.by \in STRING
          /\ op.emoji \in STRING
      BY <1>6 DEF ReactOp
    <2>0. op.target \in Nat
      BY <2>1
    <2> DEFINE Kinds4 == {"reaction_added", "reaction_removed", "reply_reaction_added",
                          "reply_reaction_removed"}
    <2>2. ASSUME NEW kind \in Kinds4, NEW rid \in {0, op.target}
          PROVE  e(kind, rid) \in DraftOf(op)
      <3>1. kind \in STRING /\ rid \in Nat
        <4>1. Kinds4 \subseteq Words
          BY DEF Words
        <4> HIDE DEF Kinds4
        <4> QED BY <1>1, <2>0, <4>1
      <3>2. Base(kind)
        BY <2>1, <3>1, EventTyped
      <3> QED BY <2>1, <3>1, <3>2 DEF EventRecord, Draft, DraftOf
    <2>3. \E kind \in Kinds4, rid \in {0, op.target} : NewEvents(l, i, op) = <<e(kind, rid)>>
      <3> DEFINE rid == IF NamesReply(l, op.target) THEN op.target ELSE 0
                 had == <<op.emoji, op.by>> \in reactionsOf(SnapshotAt(l[i], op.v), rid)
                 kind == IF rid = 0 THEN (IF had THEN "reaction_removed" ELSE "reaction_added")
                         ELSE (IF had THEN "reply_reaction_removed" ELSE "reply_reaction_added")
      <3>1. NewEvents(l, i, op) = <<e(kind, rid)>>
        BY <2>1 DEF NewEvents, opReactEvents
      <3>2. kind \in Kinds4
        OBVIOUS
      <3>3. rid \in {0, op.target}
        OBVIOUS
      <3> HIDE DEF rid, kind, e, Kinds4
      <3> QED BY <3>1, <3>2, <3>3
    <2> HIDE DEF e, Kinds4
    <2> QED BY <1>2, <2>2, <2>3
  <1>7. CASE op \in AgentOp
    <2> DEFINE reply == [Event("reply_added", op.v) EXCEPT !.rid = op.id, !.by = "odoc-agent",
                                                         !.verdict = op.verdict]
               mark(kind) == [Event(kind, op.v) EXCEPT !.by = "odoc-agent", !.verdict = op.verdict]
    <2>1. op.kind = "agent" /\ op.v \in Nat /\ op.id \in Nat /\ op.verdict \in STRING /\ "odoc-agent" \in STRING
      BY <1>1, <1>7 DEF AgentOp, Words
    <2>2. Base("reply_added") /\ Base("marked_applied") /\ Base("marked_open")
      <3>1. {"reply_added", "marked_applied", "marked_open"} \subseteq STRING
        BY WordsAssumption DEF Words
      <3> QED BY <1>1, <2>1, <3>1, EventTyped
    <2>3. \A kind \in {"marked_applied", "marked_open"} : mark(kind) \in DraftOf(op)
      BY <2>1, <2>2 DEF EventRecord, Draft, DraftOf
    <2>4. reply \in DraftOf(op)
      BY <2>1, <2>2 DEF EventRecord, Draft, DraftOf
    <2>5. NewEvents(l, i, op) \in {<<reply>>, <<reply, mark("marked_applied")>>, <<reply, mark("marked_open")>>}
      BY <2>1 DEF NewEvents, agentReplyEvents
    <2> HIDE DEF reply, mark
    <2>6. \A kind \in {"marked_applied", "marked_open"} :
             <<reply, mark(kind)>> \in Seq(DraftOf(op)) /\ <<reply, mark(kind)>> # <<>>
      BY <2>3, <2>4
    <2> QED BY <1>2, <2>4, <2>5, <2>6
  <1> QED BY <1>3, <1>4, <1>5, <1>6, <1>7 DEF Targeted

LEMMA OpOfKind ==
    ASSUME NEW op \in Operation
    PROVE  /\ op.kind = "create" => op \in CreateOp
           /\ op.kind = "wipe" => op \in WipeOp
           /\ op.kind = "publish" => op \in PublishOp
           /\ op.kind \notin Untargeted \cup {"none"} => op \in Targeted
  <1>1. NoOp.kind = "none"
    BY DEF NoOp
  <1>2. /\ \A x \in CreateOp : x.kind = "create"
        /\ \A x \in WipeOp : x.kind = "wipe"
        /\ \A x \in PublishOp : x.kind = "publish"
    BY DEF CreateOp, WipeOp, PublishOp
  <1>3. \A x \in Targeted : x.kind \in {"reply", "patch_anchor", "delete", "react", "agent"}
    <2>1. /\ \A x \in ReplyOp : x.kind = "reply"
          /\ \A x \in PatchOp : x.kind = "patch_anchor"
          /\ \A x \in DeleteOp : x.kind = "delete"
          /\ \A x \in ReactOp : x.kind = "react"
          /\ \A x \in AgentOp : x.kind = "agent"
      BY DEF ReplyOp, PatchOp, DeleteOp, ReactOp, AgentOp
    <2> QED BY <2>1 DEF Targeted
  <1> QED BY <1>1, <1>2, <1>3 DEF Operation, Untargeted

\* The list an operation stores: the comments that were there, in their places,
\* each with its events, and new ones that bear the id of the request or that of
\* a local comment.
LEMMA ApplyContinues ==
    ASSUME NEW l \in Seq(StoredComment), NEW op \in Operation, NEW n \in Seq(Nat), op.kind # "none"
    PROVE  LET m == ApplyCommentOp(l, op, n)
           IN  /\ m \in Seq(StoredComment)
               /\ op.kind # "wipe" => Continues(l, m)
               /\ op.kind = "wipe" => m = <<>>
               /\ \A i \in DOMAIN m : i \notin DOMAIN l =>
                     \/ op.kind = "create" /\ m[i].id = op.id
                     \/ op.kind = "publish" /\ \E j \in DOMAIN op.locals : m[i].id = op.locals[j].id
               /\ Distinct(l) /\ (op.kind = "create" => \A i \in DOMAIN l : l[i].id # op.id)
                     => Distinct(m)
  <1> DEFINE m == ApplyCommentOp(l, op, n)
  <1>1. DOMAIN l = 1 .. Len(l) /\ Len(l) \in Nat /\ \A i \in DOMAIN l : l[i] \in StoredComment
    OBVIOUS
  <1>2. CASE op.kind = "create"
    <2> DEFINE c == NewComment(op.id, op.by, op.anchor, op.v, n)
               bare == [id |-> op.id, author |-> op.by, createdIn |-> op.v, events |-> <<>>]
               e == [Event("created", op.v) EXCEPT !.anchor = op.anchor]
    <2>1. op.id \in Nat /\ op.by \in STRING /\ op.anchor \in AnchorRecord /\ op.v \in Nat
      BY <1>2, OpOfKind DEF CreateOp
    <2>2. bare \in StoredComment /\ bare.id = op.id
      BY <2>1 DEF StoredComment
    <2>3. Event("created", op.v) \in Draft
      BY <2>1, WordsAssumption, EventTyped DEF Words
    <2>4. e \in Draft
      <3>1. Event("created", op.v) \in EventRecord /\ Event("created", op.v).eid = NoEID
        BY <2>3 DEF Draft
      <3>2. e \in EventRecord /\ e.eid = NoEID
        BY <2>1, <3>1 DEF EventRecord
      <3> QED BY <3>2 DEF Draft
    <2>5. c = AppendEvents(bare, <<e>>, n)
      BY DEF NewComment
    <2> HIDE DEF bare, e, c
    <2>6. <<e>> \in Seq(ArrivingEvent)
      BY <2>4, KindsOfEvents
    <2>7. c \in StoredComment /\ c.id = op.id
      <3>1. c \in StoredComment /\ Keeps(bare, c)
        BY <2>2, <2>5, <2>6, AppendKeeps
      <3> QED BY <2>2, <3>1 DEF Keeps
    <2>8. m = Append(l, c)
      BY <1>2 DEF ApplyCommentOp, opCreate, c
    <2> HIDE DEF m
    <2>9. /\ m \in Seq(StoredComment) /\ DOMAIN m = 1 .. (Len(l) + 1)
          /\ \A i \in DOMAIN l : i \in DOMAIN m /\ m[i] = l[i]
          /\ m[Len(l) + 1] = c
      BY <1>1, <2>7, <2>8
    <2>10. \A i \in DOMAIN m : i \notin DOMAIN l => i = Len(l) + 1
      BY <1>1, <2>9
    <2>11. Continues(l, m)
      BY <2>9 DEF Continues, Keeps
    <2>12. ASSUME Distinct(l), \A i \in DOMAIN l : l[i].id # op.id PROVE Distinct(m)
      BY <2>7, <2>9, <2>10, <2>12 DEF Distinct
    <2>13. \A i \in DOMAIN m : i \notin DOMAIN l => m[i].id = op.id
      BY <2>7, <2>9, <2>10
    <2> QED BY <1>2, <2>9, <2>11, <2>12, <2>13 DEF m
  <1>3. CASE op.kind = "wipe"
    <2>1. m = <<>>
      BY <1>3 DEF ApplyCommentOp
    <2>2. Distinct(<<>>) /\ <<>> \in Seq(StoredComment) /\ DOMAIN <<>> = {}
      BY DEF Distinct
    <2> QED BY <1>3, <2>1, <2>2
  <1>4. CASE op.kind = "publish"
    <2>1. /\ op.v \in Nat /\ op.aids \in Seq(ArtifactRecord) /\ op.pin \in PinRecord
          /\ op.locals \in Seq(ArrivingComment)
      BY <1>4, OpOfKind DEF PublishOp
    <2>2. m = opPublishMerge(l, op, n)
      BY <1>4 DEF ApplyCommentOp
    <2> DEFINE r == opPublishMerge(l, op, n)
    <2>3. /\ r \in Seq(StoredComment)
          /\ Continues(l, r)
          /\ \A i \in DOMAIN r : i \notin DOMAIN l =>
                \E j \in DOMAIN op.locals : r[i].id = op.locals[j].id
          /\ Distinct(l) => Distinct(r)
      BY <2>1, PublishContinues
    <2>4. m = r
      BY <2>2
    <2> HIDE DEF m, r
    <2>5. /\ m \in Seq(StoredComment)
          /\ Continues(l, m)
          /\ \A i \in DOMAIN m : i \notin DOMAIN l =>
                \E j \in DOMAIN op.locals : m[i].id = op.locals[j].id
          /\ Distinct(l) => Distinct(m)
      BY <2>3, <2>4
    <2> QED BY <1>4, <2>5 DEF m
  <1>5. CASE op.kind \notin Untargeted
    <2> DEFINE with(i) == AppendEvents(l[i], NewEvents(l, i, op), n)
    <2>1. op \in Targeted
      BY <1>5, OpOfKind
    <2>2. ASSUME NEW i \in DOMAIN l PROVE with(i) \in StoredComment /\ Keeps(l[i], with(i))
      <3>1. NewEvents(l, i, op) \in Seq(ArrivingEvent)
        <4>1. NewEvents(l, i, op) \in Seq(DraftOf(op))
          BY <2>1, NewEventsTyped
        <4> QED BY <4>1, KindsOfEvents DEF DraftOf
      <3> QED BY <1>1, <3>1, AppendKeeps
    <2>3. m = [i \in DOMAIN l |-> IF i \in Host(l, op) THEN with(i) ELSE l[i]]
      BY <1>5 DEF ApplyCommentOp, Untargeted
    <2> HIDE DEF with, m
    <2>4. DOMAIN m = DOMAIN l /\ \A i \in DOMAIN l : m[i] \in StoredComment /\ Keeps(l[i], m[i])
      BY <1>1, <2>2, <2>3 DEF Keeps
    <2>5. m \in Seq(StoredComment)
      BY <1>1, <2>3, <2>4
    <2>6. Continues(l, m)
      BY <2>4 DEF Continues
    <2>7. Distinct(l) => Distinct(m)
      BY <2>4 DEF Distinct, Keeps
    <2> QED BY <1>5, <2>4, <2>5, <2>6, <2>7 DEF m, Untargeted
  <1> QED BY <1>2, <1>3, <1>4, <1>5 DEF Untargeted

\* Clean, said with the operators of the service.
LEMMA CleanMeans ==
    ASSUME NEW c, c.events \in Seq(EventRecord), NEW M
    PROVE  Clean(c, M) <=> OwnIds(c) /\ c.id \notin M /\ \A m \in M : Without(c, m)
  <1> DEFINE V == CleanEvent(c.id, M)
  <1>1. DOMAIN c.events = 1 .. Len(c.events) /\ \A k \in DOMAIN c.events : c.events[k] \in EventRecord
    OBVIOUS
  <1>2. c.events \in Seq(V) <=> \A k \in DOMAIN c.events : c.events[k] \in V
    <2>1. ASSUME c.events \in Seq(V) PROVE \A k \in DOMAIN c.events : c.events[k] \in V
      BY <2>1
    <2>2. ASSUME \A k \in DOMAIN c.events : c.events[k] \in V PROVE c.events \in Seq(V)
      BY <2>2
    <2> QED BY <2>1, <2>2
  <1>3. ASSUME NEW k \in DOMAIN c.events
        PROVE  c.events[k] \in V <=> /\ \A m \in M : ~DrawnBy(c.events[k], m)
                                     /\ c.events[k].kind = "reply_added" => c.events[k].rid # c.id
    BY <1>1 DEF CleanEvent
  <1> HIDE DEF V
  <1>4. Clean(c, M) <=> c.id \notin M /\ \A k \in DOMAIN c.events : c.events[k] \in V
    BY <1>2 DEF Clean, V
  <1>5. \A m \in M : Without(c, m) <=> c.id # m /\ \A k \in DOMAIN c.events : ~DrawnBy(c.events[k], m)
    BY DEF Without
  <1>6. OwnIds(c) <=> \A k \in DOMAIN c.events :
                         c.events[k].kind = "reply_added" => c.events[k].rid # c.id
    BY DEF OwnIds
  <1> QED BY <1>3, <1>4, <1>5, <1>6, Zenon

\* No operation writes the number of another request, or a reply that has the id of
\* its comment.
LEMMA ApplyClean ==
    ASSUME NEW M, NEW l \in Seq(StoredComment), NEW op \in Operation, op.kind # "none",
           NEW n, OtherDraw(n, M),
           op.kind \in {"create", "reply", "agent"} =>
              op.id \notin M /\ \A i \in DOMAIN l : l[i].id # op.id,
           \A i \in DOMAIN l : Clean(l[i], M),
           op.kind = "publish" => \A i \in DOMAIN op.locals : Clean(op.locals[i], M)
    PROVE  LET m == ApplyCommentOp(l, op, n)
           IN  \A i \in DOMAIN m : Clean(m[i], M)
  <1> DEFINE m == ApplyCommentOp(l, op, n)
  <1>1. DOMAIN l = 1 .. Len(l) /\ Len(l) \in Nat /\ \A i \in DOMAIN l : l[i] \in StoredComment
    OBVIOUS
  <1>2. CASE op.kind = "create"
    <2> DEFINE c == NewComment(op.id, op.by, op.anchor, op.v, n)
               bare == [id |-> op.id, author |-> op.by, createdIn |-> op.v, events |-> <<>>]
               e == [Event("created", op.v) EXCEPT !.anchor = op.anchor]
    <2>1. op.id \in Nat /\ op.by \in STRING /\ op.anchor \in AnchorRecord /\ op.v \in Nat
      BY <1>2, OpOfKind DEF CreateOp
    <2>2. bare \in StoredComment /\ bare.id = op.id /\ bare.events = <<>>
      BY <2>1 DEF StoredComment
    <2>3. Event("created", op.v) \in Draft /\ Event("created", op.v).kind = "created"
      BY <2>1, WordsAssumption, EventTyped DEF Words
    <2>4. e \in Draft /\ e.kind = "created"
      <3>1. Event("created", op.v) \in EventRecord /\ Event("created", op.v).eid = NoEID
        BY <2>3 DEF Draft
      <3>2. e \in EventRecord /\ e.eid = NoEID /\ e.kind = "created"
        BY <2>1, <2>3, <3>1 DEF EventRecord
      <3> QED BY <3>2 DEF Draft
    <2>5. c = AppendEvents(bare, <<e>>, n)
      BY DEF NewComment
    <2> HIDE DEF bare, e, c
    <2>6. <<e>> \in Seq(ArrivingEvent) /\ <<e>> \in Seq(CleanEvent(bare.id, M))
      <3>1. e \in ArrivingEvent /\ e \in CleanEvent(bare.id, M)
        BY <2>4, KindsOfEvents, DraftClean
      <3> QED BY <3>1
    <2>7. Clean(bare, M)
      <3>1. <<>> \in Seq(CleanEvent(bare.id, M))
        OBVIOUS
      <3> QED BY <1>2, <2>2, <3>1 DEF Clean
    <2>8. Clean(c, M)
      BY <2>2, <2>5, <2>6, <2>7, AppendClean
    <2>9. m = Append(l, c)
      BY <1>2 DEF ApplyCommentOp, opCreate, c
    <2> HIDE DEF m
    <2>10. \A i \in DOMAIN m : m[i] = c \/ (i \in DOMAIN l /\ m[i] = l[i])
      BY <1>1, <2>9
    <2> QED BY <2>8, <2>10 DEF m
  <1>3. CASE op.kind = "wipe"
    <2>1. m = <<>> /\ DOMAIN <<>> = {}
      BY <1>3 DEF ApplyCommentOp
    <2> QED BY <2>1
  <1>4. CASE op.kind = "publish"
    <2>1. /\ op.v \in Nat /\ op.aids \in Seq(ArtifactRecord) /\ op.pin \in PinRecord
          /\ op.locals \in Seq(ArrivingComment)
      BY <1>4, OpOfKind DEF PublishOp
    <2>2. m = opPublishMerge(l, op, n)
      BY <1>4 DEF ApplyCommentOp
    <2> HIDE DEF m
    <2>3. \A i \in DOMAIN m : Clean(m[i], M)
      BY <1>4, <2>1, <2>2, PublishClean
    <2> QED BY <2>3 DEF m
  <1>5. CASE op.kind \notin Untargeted
    <2> DEFINE with(i) == AppendEvents(l[i], NewEvents(l, i, op), n)
    <2>1. op \in Targeted
      BY <1>5, OpOfKind
    <2>2. ASSUME NEW i \in DOMAIN l PROVE Clean(with(i), M)
      <3> DEFINE evs == NewEvents(l, i, op)
      <3>1. evs \in Seq(DraftOf(op))
        BY <2>1, NewEventsTyped
      <3> HIDE DEF evs
      <3>2. \A x \in DraftOf(op) : x \in ArrivingEvent /\ x \in CleanEvent(l[i].id, M)
        <4> SUFFICES ASSUME NEW x \in DraftOf(op)
                     PROVE  x \in ArrivingEvent /\ x \in CleanEvent(l[i].id, M)
          OBVIOUS
        <4>1. x \in Draft /\ (x.kind = "reply_added" => op.kind \in {"reply", "agent"} /\ x.rid = op.id)
          BY DEF DraftOf
        <4>2. x.kind = "reply_added" => x.rid # l[i].id
          BY <4>1
        <4> QED BY <4>1, <4>2, KindsOfEvents, DraftClean
      <3>3. evs \in Seq(ArrivingEvent) /\ evs \in Seq(CleanEvent(l[i].id, M))
        BY <3>1, <3>2
      <3>4. l[i] \in StoredComment /\ Clean(l[i], M)
        BY <1>1
      <3> QED BY <3>3, <3>4, AppendClean DEF evs
    <2>3. m = [i \in DOMAIN l |-> IF i \in Host(l, op) THEN with(i) ELSE l[i]]
      BY <1>5 DEF ApplyCommentOp, Untargeted
    <2> HIDE DEF with, m
    <2>4. DOMAIN m = DOMAIN l /\ \A i \in DOMAIN l : m[i] = with(i) \/ m[i] = l[i]
      BY <2>3
    <2> QED BY <2>2, <2>4 DEF m
  <1> QED BY <1>2, <1>3, <1>4, <1>5 DEF Untargeted

-------------------------------------------------------------------------------
(* The invariant.                                                          *)

CommentTypes ==
    /\ comments \in Seq(StoredComment)
    /\ versions \subseteq 1 .. MaxVersion
    /\ pc \in [Proc -> {"idle", "waiting", "publishing", "writing"}]
    /\ req \in [Proc -> Operation]
    /\ list \in [Proc -> Seq(StoredComment)]
    /\ ops \in 0 .. MaxOps

\* Who works on the list holds the lock, and what it read is still what is stored.
ListIsFresh ==
    \A p \in Proc :
        /\ pc[p] # "idle" => req[p].kind # "none"
        /\ pc[p] \in {"publishing", "writing"} => holder = p
        /\ pc[p] = "writing" => list[p] = comments
        /\ pc[p] = "publishing" => req[p].kind = "publish" /\ req[p].v \in 1 .. MaxVersion

\* Request n has written nothing yet, and no publish carries anything of it.
Unused(n) ==
    /\ \A i \in DOMAIN comments : Without(comments[i], n)
    /\ \A p \in Proc : req[p].kind = "publish" =>
          \A i \in DOMAIN req[p].locals : Without(req[p].locals[i], n)

\* The numbers to come are unused, and so are those of the requests at work.
IdsAreFresh ==
    /\ \A n \in 1 .. MaxOps : n > ops => Unused(n)
    /\ \A p \in Proc : req[p].kind # "none" =>
          /\ req[p].n \in 1 .. ops /\ Unused(req[p].n)
          /\ req[p].kind \in {"create", "reply", "agent"} => req[p].id = req[p].n
    /\ \A p, q \in Proc :
          req[p].kind # "none" /\ req[q].kind # "none" /\ req[p].n = req[q].n => p = q

\* No reply has the id of its comment, here or in what a publish carries.
RepliesApart ==
    /\ \A i \in DOMAIN comments : OwnIds(comments[i])
    /\ \A p \in Proc : req[p].kind = "publish" =>
          \A i \in DOMAIN req[p].locals : OwnIds(req[p].locals[i])

CommentInv ==
    CommentTypes /\ ListIsFresh /\ IdsAreFresh /\ RepliesApart /\ UniqueIds /\ NoAckedEventLost

LEMMA NewestTyped ==
    ASSUME versions \subseteq 1 .. MaxVersion
    PROVE  Newest \in 0 .. MaxVersion
  <1>1. MaxVersion \in Nat
    BY BoundAssumption
  <1>2. CASE versions = {}
    BY <1>1, <1>2 DEF Newest
  <1>3. CASE versions # {}
    <2>1. versions \in SUBSET Nat /\ \A w \in versions : w <= MaxVersion
      BY <1>1
    <2>2. \E v \in versions : \A w \in versions : w <= v
      BY <1>1, <1>3, <2>1, GreatestOf
    <2>3. MaxOf(versions) \in versions
      BY <2>2 DEF MaxOf
    <2>4. Newest = MaxOf(versions) /\ Newest \in 1 .. MaxVersion
      BY <1>3, <2>3 DEF Newest
    <2> QED BY <1>1, <2>4
  <1> QED BY <1>2, <1>3

LEMMA TargetsTyped ==
    ASSUME comments \in Seq(StoredComment)
    PROVE  Targets \subseteq Nat \ {0}
  <1> DEFINE Named(c) == {c.id} \cup {e.rid : e \in Range(c.events)}
  <1>1. ASSUME NEW c \in Range(comments) PROVE Named(c) \subseteq Nat
    <2>1. c \in StoredComment
      BY DEF Range
    <2>2. c.id \in Nat /\ c.events \in Seq(EventRecord)
      BY <2>1, StoredLog DEF StoredComment
    <2>3. \A e \in Range(c.events) : e.rid \in Nat
      <3>1. \A e \in Range(c.events) : e \in EventRecord
        BY <2>2 DEF Range
      <3> QED BY <3>1 DEF EventRecord
    <2> QED BY <2>2, <2>3
  <1>2. Targets = (UNION {Named(c) : c \in Range(comments)}) \ {0}
    BY DEF Targets
  <1> HIDE DEF Named
  <1> DEFINE U == UNION {Named(c) : c \in Range(comments)}
  <1>3. U \subseteq Nat
    BY <1>1, Zenon
  <1>4. Targets = U \ {0}
    BY <1>2, Zenon
  <1> HIDE DEF U
  <1> QED BY <1>3, <1>4, Zenon

\* What a handler asks for: a number nobody has used, and comments that are new,
\* or copies of those that are stored.
Wellformed(op) ==
    /\ op \in Operation /\ op.kind # "none" /\ op.n = ops + 1
    /\ op.kind \in {"create", "reply", "agent"} => op.id = op.n
    /\ op.kind = "publish" => \A i \in DOMAIN op.locals :
          /\ OwnIds(op.locals[i])
          /\ \/ \A m \in 1 .. MaxOps : Without(op.locals[i], m)
             \/ \E j \in DOMAIN comments : op.locals[i] = comments[j]

LEMMA RequestWellformed ==
    ASSUME CommentTypes, RepliesApart, NEW p \in Proc, Request(p, Kinds)
    PROVE  ops < MaxOps /\ \E op : Wellformed(op) /\ Accept(p, op)
  <1>1. /\ ops \in Nat /\ ops + 1 \in Nat /\ MaxVersion \in Nat /\ FarVersion \in Nat /\ ops < MaxOps
    BY BoundAssumption DEF CommentTypes, Request
  <1>2. ResolvedVersions \subseteq Nat
    BY <1>1, NewestTyped DEF CommentTypes, ResolvedVersions
  <1>3. Targets \subseteq Nat \ {0}
    BY TargetsTyped DEF CommentTypes
  <1>4. Login \subseteq STRING /\ Emoji \subseteq STRING /\ Anchors \subseteq AnchorRecord
        /\ Pins \subseteq PinRecord /\ Artifacts \subseteq Seq(ArtifactRecord)
    BY InputAssumption
  <1>5. CASE handleCreateComment(p)
    <2>1. PICK v \in ResolvedVersions, by \in Login, a \in Anchors :
              Accept(p, [kind |-> "create", n |-> ops + 1, v |-> v, id |-> NewId(ops), by |-> by,
                         anchor |-> a])
      BY <1>5 DEF handleCreateComment
    <2> DEFINE op == [kind |-> "create", n |-> ops + 1, v |-> v, id |-> NewId(ops), by |-> by,
                      anchor |-> a]
    <2>2. op \in CreateOp /\ op.kind = "create" /\ op.n = ops + 1 /\ op.id = ops + 1
      BY <1>1, <1>2, <1>4 DEF CreateOp, NewId
    <2>3. Wellformed(op)
      BY <2>2 DEF Wellformed, Operation
    <2> QED BY <1>1, <2>1, <2>3
  <1>6. CASE handleReplyComment(p)
    <2>1. PICK v \in ResolvedVersions, by \in Login, t \in Targets :
              Accept(p, [kind |-> "reply", n |-> ops + 1, v |-> v, id |-> NewId(ops), by |-> by,
                         target |-> t])
      BY <1>6 DEF handleReplyComment
    <2> DEFINE op == [kind |-> "reply", n |-> ops + 1, v |-> v, id |-> NewId(ops), by |-> by,
                      target |-> t]
    <2>2. op \in ReplyOp /\ op.kind = "reply" /\ op.n = ops + 1 /\ op.id = ops + 1
      BY <1>1, <1>2, <1>3, <1>4 DEF ReplyOp, NewId
    <2>3. Wellformed(op)
      BY <2>2 DEF Wellformed, Operation, Targeted
    <2> QED BY <1>1, <2>1, <2>3
  <1>7. CASE handlePatchComment(p)
    <2>1. PICK v \in ResolvedVersions, by \in Login, t \in Targets, a \in Anchors :
              Accept(p, [kind |-> "patch_anchor", n |-> ops + 1, v |-> v, by |-> by, target |-> t,
                         anchor |-> a])
      BY <1>7 DEF handlePatchComment
    <2> DEFINE op == [kind |-> "patch_anchor", n |-> ops + 1, v |-> v, by |-> by, target |-> t,
                      anchor |-> a]
    <2>2. op \in PatchOp /\ op.kind = "patch_anchor" /\ op.n = ops + 1
      BY <1>1, <1>2, <1>3, <1>4 DEF PatchOp
    <2>3. Wellformed(op)
      BY <2>2 DEF Wellformed, Operation, Targeted
    <2> QED BY <1>1, <2>1, <2>3
  <1>8. CASE handleDeleteComment(p)
    <2>1. PICK v \in (1 .. MaxVersion) \cup {FarVersion}, by \in Login, t \in Targets :
              Accept(p, [kind |-> "delete", n |-> ops + 1, v |-> v, by |-> by, target |-> t])
      BY <1>8 DEF handleDeleteComment
    <2> DEFINE op == [kind |-> "delete", n |-> ops + 1, v |-> v, by |-> by, target |-> t]
    <2>2. op \in DeleteOp /\ op.kind = "delete" /\ op.n = ops + 1
      BY <1>1, <1>3, <1>4 DEF DeleteOp
    <2>3. Wellformed(op)
      BY <2>2 DEF Wellformed, Operation, Targeted
    <2> QED BY <1>1, <2>1, <2>3
  <1>9. CASE wipeComments(p)
    <2> DEFINE op == [kind |-> "wipe", n |-> ops + 1, v |-> 0]
    <2>1. Accept(p, op)
      BY <1>9 DEF wipeComments
    <2>2. op \in WipeOp /\ op.kind = "wipe" /\ op.n = ops + 1
      BY <1>1 DEF WipeOp
    <2>3. Wellformed(op)
      BY <2>2 DEF Wellformed, Operation
    <2> QED BY <1>1, <2>1, <2>3
  <1>10. CASE handleReact(p)
    <2>1. PICK v \in ResolvedVersions, by \in Login, t \in Targets, m \in Emoji :
              Accept(p, [kind |-> "react", n |-> ops + 1, v |-> v, by |-> by, target |-> t,
                         emoji |-> m])
      BY <1>10 DEF handleReact
    <2> DEFINE op == [kind |-> "react", n |-> ops + 1, v |-> v, by |-> by, target |-> t, emoji |-> m]
    <2>2. op \in ReactOp /\ op.kind = "react" /\ op.n = ops + 1
      BY <1>1, <1>2, <1>3, <1>4 DEF ReactOp
    <2>3. Wellformed(op)
      BY <2>2 DEF Wellformed, Operation, Targeted
    <2> QED BY <1>1, <2>1, <2>3
  <1>11. CASE handleAgentReply(p)
    <2>v. 1 .. MaxVersion \subseteq Nat
      BY <1>1
    <2>0. \A i \in DOMAIN comments : comments[i].id \in Nat /\ comments[i].createdIn \in Nat
      <3>1. \A i \in DOMAIN comments : comments[i] \in StoredComment
        BY DEF CommentTypes
      <3> QED BY <3>1 DEF StoredComment
    <2>1. PICK i \in DOMAIN comments, verdict \in {"applied", "partial", "question", ""} :
            \E v \in {comments[i].createdIn} \cup (1 .. MaxVersion) :
              Accept(p, [kind |-> "agent", n |-> ops + 1, v |-> v, id |-> NewId(ops),
                         target |-> comments[i].id, verdict |-> verdict])
      BY <1>11 DEF handleAgentReply
    <2>2. PICK v \in Nat :
              Accept(p, [kind |-> "agent", n |-> ops + 1, v |-> v, id |-> NewId(ops),
                         target |-> comments[i].id, verdict |-> verdict])
      <3>1. {comments[i].createdIn} \cup (1 .. MaxVersion) \subseteq Nat
        BY <2>v, <2>0, Zenon
      <3> QED BY <2>1, <3>1
    <2> DEFINE op == [kind |-> "agent", n |-> ops + 1, v |-> v, id |-> NewId(ops),
                      target |-> comments[i].id, verdict |-> verdict]
    <2>3. comments[i].id \in Nat
      BY <2>0
    <2>4. op \in AgentOp /\ op.kind = "agent" /\ op.n = ops + 1 /\ op.id = ops + 1
      <3>1. NewId(ops) \in Nat /\ NewId(ops) = ops + 1
        BY <1>1 DEF NewId
      <3> QED BY <1>1, <2>3, <3>1 DEF AgentOp
    <2>5. Wellformed(op)
      BY <2>4 DEF Wellformed, Operation, Targeted
    <2> QED BY <1>1, <2>2, <2>5
  <1>12. CASE handlePublish(p)
    <2>1. PICK explicit \in 0 .. MaxVersion, aids \in Artifacts, pin \in Pins,
               ls \in Locals \cup {<<comments[i]>> : i \in DOMAIN comments} :
              Accept(p, [kind |-> "publish", n |-> ops + 1, v |-> explicit, aids |-> aids, pin |-> pin,
                         locals |-> ls])
      BY <1>12 DEF handlePublish
    <2> DEFINE op == [kind |-> "publish", n |-> ops + 1, v |-> explicit, aids |-> aids, pin |-> pin,
                      locals |-> ls]
    <2>2. /\ ls \in Seq(ArrivingComment)
          /\ \A i \in DOMAIN ls : /\ OwnIds(ls[i])
                                  /\ \/ \A m \in 1 .. MaxOps : Without(ls[i], m)
                                     \/ \E j \in DOMAIN comments : ls[i] = comments[j]
      <3>1. CASE ls \in Locals
        BY <3>1, LocalsAssumption
      <3>2. CASE ls \in {<<comments[i]>> : i \in DOMAIN comments}
        <4>1. PICK j \in DOMAIN comments : ls = <<comments[j]>>
          BY <3>2
        <4>2. comments[j] \in ArrivingComment
          <5>1. comments[j] \in StoredComment
            BY DEF CommentTypes
          <5>2. \A s \in Seq(StampedEvent) : s \in Seq(ArrivingEvent)
            BY KindsOfEvents
          <5> QED BY <5>1, <5>2 DEF StoredComment, ArrivingComment
        <4>3. DOMAIN ls = {1} /\ ls[1] = comments[j] /\ OwnIds(comments[j])
          BY <4>1 DEF RepliesApart
        <4> QED BY <4>1, <4>2, <4>3
      <3> QED BY <3>1, <3>2
    <2>3. op \in PublishOp /\ op.kind = "publish" /\ op.locals = ls /\ op.n = ops + 1
      BY <1>1, <1>4, <2>2 DEF PublishOp
    <2> HIDE DEF op
    <2>4. Wellformed(op)
      BY <2>2, <2>3 DEF Wellformed, Operation
    <2> QED BY <1>1, <2>1, <2>4 DEF op
  <1> QED BY <1>5, <1>6, <1>7, <1>8, <1>9, <1>10, <1>11, <1>12 DEF Request

LEMMA InitInv == Init => CommentInv
  <1> SUFFICES ASSUME Init PROVE CommentInv
    OBVIOUS
  <1>1. MaxOps \in Nat
    BY BoundAssumption
  <1>2. comments = <<>> /\ comments \in Seq(StoredComment) /\ DOMAIN comments = {}
    BY DEF Init
  <1>3. \A p \in Proc : pc[p] = "idle" /\ req[p] = NoOp /\ req[p].kind = "none"
    BY DEF Init, NoOp
  <1>4. CommentTypes
    BY <1>1, <1>2 DEF Init, CommentTypes, Operation
  <1>5. ListIsFresh
    BY <1>3 DEF ListIsFresh
  <1>6. IdsAreFresh /\ RepliesApart
    BY <1>2, <1>3 DEF IdsAreFresh, Unused, RepliesApart
  <1>7. UniqueIds /\ NoAckedEventLost
    BY <1>2 DEF UniqueIds, NoAckedEventLost, Init
  <1> QED BY <1>4, <1>5, <1>6, <1>7 DEF CommentInv

LEMMA AcceptInv ==
    ASSUME CommentInv, NEW p \in Proc, NEW op, Wellformed(op), ops < MaxOps, Accept(p, op)
    PROVE  CommentInv'
  <1> USE DEF CommentInv
  <1>1. ops \in Nat /\ MaxOps \in Nat /\ ops' = ops + 1 /\ ops + 1 \in 1 .. MaxOps
    BY BoundAssumption DEF CommentTypes, Accept
  <1>2. /\ req' = [req EXCEPT ![p] = op] /\ pc' = [pc EXCEPT ![p] = "waiting"]
        /\ UNCHANGED <<comments, versions, holder, list, acked>>
    BY DEF Accept
  <1>3. op \in Operation
    BY DEF Wellformed
  <1>4. /\ req'[p] = op /\ \A q \in Proc \ {p} : req'[q] = req[q]
        /\ pc'[p] = "waiting" /\ \A q \in Proc \ {p} : pc'[q] = pc[q]
    BY <1>2 DEF CommentTypes
  <1>5. CommentTypes'
    BY <1>1, <1>2, <1>3 DEF CommentTypes
  <1>6. ListIsFresh'
    BY <1>2, <1>4 DEF ListIsFresh, Wellformed
  <1>7. ASSUME NEW n \in 1 .. MaxOps, Unused(n) PROVE Unused(n)'
    <2>1. op.kind = "publish" => \A i \in DOMAIN op.locals : Without(op.locals[i], n)
      BY <1>7 DEF Wellformed, Unused
    <2>2. ASSUME NEW q \in Proc, req'[q].kind = "publish"
          PROVE  \A i \in DOMAIN req'[q].locals : Without(req'[q].locals[i], n)
      BY <1>4, <1>7, <2>1, <2>2 DEF Unused
    <2>3. \A i \in DOMAIN comments' : Without(comments'[i], n)
      BY <1>2, <1>7 DEF Unused
    <2> QED BY <2>2, <2>3 DEF Unused
  <1>8. IdsAreFresh'
    <2>1. ASSUME NEW n \in 1 .. MaxOps, n > ops' PROVE Unused(n)'
      BY <1>1, <1>7, <2>1 DEF IdsAreFresh
    <2>2. ASSUME NEW q \in Proc, req'[q].kind # "none"
          PROVE  /\ req'[q].n \in 1 .. ops' /\ Unused(req[q].n)'
                 /\ req'[q].kind \in {"create", "reply", "agent"} => req'[q].id = req'[q].n
      <3>1. CASE q = p
        <4>1. /\ req'[q].n = ops + 1
              /\ req'[q].kind \in {"create", "reply", "agent"} => req'[q].id = req'[q].n
          BY <1>4, <2>2, <3>1 DEF Wellformed
        <4>2. ops + 1 \in 1 .. MaxOps /\ ops + 1 \in 1 .. ops' /\ Unused(ops + 1)
          BY <1>1 DEF IdsAreFresh
        <4>3. PICK n \in 1 .. MaxOps : n = req'[q].n /\ Unused(n)
          BY <4>1, <4>2
        <4>4. Unused(n)'
          BY <1>7, <4>3
        <4>5. Unused(req[q].n)'
          BY <4>3, <4>4 DEF Unused
        <4> QED BY <4>1, <4>2, <4>5
      <3>2. CASE q # p
        <4>1. /\ req'[q] = req[q] /\ req[q].n \in 1 .. ops /\ Unused(req[q].n)
              /\ req[q].kind \in {"create", "reply", "agent"} => req[q].id = req[q].n
          BY <1>4, <2>2, <3>2 DEF IdsAreFresh
        <4>2. req[q].n \in 1 .. MaxOps /\ req[q].n \in 1 .. ops'
          BY <1>1, <4>1
        <4>3. PICK n \in 1 .. MaxOps : n = req'[q].n /\ Unused(n)
          BY <4>1, <4>2
        <4>4. Unused(n)'
          BY <1>7, <4>3
        <4>5. Unused(req[q].n)'
          BY <4>3, <4>4 DEF Unused
        <4> QED BY <4>1, <4>2, <4>5
      <3> QED BY <3>1, <3>2
    <2>3. ASSUME NEW q \in Proc, NEW r \in Proc, req'[q].kind # "none", req'[r].kind # "none",
                 req'[q].n = req'[r].n
          PROVE  q = r
      <3>1. \A x \in Proc \ {p} : req'[x].kind # "none" => req'[x].n \in 1 .. ops
        BY <1>4 DEF IdsAreFresh
      <3>2. req'[p].n = ops + 1
        BY <1>4 DEF Wellformed
      <3>3. ops + 1 \notin 1 .. ops
        BY <1>1
      <3>4. CASE q # p /\ r # p
        BY <1>4, <2>3, <3>4 DEF IdsAreFresh
      <3> QED BY <2>3, <3>1, <3>2, <3>3, <3>4
    <2>4. \A n \in 1 .. MaxOps : n > ops' => Unused(n)'
      BY <2>1
    <2> QED BY <2>2, <2>3, <2>4 DEF IdsAreFresh
  <1>9. RepliesApart'
    <2>1. op.kind = "publish" => \A i \in DOMAIN op.locals : OwnIds(op.locals[i])
      BY DEF Wellformed
    <2>2. ASSUME NEW q \in Proc, req'[q].kind = "publish"
          PROVE  \A i \in DOMAIN req'[q].locals : OwnIds(req'[q].locals[i])
      BY <1>4, <2>1, <2>2 DEF RepliesApart
    <2>3. \A i \in DOMAIN comments' : OwnIds(comments'[i])
      BY <1>2 DEF RepliesApart
    <2> QED BY <2>2, <2>3 DEF RepliesApart
  <1>10. UniqueIds' /\ NoAckedEventLost'
    BY <1>2 DEF UniqueIds, NoAckedEventLost
  <1> QED BY <1>5, <1>6, <1>8, <1>9, <1>10

\* The steps up to the one that stores the list.
LEMMA ProgressInv ==
    ASSUME CommentInv, NEW p \in Proc, Enter(p) \/ EnterPublish(p) \/ PutVersion(p)
    PROVE  CommentInv'
  <1> USE DEF CommentInv
  <1>1. CASE Enter(p)
    <2>1. \A q \in Proc : pc[q] \notin {"publishing", "writing"}
      BY <1>1, ProcAssumption DEF Enter, ListIsFresh
    <2>2. CommentTypes'
      BY <1>1 DEF Enter, CommentTypes
    <2>3. ListIsFresh'
      BY <1>1, <2>1 DEF Enter, ListIsFresh, CommentTypes
    <2>4. IdsAreFresh' /\ RepliesApart' /\ UniqueIds' /\ NoAckedEventLost'
      <3>1. comments' = comments /\ req' = req /\ ops' = ops /\ acked' = acked
        BY <1>1 DEF Enter
      <3> QED BY <3>1 DEF IdsAreFresh, Unused, RepliesApart, UniqueIds, NoAckedEventLost
    <2> QED BY <2>2, <2>3, <2>4
  <1>2. CASE EnterPublish(p)
    <2> DEFINE v == IF req[p].v > 0 THEN req[p].v ELSE Newest + 1
               op == [req[p] EXCEPT !.v = v]
    <2>1. \A q \in Proc : pc[q] \notin {"publishing", "writing"}
      BY <1>2, ProcAssumption DEF EnterPublish, ListIsFresh
    <2>2. req[p] \in PublishOp
      BY <1>2, OpOfKind DEF EnterPublish, CommentTypes
    <2>3. v \in 1 .. MaxVersion
      <3>1. req[p].v \in Nat /\ Newest \in Nat /\ MaxVersion \in Nat
        BY <2>2, NewestTyped, BoundAssumption DEF PublishOp, CommentTypes
      <3>2. v <= MaxVersion
        BY <1>2 DEF EnterPublish
      <3> QED BY <3>1, <3>2
    <2>4. req' = [req EXCEPT ![p] = op]
      BY <1>2 DEF EnterPublish
    <2>5. MaxVersion \in Nat
      BY BoundAssumption
    <2> HIDE DEF v
    <2>6. op \in PublishOp /\ op.kind = "publish" /\ op.v = v /\ op.locals = req[p].locals /\ op.n = req[p].n
      <3>1. v \in Nat
        BY <2>3, <2>5
      <3> QED BY <2>2, <3>1 DEF PublishOp
    <2>k. req[p].kind = "publish"
      BY <2>2 DEF PublishOp
    <2>7. req'[p] = op /\ \A q \in Proc \ {p} : req'[q] = req[q]
      BY <2>4 DEF CommentTypes
    <2>8. CommentTypes'
      <3>1. req' \in [Proc -> Operation]
        BY <2>4, <2>6 DEF CommentTypes, Operation
      <3> QED BY <1>2, <3>1 DEF EnterPublish, CommentTypes
    <2>9. ListIsFresh'
      <3>1. pc'[p] = "publishing" /\ holder' = p /\ req'[p].kind = "publish" /\ req'[p].v \in 1 .. MaxVersion
        BY <1>2, <2>3, <2>6, <2>7 DEF EnterPublish, CommentTypes
      <3>2. ASSUME NEW q \in Proc \ {p}
            PROVE  pc'[q] = pc[q] /\ req'[q] = req[q] /\ list'[q] = list[q]
        BY <1>2, <2>7, <3>2 DEF EnterPublish, CommentTypes
      <3> QED BY <2>1, <3>1, <3>2 DEF ListIsFresh
    <2>10. comments' = comments /\ ops' = ops /\ acked' = acked
      BY <1>2 DEF EnterPublish
    <2>11. \A q \in Proc : /\ req'[q].kind = req[q].kind /\ req'[q].n = req[q].n
                           /\ req[q].kind = "publish" => req'[q].locals = req[q].locals
                           /\ req[q].kind # "publish" => req'[q] = req[q]
      BY <2>k, <2>6, <2>7
    <2>12. \A n : Unused(n) => Unused(n)'
      BY <2>10, <2>11 DEF Unused
    <2>13. IdsAreFresh'
      <3>1. \A n \in 1 .. MaxOps : n > ops' => Unused(n)'
        BY <2>10, <2>12 DEF IdsAreFresh
      <3>2. ASSUME NEW q \in Proc, req'[q].kind # "none"
            PROVE  /\ req'[q].n \in 1 .. ops' /\ Unused(req[q].n)'
                   /\ req'[q].kind \in {"create", "reply", "agent"} => req'[q].id = req'[q].n
        <4>1. req[q].n \in 1 .. ops /\ Unused(req[q].n)
          BY <2>11, <3>2 DEF IdsAreFresh
        <4>2. PICK n : n = req'[q].n /\ Unused(n)
          BY <2>11, <4>1
        <4>3. Unused(n)'
          BY <2>12, <4>2
        <4>4. Unused(req[q].n)'
          BY <4>2, <4>3 DEF Unused
        <4>5. req'[q].kind \in {"create", "reply", "agent"} => req'[q].id = req'[q].n
          BY <2>11, <3>2 DEF IdsAreFresh
        <4> QED BY <2>10, <2>11, <4>1, <4>4, <4>5
      <3>3. \A q, r \in Proc :
               req'[q].kind # "none" /\ req'[r].kind # "none" /\ req'[q].n = req'[r].n => q = r
        BY <2>11 DEF IdsAreFresh
      <3> QED BY <3>1, <3>2, <3>3 DEF IdsAreFresh
    <2>14. RepliesApart' /\ UniqueIds' /\ NoAckedEventLost'
      BY <2>10, <2>11 DEF RepliesApart, UniqueIds, NoAckedEventLost
    <2> QED BY <2>8, <2>9, <2>13, <2>14
  <1>3. CASE PutVersion(p)
    <2>1. req[p].v \in 1 .. MaxVersion /\ holder = p
      BY <1>3 DEF PutVersion, ListIsFresh
    <2>2. CommentTypes'
      BY <1>3, <2>1 DEF PutVersion, CommentTypes
    <2>3. ListIsFresh'
      BY <1>3, <2>1 DEF PutVersion, ListIsFresh, CommentTypes
    <2>4. IdsAreFresh' /\ RepliesApart' /\ UniqueIds' /\ NoAckedEventLost'
      <3>1. comments' = comments /\ req' = req /\ ops' = ops /\ acked' = acked
        BY <1>3 DEF PutVersion
      <3> QED BY <3>1 DEF IdsAreFresh, Unused, RepliesApart, UniqueIds, NoAckedEventLost
    <2> QED BY <2>2, <2>3, <2>4
  <1> QED BY <1>1, <1>2, <1>3

\* Leaving the lock disturbs nobody, whatever p has stored.
LEMMA LeaveInv ==
    ASSUME CommentInv, NEW p \in Proc, Leave(p),
           comments' \in Seq(StoredComment), UniqueIds', NoAckedEventLost',
           comments' # comments => pc[p] = "writing",
           \A n : Unused(n) /\ n # req[p].n => \A i \in DOMAIN comments' : Without(comments'[i], n),
           \A i \in DOMAIN comments' : OwnIds(comments'[i]),
           comments' # comments => req[p].kind # "none"
    PROVE  CommentInv'
  <1> USE DEF CommentInv
  <1>1. /\ req'[p] = NoOp /\ pc'[p] = "idle"
        /\ \A q \in Proc \ {p} : req'[q] = req[q] /\ pc'[q] = pc[q] /\ list'[q] = list[q]
    BY DEF Leave, CommentTypes
  <1>2. NoOp.kind = "none" /\ NoOp \in Operation /\ ops' = ops
    BY DEF NoOp, Operation, Leave
  <1>3. CommentTypes'
    BY <1>2 DEF Leave, CommentTypes
  <1>4. ListIsFresh'
    <2> SUFFICES ASSUME NEW q \in Proc, q # p
                 PROVE  /\ pc'[q] # "idle" => req'[q].kind # "none"
                        /\ pc'[q] \in {"publishing", "writing"} => holder' = q
                        /\ pc'[q] = "writing" => list'[q] = comments'
                        /\ pc'[q] = "publishing" => req'[q].kind = "publish" /\ req'[q].v \in 1 .. MaxVersion
      BY <1>1 DEF ListIsFresh
    <2>1. pc[q] \in {"publishing", "writing"} => holder' = q
      BY DEF ListIsFresh, Leave
    <2>2. pc[q] = "writing" => list[q] = comments'
      BY DEF ListIsFresh
    <2> QED BY <1>1, <2>1, <2>2 DEF ListIsFresh
  <1>5. ASSUME NEW n, Unused(n), req[p].kind # "none" => req[p].n # n
        PROVE  Unused(n)'
    <2>1. \A i \in DOMAIN comments' : Without(comments'[i], n)
      <3>1. CASE comments' = comments
        BY <1>5, <3>1 DEF Unused
      <3>2. CASE comments' # comments
        BY <1>5, <3>2
      <3> QED BY <3>1, <3>2
    <2>2. \A q \in Proc : req'[q].kind = "publish" => q # p
      BY <1>1, <1>2
    <2> QED BY <1>1, <1>5, <2>1, <2>2 DEF Unused
  <1>6. IdsAreFresh'
    <2>1. ASSUME NEW n \in 1 .. MaxOps, n > ops PROVE Unused(n)'
      <3>1. req[p].kind # "none" => req[p].n # n
        BY <2>1 DEF IdsAreFresh, CommentTypes
      <3> QED BY <1>5, <2>1, <3>1 DEF IdsAreFresh
    <2>2. ASSUME NEW q \in Proc, req'[q].kind # "none"
          PROVE  /\ req'[q].n \in 1 .. ops' /\ Unused(req[q].n)'
                 /\ req'[q].kind \in {"create", "reply", "agent"} => req'[q].id = req'[q].n
      <3>1. q # p /\ req'[q] = req[q]
        BY <1>1, <1>2, <2>2
      <3>2. /\ req[q].n \in 1 .. ops /\ Unused(req[q].n)
            /\ req[q].kind \in {"create", "reply", "agent"} => req[q].id = req[q].n
        BY <2>2, <3>1 DEF IdsAreFresh
      <3>3. req[p].kind # "none" => req[p].n # req[q].n
        BY <2>2, <3>1 DEF IdsAreFresh
      <3>4. PICK n : n = req'[q].n /\ Unused(n) /\ (req[p].kind # "none" => req[p].n # n)
        BY <3>1, <3>2, <3>3
      <3>5. Unused(n)'
        BY <1>5, <3>4
      <3>6. Unused(req[q].n)'
        BY <3>4, <3>5 DEF Unused
      <3> QED BY <1>2, <3>1, <3>2, <3>6
    <2>3. \A n \in 1 .. MaxOps : n > ops' => Unused(n)'
      BY <1>2, <2>1
    <2>4. \A q \in Proc : req'[q].kind # "none" => req'[q] = req[q]
      BY <1>1, <1>2
    <2>5. \A q, r \in Proc : req'[q].kind # "none" /\ req'[r].kind # "none"
                             /\ req'[q].n = req'[r].n => q = r
      BY <2>4 DEF IdsAreFresh
    <2> QED BY <2>2, <2>3, <2>5 DEF IdsAreFresh
  <1>7. RepliesApart'
    <2>1. \A q \in Proc : req'[q].kind = "publish" => req'[q] = req[q]
      BY <1>1, <1>2
    <2> QED BY <2>1 DEF RepliesApart
  <1> QED BY <1>3, <1>4, <1>6, <1>7

\* What a write finds: the list as it is, and a number that is its own.
WriteFinds(p, op) ==
    /\ op = req[p] /\ op \in Operation /\ op.kind # "none" /\ op.n \in 1 .. MaxOps
    /\ <<op.n>> \in Seq(Nat)
    /\ comments \in Seq(StoredComment) /\ list[p] = comments
    /\ \A M : op.n \notin M => OtherDraw(<<op.n>>, M)
    /\ Unused(op.n)
    /\ op.kind \in {"create", "reply", "agent"} =>
          op.id = op.n /\ \A i \in DOMAIN comments : comments[i].id # op.id

LEMMA WriteFindsAll ==
    ASSUME CommentInv, NEW p \in Proc, pc[p] = "writing"
    PROVE  WriteFinds(p, req[p])
  <1> USE DEF CommentInv
  <1> DEFINE op == req[p]
  <1>1. op \in Operation /\ op.kind # "none" /\ comments \in Seq(StoredComment) /\ list[p] = comments
    BY DEF CommentTypes, ListIsFresh
  <1>2. op.n \in 1 .. ops /\ Unused(op.n) /\ (op.kind \in {"create", "reply", "agent"} => op.id = op.n)
    BY <1>1 DEF IdsAreFresh
  <1>3. ops \in Nat /\ ops <= MaxOps /\ MaxOps \in Nat
    BY BoundAssumption DEF CommentTypes
  <1>4. op.n \in 1 .. MaxOps /\ op.n \in Nat
    BY <1>2, <1>3
  <1>5. \A i \in DOMAIN comments : comments[i].id # op.n
    BY <1>2 DEF Unused, Without
  <1> HIDE DEF op
  <1>6. <<op.n>> \in Seq(Nat) /\ <<op.n>> # <<>> /\ <<op.n>>[1] = op.n
    BY <1>4
  <1>7. \A M : op.n \notin M => OtherDraw(<<op.n>>, M)
    BY <1>6 DEF OtherDraw
  <1> QED BY <1>1, <1>2, <1>4, <1>5, <1>6, <1>7 DEF WriteFinds, op

LEMMA WriteInv ==
    ASSUME CommentInv, NEW p \in Proc, Write(p)
    PROVE  /\ CommentInv'
           /\ req[p].kind # "wipe" => Continues(comments, comments')
           /\ req[p].kind = "wipe" => comments' = <<>>
  <1> USE DEF CommentInv
  <1> DEFINE op == req[p]
             m == ApplyCommentOp(comments, op, <<op.n>>)
  <1>0. WriteFinds(p, op)
    BY WriteFindsAll DEF Write
  <1>1. pc[p] = "writing" /\ list[p] = comments /\ comments' = m /\ Leave(p)
        /\ acked' = IF op.kind = "wipe" THEN {} ELSE acked \cup (Logged(m) \ Logged(comments))
    BY <1>0 DEF Write, WriteFinds
  <1>2. op \in Operation /\ op.kind # "none" /\ <<op.n>> \in Seq(Nat) /\ comments \in Seq(StoredComment)
        /\ (op.kind \in {"create", "reply", "agent"} => op.id = op.n /\ \A i \in DOMAIN comments : comments[i].id # op.id)
    BY <1>0 DEF WriteFinds
  <1>3. /\ m \in Seq(StoredComment)
        /\ op.kind # "wipe" => Continues(comments, m)
        /\ op.kind = "wipe" => m = <<>>
        /\ Distinct(comments) /\ (op.kind = "create" => \A i \in DOMAIN comments : comments[i].id # op.id)
              => Distinct(m)
    <2>1. op \in Operation /\ op.kind # "none" /\ <<op.n>> \in Seq(Nat) /\ comments \in Seq(StoredComment)
      BY <1>2
    <2> HIDE DEF CommentInv, op
    <2> QED BY <2>1, ApplyContinues
  <1>4. ASSUME NEW M, op.n \notin M, \A i \in DOMAIN comments : Clean(comments[i], M),
               op.kind = "publish" => \A i \in DOMAIN op.locals : Clean(op.locals[i], M)
        PROVE  \A i \in DOMAIN m : Clean(m[i], M)
    <2>1. OtherDraw(<<op.n>>, M)
      BY <1>0, <1>4 DEF WriteFinds
    <2> QED BY <1>2, <1>4, <2>1, ApplyClean
  <1> HIDE DEF m
  <1>5. UniqueIds'
    <2>1. Distinct(comments)
      BY DEF UniqueIds, Distinct
    <2> QED BY <1>1, <1>2, <1>3, <2>1 DEF UniqueIds, Distinct
  <1>6. NoAckedEventLost'
    <2>1. CASE op.kind = "wipe"
      BY <1>1, <2>1 DEF NoAckedEventLost
    <2>2. CASE op.kind # "wipe"
      <3>1. Logged(comments) \subseteq Logged(m)
        BY <1>2, <1>3, <2>2, LoggedGrows
      <3>2. acked' \subseteq Logged(m)
        BY <1>1, <2>2, <3>1 DEF NoAckedEventLost
      <3> QED BY <1>1, <3>2 DEF NoAckedEventLost
    <2> QED BY <2>1, <2>2
  <1>7. /\ \A i \in DOMAIN comments : comments[i].events \in Seq(EventRecord)
        /\ \A i \in DOMAIN m : m[i].events \in Seq(EventRecord)
        /\ op.kind = "publish" => \A i \in DOMAIN op.locals : op.locals[i].events \in Seq(EventRecord)
    <2>1. \A i \in DOMAIN comments : comments[i].events \in Seq(EventRecord)
      BY <1>2, StoredLog
    <2>2. \A i \in DOMAIN m : m[i].events \in Seq(EventRecord)
      BY <1>3, StoredLog
    <2>3. ASSUME op.kind = "publish", NEW i \in DOMAIN op.locals
          PROVE  op.locals[i].events \in Seq(EventRecord)
      <3>1. op.locals \in Seq(ArrivingComment)
        BY <1>2, <2>3, OpOfKind DEF PublishOp
      <3>2. op.locals[i] \in ArrivingComment
        BY <2>3, <3>1
      <3>3. op.locals[i].events \in Seq(ArrivingEvent)
        BY <3>2 DEF ArrivingComment
      <3> QED BY <3>3, KindsOfEvents
    <2> QED BY <2>1, <2>2, <2>3
  <1>8. ASSUME NEW n, Unused(n), n # op.n PROVE \A i \in DOMAIN m : Without(m[i], n)
    <2>1. \A i \in DOMAIN comments : OwnIds(comments[i]) /\ Without(comments[i], n) /\ comments[i].id # n
      BY <1>8 DEF Unused, RepliesApart, Without
    <2>2. \A i \in DOMAIN comments : Clean(comments[i], {n})
      BY <1>7, <2>1, CleanMeans
    <2>3. op.kind = "publish" => \A i \in DOMAIN op.locals :
             OwnIds(op.locals[i]) /\ Without(op.locals[i], n) /\ op.locals[i].id # n
      BY <1>8 DEF Unused, RepliesApart, Without
    <2>4. op.kind = "publish" => \A i \in DOMAIN op.locals : Clean(op.locals[i], {n})
      BY <1>7, <2>3, CleanMeans
    <2>5. \A i \in DOMAIN m : Clean(m[i], {n})
      BY <1>4, <1>8, <2>2, <2>4
    <2> QED BY <1>7, <2>5, CleanMeans
  <1>9. \A i \in DOMAIN m : OwnIds(m[i])
    <2>1. \A i \in DOMAIN comments : OwnIds(comments[i])
      BY DEF RepliesApart
    <2>2. \A i \in DOMAIN comments : Clean(comments[i], {})
      BY <1>7, <2>1, CleanMeans
    <2>3. op.kind = "publish" => \A i \in DOMAIN op.locals : OwnIds(op.locals[i])
      BY DEF RepliesApart
    <2>4. op.kind = "publish" => \A i \in DOMAIN op.locals : Clean(op.locals[i], {})
      BY <1>7, <2>3, CleanMeans
    <2>5. \A i \in DOMAIN m : Clean(m[i], {})
      BY <1>4, <2>2, <2>4
    <2> QED BY <1>7, <2>5, CleanMeans
  <1>10. CommentInv'
    BY <1>1, <1>2, <1>3, <1>5, <1>6, <1>8, <1>9, LeaveInv
  <1> QED BY <1>1, <1>3, <1>10

LEMMA NextInv == CommentInv /\ [Next]_vars => CommentInv'
  <1> SUFFICES ASSUME CommentInv, [Next]_vars PROVE CommentInv'
    OBVIOUS
  <1> USE DEF CommentInv
  <1>1. CASE UNCHANGED vars
    <2>1. CommentTypes' /\ ListIsFresh'
      BY <1>1 DEF vars, CommentTypes, ListIsFresh
    <2>2. IdsAreFresh'
      BY <1>1 DEF vars, IdsAreFresh, Unused
    <2>3. RepliesApart' /\ UniqueIds' /\ NoAckedEventLost'
      BY <1>1 DEF vars, RepliesApart, UniqueIds, NoAckedEventLost
    <2> QED BY <2>1, <2>2, <2>3
  <1>2. ASSUME NEW p \in Proc, Request(p, Kinds) PROVE CommentInv'
    BY <1>2, RequestWellformed, AcceptInv
  <1>3. ASSUME NEW p \in Proc, Step(p) PROVE CommentInv'
    <2>1. CASE Enter(p) \/ EnterPublish(p) \/ PutVersion(p)
      BY <2>1, ProgressInv
    <2>2. CASE Write(p)
      BY <2>2, WriteInv
    <2>3. CASE NotFound(p) \/ Fail(p)
      <3>1. Leave(p) /\ UNCHANGED <<comments, acked>>
        BY <2>3 DEF NotFound, Fail
      <3>2. comments' \in Seq(StoredComment) /\ UniqueIds' /\ NoAckedEventLost'
        BY <3>1 DEF CommentTypes, UniqueIds, NoAckedEventLost
      <3>3. /\ \A n : Unused(n) => \A i \in DOMAIN comments' : Without(comments'[i], n)
            /\ \A i \in DOMAIN comments' : OwnIds(comments'[i])
        BY <3>1 DEF Unused, RepliesApart
      <3> QED BY <3>1, <3>2, <3>3, LeaveInv
    <2> QED BY <1>3, <2>1, <2>2, <2>3 DEF Step
  <1> QED BY <1>1, <1>2, <1>3 DEF Next

LEMMA CommentInvHolds == Spec => []CommentInv
  BY InitInv, NextInv, PTL DEF Spec

\* The stored list is well formed, every event in it stamped (events.go:56-80), whatever
\* is created, deduplicated, re-anchored and merged.
THEOREM CommentTypesHold == Spec => []CommentTypes
  <1>1. CommentInv => CommentTypes
    BY DEF CommentInv
  <1> QED BY <1>1, CommentInvHolds, PTL

\* Ids name one comment each (ops.go:228-256, opPublishMerge).
THEOREM IdsAreUnique == Spec => []UniqueIds
  <1>1. CommentInv => UniqueIds
    BY DEF CommentInv
  <1> QED BY <1>1, CommentInvHolds, PTL

\* No event that a request was told 200 for is lost (comment.go: the slug lock around
\* read, apply and write; events.go:124, compaction).
THEOREM NothingAckedIsLost == Spec => []NoAckedEventLost
  <1>1. CommentInv => NoAckedEventLost
    BY DEF CommentInv
  <1> QED BY <1>1, CommentInvHolds, PTL

\* A comment deleted for the readers of a version stays deleted for them (fold.go,
\* applyStatusEvent), whatever is appended, merged, deduplicated and compacted.
THEOREM DeletionIsForGood == Spec => DeletedForGood
  <1> DEFINE Stays ==
        \A i \in Kept, w \in Readable :
           /\ comments[i].id = comments'[i].id
           /\ SnapshotAt(comments[i], w).deleted
           => SnapshotAt(comments'[i], w).deleted
  <1>1. CommentInv /\ CommentInv' /\ [Next]_vars => [Stays]_comments
    <2> SUFFICES ASSUME CommentInv, CommentInv', [Next]_vars, comments' # comments
                 PROVE  Stays
      OBVIOUS
    <2>1. PICK p \in Proc : Write(p)
      BY DEF Next, vars, Request, Step, Accept, handleCreateComment, handleReplyComment,
             handlePatchComment, handleDeleteComment, wipeComments, handleReact, handleAgentReply,
             handlePublish, Enter, EnterPublish, PutVersion, NotFound, Fail
    <2>2. /\ req[p].kind # "wipe" => Continues(comments, comments')
          /\ req[p].kind = "wipe" => comments' = <<>>
      BY <2>1, WriteInv
    <2> SUFFICES ASSUME NEW i \in Kept, NEW w \in Readable, SnapshotAt(comments[i], w).deleted
                 PROVE  SnapshotAt(comments'[i], w).deleted
      OBVIOUS
    <2>3. i \in DOMAIN comments /\ i \in DOMAIN comments' /\ w \in Nat
      BY BoundAssumption DEF Kept, Readable
    <2>4. comments[i] \in StoredComment /\ comments'[i] \in StoredComment
      BY <2>3 DEF CommentInv, CommentTypes
    <2>5. EIDs(comments[i].events) \subseteq EIDs(comments'[i].events)
      BY <2>2, <2>3 DEF Continues, Keeps
    <2>6. \E x \in Nat : x <= w /\ x # VersionLatest /\ DeletionID(x) \in EIDs(comments[i].events)
      BY <2>3, <2>4, DeletionShows
    <2> QED BY <2>3, <2>4, <2>5, <2>6, DeletionShows
  <1> QED BY <1>1, CommentInvHolds, PTL DEF Spec, DeletedForGood

-------------------------------------------------------------------------------
(* What a write does to the comments that readers see.                     *)

LEMMA OnlyWriteStores ==
    ASSUME [Next]_vars, comments' # comments
    PROVE  \E p \in Proc : Write(p)
  <1>1. \E p \in Proc : Request(p, Kinds) \/ Step(p)
    BY DEF Next, vars
  <1>2. PICK p \in Proc : Request(p, Kinds) \/ Step(p)
    BY <1>1
  <1>3. ~Request(p, Kinds)
    BY DEF Request, Accept, handleCreateComment, handleReplyComment, handlePatchComment,
           handleDeleteComment, wipeComments, handleReact, handleAgentReply, handlePublish
  <1>4. ~(Enter(p) \/ EnterPublish(p) \/ PutVersion(p) \/ NotFound(p) \/ Fail(p))
    BY DEF Enter, EnterPublish, PutVersion, NotFound, Fail
  <1> QED BY <1>2, <1>3, <1>4 DEF Step

LEMMA StoresIsWrite ==
    ASSUME CommentInv, [Next]_vars, NEW p \in Proc, Stores(p)
    PROVE  Write(p)
  <1>1. PICK q \in Proc : Write(q)
    BY OnlyWriteStores DEF Stores
  <1>2. pc \in [Proc -> {"idle", "waiting", "publishing", "writing"}]
    BY DEF CommentInv, CommentTypes
  <1>3. pc' = [pc EXCEPT ![q] = "idle"]
    BY <1>1 DEF Write, Leave
  <1>4. p = q
    BY <1>2, <1>3 DEF Stores
  <1> QED BY <1>1, <1>4

LEMMA WriteStores ==
    ASSUME CommentInv, NEW p \in Proc, Write(p)
    PROVE  WriteFinds(p, req[p]) /\ comments' = ApplyCommentOp(comments, req[p], <<req[p].n>>)
  <1>1. WriteFinds(p, req[p])
    BY WriteFindsAll DEF Write
  <1>2. list[p] = comments
    BY <1>1 DEF WriteFinds
  <1> QED BY <1>1, <1>2 DEF Write

\* A publish stores each comment that is there, and each new one, re-anchored and
\* compacted; the numbers it draws are not in them.
LEMMA PublishStores ==
    ASSUME CommentInv, NEW p \in Proc, Write(p), req[p].kind = "publish"
    PROVE  LET op == req[p]
           IN  /\ op \in PublishOp /\ DOMAIN comments \subseteq DOMAIN comments'
               /\ \A i \in DOMAIN comments' : \E c \in StoredComment :
                     /\ i \in Nat /\ Undrawn(c, Append(<<op.n>>, i))
                     /\ i \in DOMAIN comments => c = comments[i]
                     /\ comments'[i] = Republish(c, op, Append(<<op.n>>, i))
  <1> DEFINE op == req[p]
             n == <<op.n>>
             l == comments
             m == opPublishMerge(l, op, n)
             merged == MergeLocals(l, op.locals, Append(n, 0))
  <1>1. WriteFinds(p, op) /\ comments' = ApplyCommentOp(l, op, n)
    BY WriteStores
  <1>2. op \in PublishOp
    BY <1>1, OpOfKind DEF WriteFinds
  <1>3. comments' = m
    BY <1>1 DEF ApplyCommentOp
  <1>4. /\ op.n \in Nat /\ n \in Seq(Nat) /\ op.v \in Nat /\ op.locals \in Seq(ArrivingComment)
        /\ l \in Seq(StoredComment)
    BY <1>1, <1>2 DEF PublishOp, WriteFinds
  <1>5. /\ \A i \in DOMAIN l : NotDrawn(l[i], op.n)
        /\ \A j \in DOMAIN op.locals : NotDrawn(op.locals[j], op.n)
    <2>1. Unused(op.n) /\ req[p] = op /\ op.kind = "publish"
      BY <1>1 DEF WriteFinds
    <2> HIDE DEF op
    <2> QED BY <2>1 DEF Unused, Without, NotDrawn
  <1>6. DOMAIN m = DOMAIN merged /\ \A i \in DOMAIN merged : m[i] = PublishedComment(merged, op, n, i)
    BY PublishDoes
  <1> HIDE DEF op, m, l
  <1>7. /\ merged \in Seq(StoredComment) /\ Len(l) <= Len(merged)
        /\ \A i \in 1 .. Len(l) : merged[i] = l[i]
        /\ \A i \in 1 .. Len(merged) : i > Len(l) =>
              \E j \in DOMAIN op.locals : merged[i] = StampedLocals(op.locals, Append(n, 0))[j]
    <2>1. Append(n, 0) \in Seq(Nat)
      BY <1>4
    <2> HIDE DEF n
    <2> QED BY <1>4, <2>1, MergeContinues
  <1> HIDE DEF merged
  <1>8. /\ DOMAIN l = 1 .. Len(l) /\ Len(l) \in Nat
        /\ DOMAIN merged = 1 .. Len(merged) /\ Len(merged) \in Nat
    BY <1>4, <1>7
  <1>9. ASSUME NEW i \in DOMAIN merged
        PROVE  /\ i \in Nat /\ merged[i] \in StoredComment /\ Undrawn(merged[i], Append(n, i))
               /\ i \in DOMAIN l => merged[i] = l[i]
    <2>1. i \in Nat /\ merged[i] \in StoredComment /\ (i \in DOMAIN l => merged[i] = l[i])
      BY <1>7, <1>8
    <2>2. CASE i <= Len(l)
      <3>1. i \in DOMAIN l
        BY <1>8, <2>2
      <3>2. NotDrawn(merged[i], op.n)
        BY <1>5, <2>1, <3>1
      <3>3. Undrawn(merged[i], Append(n, i))
        BY <1>4, <2>1, <3>2, Undrawn1
      <3> QED BY <2>1, <3>3
    <2>3. CASE i > Len(l)
      <3>1. PICK j \in DOMAIN op.locals : merged[i] = StampedLocals(op.locals, Append(n, 0))[j]
        BY <1>7, <1>8, <2>3
      <3> QED BY <1>4, <1>5, <2>1, <3>1, LocalsUndrawn
    <2> QED BY <1>8, <2>1, <2>2, <2>3
  <1>10. \A i \in DOMAIN merged : m[i] = Republish(merged[i], op, Append(n, i))
    BY <1>6 DEF PublishedComment, Republish
  <1>11. DOMAIN l \subseteq DOMAIN merged
    BY <1>7, <1>8
  <1>12. \A i \in DOMAIN m : \E c \in StoredComment :
            /\ i \in Nat /\ Undrawn(c, Append(n, i))
            /\ i \in DOMAIN l => c = l[i]
            /\ m[i] = Republish(c, op, Append(n, i))
    BY <1>6, <1>9, <1>10
  <1> QED BY <1>2, <1>3, <1>6, <1>11, <1>12 DEF op, l

\* A publish changes nothing but anchors, and those from its version on (comment.go:170,
\* events.go:124), whatever it merges, deduplicates and re-anchors.
THEOREM PublishingIsNonDestructive == Spec => PublishIsNonDestructive
  <1> DEFINE Intact ==
        \A p \in Proc : Stores(p) /\ req[p].kind = "publish" =>
          /\ DOMAIN comments \subseteq DOMAIN comments'
          /\ \A i \in DOMAIN comments, w \in Readable :
                LET old == SnapshotAt(comments[i], w)
                    new == SnapshotAt(comments'[i], w)
                IN  new = IF w < req[p].v THEN old ELSE [old EXCEPT !.anchor = new.anchor]
  <1>1. CommentInv /\ [Next]_vars => [Intact]_vars
    <2> SUFFICES ASSUME CommentInv, [Next]_vars, NEW p \in Proc, Stores(p), req[p].kind = "publish"
                 PROVE  /\ DOMAIN comments \subseteq DOMAIN comments'
                        /\ \A i \in DOMAIN comments, w \in Readable :
                              LET old == SnapshotAt(comments[i], w)
                                  new == SnapshotAt(comments'[i], w)
                              IN  new = IF w < req[p].v THEN old ELSE [old EXCEPT !.anchor = new.anchor]
      OBVIOUS
    <2> DEFINE op == req[p]
    <2>1. /\ op \in PublishOp /\ DOMAIN comments \subseteq DOMAIN comments'
          /\ \A i \in DOMAIN comments' : \E c \in StoredComment :
                /\ i \in Nat /\ Undrawn(c, Append(<<op.n>>, i))
                /\ i \in DOMAIN comments => c = comments[i]
                /\ comments'[i] = Republish(c, op, Append(<<op.n>>, i))
      BY StoresIsWrite, PublishStores
    <2>2. op.n \in Nat /\ op.v \in Nat /\ op.aids \in Seq(ArtifactRecord) /\ op.pin \in PinRecord
      BY <2>1 DEF PublishOp
    <2> HIDE DEF op
    <2>3. ASSUME NEW i \in DOMAIN comments, NEW w \in Readable
          PROVE  LET old == SnapshotAt(comments[i], w)
                     new == SnapshotAt(comments'[i], w)
                 IN  new = IF w < op.v THEN old ELSE [old EXCEPT !.anchor = new.anchor]
      <3> DEFINE n == Append(<<op.n>>, i)
                 c == comments[i]
                 old == SnapshotAt(c, w)
                 new == SnapshotAt(comments'[i], w)
      <3>1. i \in Nat /\ c \in StoredComment /\ Undrawn(c, n) /\ comments'[i] = Republish(c, op, Append(<<op.n>>, i))
        BY <2>1
      <3>2. w \in Nat
        BY BoundAssumption DEF Readable
      <3>3. n \in Seq(Nat)
        BY <2>2, <3>1
      <3>4. comments'[i] = Republish(c, op, n)
        BY <3>1
      <3> HIDE DEF c, n
      <3>5. Spares(old, new, w < op.v)
        BY <2>2, <3>1, <3>2, <3>3, <3>4, PublishedSnapshot
      <3> HIDE DEF old, new
      <3>6. new = IF w < op.v THEN old ELSE [old EXCEPT !.anchor = new.anchor]
        BY <3>5 DEF Spares
      <3> QED BY <3>6 DEF old, new, c
    <2> QED BY <2>1, <2>3 DEF op
  <1> QED BY <1>1, CommentInvHolds, PTL DEF Spec, PublishIsNonDestructive

-------------------------------------------------------------------------------
(* What the requests that read a version ask for.                          *)

\* A reaction and a publish are of a version that can be published, or of the first;
\* a publish carries artifacts that a document is stamped with.
InRange(op) ==
    /\ op.kind \in {"react", "publish"} => op.v < VersionLatest
    /\ op.kind = "publish" => op.aids \in Artifacts

RequestsInRange == \A p \in Proc : InRange(req[p])

LEMMA RangeInv == CommentInv /\ RequestsInRange /\ [Next]_vars => RequestsInRange'
  <1> SUFFICES ASSUME CommentInv, RequestsInRange, [Next]_vars PROVE RequestsInRange'
    OBVIOUS
  <1>1. /\ MaxVersion \in Nat /\ FarVersion \in Nat /\ VersionLatest \in Nat
        /\ MaxVersion < VersionLatest /\ 1 < VersionLatest
    BY BoundAssumption, FarVersionAssumption
  <1>2. req \in [Proc -> Operation] /\ versions \subseteq 1 .. MaxVersion
    BY DEF CommentInv, CommentTypes
  <1>3. \A v \in ResolvedVersions : v < VersionLatest
    BY <1>1, <1>2, NewestTyped DEF ResolvedVersions
  <1>4. InRange(NoOp)
    BY DEF InRange, NoOp
  <1>5. ASSUME NEW p \in Proc, NEW op, InRange(op), req' = [req EXCEPT ![p] = op]
        PROVE  RequestsInRange'
    <2>1. req'[p] = op /\ \A q \in Proc \ {p} : req'[q] = req[q]
      BY <1>2, <1>5
    <2> QED BY <1>5, <2>1 DEF RequestsInRange, InRange
  <1>6. ASSUME NEW p \in Proc, Request(p, Kinds) PROVE RequestsInRange'
    <2>1. ASSUME NEW op, InRange(op), Accept(p, op) PROVE RequestsInRange'
      BY <1>5, <2>1 DEF Accept
    <2>2. ASSUME NEW op, op.kind \notin {"react", "publish"}, Accept(p, op) PROVE RequestsInRange'
      BY <2>1, <2>2 DEF InRange
    <2>3. ASSUME handleReact(p) PROVE RequestsInRange'
      <3>1. PICK v \in ResolvedVersions, by \in Login, t \in Targets, m \in Emoji :
                Accept(p, [kind |-> "react", n |-> ops + 1, v |-> v, by |-> by, target |-> t,
                           emoji |-> m])
        BY <2>3 DEF handleReact
      <3>2. InRange([kind |-> "react", n |-> ops + 1, v |-> v, by |-> by, target |-> t, emoji |-> m])
        BY <1>3 DEF InRange
      <3> QED BY <2>1, <3>1, <3>2
    <2>4. ASSUME handlePublish(p) PROVE RequestsInRange'
      <3>1. PICK explicit \in 0 .. MaxVersion, aids \in Artifacts, pin \in Pins,
                 ls \in Locals \cup {<<comments[i]>> : i \in DOMAIN comments} :
                Accept(p, [kind |-> "publish", n |-> ops + 1, v |-> explicit, aids |-> aids,
                           pin |-> pin, locals |-> ls])
        BY <2>4 DEF handlePublish
      <3>2. explicit < VersionLatest
        BY <1>1
      <3>3. InRange([kind |-> "publish", n |-> ops + 1, v |-> explicit, aids |-> aids,
                     pin |-> pin, locals |-> ls])
        BY <3>2 DEF InRange
      <3> QED BY <2>1, <3>1, <3>3
    <2>5. ASSUME handleCreateComment(p) \/ handleReplyComment(p) PROVE RequestsInRange'
      BY <2>2, <2>5 DEF handleCreateComment, handleReplyComment
    <2>6. ASSUME handlePatchComment(p) \/ handleDeleteComment(p) PROVE RequestsInRange'
      BY <2>2, <2>6 DEF handlePatchComment, handleDeleteComment
    <2>7. ASSUME wipeComments(p) \/ handleAgentReply(p) PROVE RequestsInRange'
      BY <2>2, <2>7 DEF wipeComments, handleAgentReply
    <2> QED BY <1>6, <2>3, <2>4, <2>5, <2>6, <2>7 DEF Request
  <1>7. ASSUME NEW p \in Proc, EnterPublish(p) PROVE RequestsInRange'
    <2> DEFINE v == IF req[p].v > 0 THEN req[p].v ELSE Newest + 1
               op == [req[p] EXCEPT !.v = v]
    <2>1. req[p] \in PublishOp /\ InRange(req[p])
      BY <1>2, <1>7, OpOfKind DEF EnterPublish, RequestsInRange
    <2>2. v \in Nat /\ v < VersionLatest
      <3>1. req[p].v \in Nat /\ Newest \in Nat
        BY <1>1, <1>2, <2>1, NewestTyped DEF PublishOp
      <3>2. v <= MaxVersion
        BY <1>7 DEF EnterPublish
      <3> QED BY <1>1, <3>1, <3>2
    <2>3. req' = [req EXCEPT ![p] = op]
      BY <1>7 DEF EnterPublish
    <2> HIDE DEF v
    <2>4. op.kind = "publish" /\ op.v = v /\ op.aids = req[p].aids /\ req[p].kind = "publish"
      BY <2>1, <2>2 DEF PublishOp
    <2>5. InRange(op)
      BY <2>1, <2>2, <2>4 DEF InRange
    <2> QED BY <1>5, <2>3, <2>5
  <1>8. ASSUME NEW p \in Proc, Step(p) PROVE RequestsInRange'
    <2>1. CASE Enter(p) \/ PutVersion(p)
      BY <2>1 DEF Enter, PutVersion, RequestsInRange, InRange
    <2>2. CASE Write(p) \/ NotFound(p) \/ Fail(p)
      BY <1>4, <1>5, <2>2 DEF Write, NotFound, Fail, Leave
    <2> QED BY <1>7, <1>8, <2>1, <2>2 DEF Step
  <1>9. CASE UNCHANGED vars
    BY <1>9 DEF vars, RequestsInRange, InRange
  <1> QED BY <1>6, <1>8, <1>9 DEF Next

LEMMA RangeHolds == Spec => [](CommentInv /\ RequestsInRange)
  <1>1. Init => RequestsInRange
    BY DEF Init, RequestsInRange, InRange, NoOp
  <1> QED BY <1>1, RangeInv, InitInv, NextInv, PTL DEF Spec

\* After a publish the anchors of the comments its readers see are in the document or lost
\* (reconcile.go:184-247), whatever was reused, renamed or replaced.
THEOREM PublishedAnchorsResolve == Spec => AnchorsResolve
  <1> DEFINE Resolved ==
        \A p \in Proc : Write(p) /\ req[p].kind = "publish" =>
          \A i \in DOMAIN comments' :
             LET v    == req[p].v
                 a    == SnapshotAt(comments'[i], v).anchor
                 here == ByAID(req[p].aids, a.aid)
             IN  AliveAt(comments'[i], v) /\ a.kind = "element" =>
                    /\ \E x \in here : anchorMatchesArtifact(a, req[p].aids[x])
                    /\ i \in DOMAIN comments /\ knownAid(SnapshotAt(comments[i], v).anchor) = a.aid
                           => Cardinality(here) = 1
  <1>1. CommentInv /\ RequestsInRange => Resolved
    <2> SUFFICES ASSUME CommentInv, RequestsInRange, NEW p \in Proc, Write(p), req[p].kind = "publish",
                        NEW i \in DOMAIN comments',
                        AliveAt(comments'[i], req[p].v),
                        SnapshotAt(comments'[i], req[p].v).anchor.kind = "element"
                 PROVE  LET v    == req[p].v
                            a    == SnapshotAt(comments'[i], v).anchor
                            here == ByAID(req[p].aids, a.aid)
                        IN  /\ \E x \in here : anchorMatchesArtifact(a, req[p].aids[x])
                            /\ i \in DOMAIN comments /\ knownAid(SnapshotAt(comments[i], v).anchor) = a.aid
                                   => Cardinality(here) = 1
      OBVIOUS
    <2> DEFINE op == req[p]
               n == Append(<<op.n>>, i)
    <2>1. /\ op \in PublishOp
          /\ \E c \in StoredComment :
                /\ i \in Nat /\ Undrawn(c, Append(<<op.n>>, i))
                /\ i \in DOMAIN comments => c = comments[i]
                /\ comments'[i] = Republish(c, op, Append(<<op.n>>, i))
      BY PublishStores
    <2>2. op.n \in Nat /\ op.v \in Nat /\ op.aids \in Seq(ArtifactRecord) /\ op.pin \in PinRecord
      BY <2>1 DEF PublishOp
    <2>3. op.v # VersionLatest /\ op.aids \in Artifacts
      <3>1. op.v < VersionLatest /\ op.aids \in Artifacts
        BY DEF RequestsInRange, InRange
      <3> QED BY <2>2, <3>1, BoundAssumption
    <2>4. \A x \in DOMAIN op.aids : Lower[op.aids[x].tag] = op.aids[x].tag
      BY <2>3, InputAssumption
    <2>5. PICK c \in StoredComment :
              /\ i \in Nat /\ Undrawn(c, Append(<<op.n>>, i))
              /\ i \in DOMAIN comments => c = comments[i]
              /\ comments'[i] = Republish(c, op, Append(<<op.n>>, i))
      BY <2>1
    <2>6. AliveAt(comments'[i], op.v) /\ SnapshotAt(comments'[i], op.v).anchor.kind = "element"
      OBVIOUS
    <2>7. n \in Seq(Nat)
      BY <2>2, <2>5
    <2>8. Undrawn(c, n) /\ comments'[i] = Republish(c, op, n)
      BY <2>5
    <2> HIDE DEF op, n
    <2> DEFINE old == SnapshotAt(c, op.v).anchor
               new == SnapshotAt(comments'[i], op.v).anchor
    <2>9. old \in AnchorRecord /\ new = Reanchored(old, reconcileAnchor(old, op.aids, op.pin))
      BY <2>2, <2>3, <2>6, <2>7, <2>8, RepublishedAnchor
    <2>10. new.kind = "element"
      BY <2>6
    <2>11. i \in DOMAIN comments => old = SnapshotAt(comments[i], op.v).anchor
      BY <2>5
    <2> HIDE DEF old, new
    <2>12. Resolves(old, new, op.aids)
      BY <2>2, <2>4, <2>9, ReconcileResolves
    <2>13. /\ \E x \in ByAID(op.aids, new.aid) : anchorMatchesArtifact(new, op.aids[x])
           /\ knownAid(old) = new.aid => Cardinality(ByAID(op.aids, new.aid)) = 1
      BY <2>10, <2>12 DEF Resolves
    <2>14. i \in DOMAIN comments /\ knownAid(SnapshotAt(comments[i], op.v).anchor) = new.aid
              => Cardinality(ByAID(op.aids, new.aid)) = 1
      BY <2>11, <2>13
    <2> QED BY <2>13, <2>14 DEF op, new
  <1>2. CommentInv /\ RequestsInRange /\ [Next]_vars => [Resolved]_vars
    BY <1>1
  <1> QED BY <1>2, RangeHolds, PTL DEF Spec, AnchorsResolve

\* An operation on one comment appends its events to it and to no other.
LEMMA TargetedStores ==
    ASSUME CommentInv, NEW p \in Proc, Write(p), req[p].kind \notin Untargeted
    PROVE  LET op == req[p]
           IN  /\ op \in Targeted /\ op.n \in Nat /\ op.v \in Nat /\ list[p] = comments
               /\ DOMAIN comments' = DOMAIN comments /\ DOMAIN comments \subseteq Nat
               /\ \A i \in DOMAIN comments :
                     /\ comments[i] \in StoredComment /\ Undrawn(comments[i], <<op.n>>)
                     /\ comments'[i] = IF i \in Host(comments, op)
                                       THEN AppendEvents(comments[i], NewEvents(comments, i, op), <<op.n>>)
                                       ELSE comments[i]
  <1> DEFINE op == req[p]
             n == <<op.n>>
             l == comments
  <1>1. WriteFinds(p, op) /\ comments' = ApplyCommentOp(l, op, n)
    BY WriteStores
  <1>2. op \in Targeted
    BY <1>1, OpOfKind DEF WriteFinds
  <1>3. op.n \in Nat /\ op.v \in Nat
    <2>1. \A x \in Targeted : x.n \in Nat /\ x.v \in Nat
      <3>1. /\ \A x \in ReplyOp : x.n \in Nat /\ x.v \in Nat
            /\ \A x \in PatchOp : x.n \in Nat /\ x.v \in Nat
            /\ \A x \in DeleteOp : x.n \in Nat /\ x.v \in Nat
            /\ \A x \in ReactOp : x.n \in Nat /\ x.v \in Nat
            /\ \A x \in AgentOp : x.n \in Nat /\ x.v \in Nat
        BY DEF ReplyOp, PatchOp, DeleteOp, ReactOp, AgentOp
      <3> QED BY <3>1 DEF Targeted
    <2> QED BY <1>2, <2>1
  <1>4. comments' = [i \in DOMAIN l |->
                        IF i \in Host(l, op) THEN AppendEvents(l[i], NewEvents(l, i, op), n) ELSE l[i]]
    BY <1>1 DEF ApplyCommentOp, Untargeted
  <1>5. l \in Seq(StoredComment) /\ list[p] = l
    BY <1>1 DEF WriteFinds
  <1>6. ASSUME NEW i \in DOMAIN l PROVE l[i] \in StoredComment /\ Undrawn(l[i], n)
    <2>1. NotDrawn(l[i], op.n)
      BY <1>1 DEF WriteFinds, Unused, Without, NotDrawn
    <2> QED BY <1>3, <1>5, <2>1, Undrawn1
  <1>7. DOMAIN l \subseteq Nat
    BY <1>5
  <1> HIDE DEF op, n
  <1> QED BY <1>2, <1>3, <1>4, <1>5, <1>6, <1>7 DEF op, n

\* Reacting to a reply that is seen flips the reaction (comment.go:128), however often it
\* was made and taken back.
THEOREM ReactingToRepliesToggles == Spec => ReplyReactToggles
  <1> DEFINE Toggles ==
        \A p \in Proc : Stores(p) /\ req[p].kind = "react" =>
           \A i \in Host(list[p], req[p]) :
              ShownAt(i, req[p].target, req[p].v) => Flips(p, LAMBDA j : req[p].target)
  <1>1. CommentInv /\ RequestsInRange /\ [Next]_vars => [Toggles]_vars
    <2> SUFFICES ASSUME CommentInv, RequestsInRange, [Next]_vars,
                        NEW p \in Proc, Stores(p), req[p].kind = "react",
                        NEW i \in Host(list[p], req[p]),
                        ShownAt(i, req[p].target, req[p].v)
                 PROVE  Flips(p, LAMBDA j : req[p].target)
      OBVIOUS
    <2> DEFINE op == req[p]
               rid == op.target
               v == op.v
               c == comments[i]
               n == <<op.n>>
               seen(d) == <<op.emoji, op.by>> \in reactionsOf(SnapshotAt(d, v), rid)
    <2>1. /\ op \in Targeted /\ op.n \in Nat /\ op.v \in Nat /\ list[p] = comments
          /\ DOMAIN comments' = DOMAIN comments /\ DOMAIN comments \subseteq Nat
          /\ \A x \in DOMAIN comments :
                /\ comments[x] \in StoredComment /\ Undrawn(comments[x], <<op.n>>)
                /\ comments'[x] = IF x \in Host(comments, op)
                                  THEN AppendEvents(comments[x], NewEvents(comments, x, op), <<op.n>>)
                                  ELSE comments[x]
      BY StoresIsWrite, TargetedStores DEF Untargeted
    <2>2. op \in ReactOp
      <3>1. /\ \A x \in ReplyOp : x.kind = "reply"
            /\ \A x \in PatchOp : x.kind = "patch_anchor"
            /\ \A x \in DeleteOp : x.kind = "delete"
            /\ \A x \in AgentOp : x.kind = "agent"
        BY DEF ReplyOp, PatchOp, DeleteOp, AgentOp
      <3> QED BY <2>1, <3>1 DEF Targeted
    <2>3. rid \in Nat \ {0} /\ v \in Nat /\ n \in Seq(Nat) /\ op.kind = "react"
      BY <2>1, <2>2 DEF ReactOp
    <2>4. v # VersionLatest
      <3>1. v < VersionLatest
        BY DEF RequestsInRange, InRange
      <3> QED BY <2>3, <3>1
    <2>5. /\ FindHost(comments, rid) # {} /\ i = FirstOf(FindHost(comments, rid))
          /\ \A x \in Host(comments, op) : x = i
      BY <2>1, <2>3 DEF Host
    <2>6. FindHost(comments, rid) \subseteq DOMAIN comments
      BY DEF FindHost, IndexOf, ReplyHosts
    <2>7. i \in FindHost(comments, rid)
      <3> DEFINE S == FindHost(comments, rid)
      <3>1. S \in SUBSET Nat /\ S # {} /\ i = FirstOf(S)
        BY <2>1, <2>5, <2>6
      <3> HIDE DEF S
      <3>2. \E m \in S : \A x \in S : m <= x
        BY <3>1, LeastOf
      <3>3. FirstOf(S) \in S
        BY <3>2 DEF FirstOf
      <3> QED BY <3>1, <3>3 DEF S
    <2>8. i \in DOMAIN comments /\ c \in StoredComment /\ Undrawn(c, n)
          /\ comments'[i] = AppendEvents(c, NewEvents(comments, i, op), n)
      BY <2>1, <2>6, <2>7
    <2>9. HasReply(SnapshotAt(c, v), rid)
      BY DEF ShownAt
    <2>10. \E k \in DOMAIN c.events : c.events[k].kind = "reply_added" /\ c.events[k].rid = rid
      <3> DEFINE q == replay(c, v)
      <3>1. c.events \in Seq(EventRecord)
        BY <2>8, StoredLog
      <3>2. q \in SnapshotRecord /\ RepliesFrom(q, AddedReplies(c.events))
        BY <3>1, RepliesWereAdded
      <3>3. HasReply(finalize(q), rid) <=> \E r \in Seen(q) : r.id = rid
        <4> HIDE DEF q, rid
        <4> QED BY <2>3, <3>2, RepliesHeld
      <3>4. \E r \in Seen(q) : r.id = rid
        BY <2>9, <3>3 DEF SnapshotAt
      <3>5. rid \in AddedReplies(c.events)
        <4> HIDE DEF q, rid, c
        <4> QED BY <3>2, <3>4 DEF Seen, RepliesFrom
      <3> HIDE DEF rid, c
      <3> QED BY <3>5 DEF AddedReplies
    <2>11. NamesReply(comments, rid)
      <3>1. ReplyHosts(comments, rid) # {}
        BY <2>8, <2>10 DEF ReplyHosts
      <3>2. ASSUME IndexOf(comments, rid) # {} PROVE FALSE
        <4>1. c.id = rid
          BY <2>7, <3>2 DEF FindHost, IndexOf
        <4>2. OwnIds(c)
          BY <2>8 DEF CommentInv, RepliesApart
        <4> QED BY <2>10, <4>1, <4>2 DEF OwnIds
      <3> QED BY <3>1, <3>2 DEF NamesReply
    <2> DEFINE had == seen(c)
               kind == IF had THEN "reply_reaction_removed" ELSE "reply_reaction_added"
               e == [Event(kind, v) EXCEPT !.emoji = op.emoji, !.by = op.by, !.rid = rid]
    <2>12. NewEvents(comments, i, op) = <<e>>
      <3>1. NewEvents(comments, i, op) = opReactEvents(comments, c, op)
        BY <2>3 DEF NewEvents
      <3>2. rid # 0
        BY <2>3
      <3> QED BY <2>11, <3>1, <3>2 DEF opReactEvents
    <2>13. /\ e.kind = kind /\ e.atv = v /\ e.rid = rid /\ e.emoji = op.emoji /\ e.by = op.by
           /\ e \in Draft
      <3>1. op.emoji \in STRING /\ op.by \in STRING /\ rid \in Nat
        BY <2>2 DEF ReactOp
      <3>2. kind \in STRING
        <4>1. "reply_reaction_added" \in STRING /\ "reply_reaction_removed" \in STRING
          BY WordsAssumption DEF Words
        <4> HIDE DEF had
        <4> QED BY <4>1
      <3> HIDE DEF kind
      <3>3. Event(kind, v) \in Draft /\ Event(kind, v).kind = kind /\ Event(kind, v).atv = v
        BY <2>3, <3>2, EventTyped
      <3> HIDE DEF v, rid, op
      <3> QED BY <3>1, <3>3 DEF Draft, EventRecord
    <2>14. seen(comments'[i]) <=> ~had
      <3> HIDE DEF e
      <3>1. <<e.emoji, e.by>> = <<op.emoji, op.by>>
        BY <2>13
      <3>2. e.kind = IF had THEN "reply_reaction_removed" ELSE "reply_reaction_added"
        BY <2>13
      <3>3. comments'[i] = AppendEvents(c, <<e>>, n)
        BY <2>8, <2>12
      <3>4. had = MarkSeen(c, v, e)
        BY <2>13, <3>1 DEF MarkSeen
      <3>5. Reacts(c, v, e)
        <4>1. HasReply(SnapshotAt(c, v), e.rid) /\ e.rid # 0 /\ e.atv = v /\ v # VersionLatest
          BY <2>3, <2>4, <2>9, <2>13
        <4> HIDE DEF had, v, c
        <4> QED BY <3>2, <3>4, <4>1 DEF Reacts
      <3> HIDE DEF had, v, n, c, rid, op
      <3>6. MarkSeen(AppendEvents(c, <<e>>, n), v, e) <=> ~had
        BY <2>3, <2>4, <2>8, <2>13, <3>4, <3>5, ReplyReactionFlips
      <3>7. seen(comments'[i]) <=> MarkSeen(AppendEvents(c, <<e>>, n), v, e)
        BY <2>13, <3>1, <3>3 DEF MarkSeen
      <3> QED BY <3>6, <3>7
    <2> HIDE DEF had
    <2>15. ASSUME NEW x \in Kept, x \in Host(list[p], req[p])
           PROVE  LET mark == <<req[p].emoji, req[p].by>>
                      was  == mark \in reactionsOf(SnapshotAt(comments[x], req[p].v), req[p].target)
                      has  == mark \in reactionsOf(SnapshotAt(comments'[x], req[p].v), req[p].target)
                  IN  has # was
      <3>1. x = i
        BY <2>1, <2>5, <2>15
      <3> QED BY <2>14, <3>1 DEF had
    <2> QED BY <2>15 DEF Flips
  <1> QED BY <1>1, RangeHolds, PTL DEF Spec, ReplyReactToggles

-------------------------------------------------------------------------------
(* What readers of earlier versions see.                                   *)

LEMMA AlikeIsContent ==
    ASSUME NEW q \in SnapshotRecord, NEW r \in SnapshotRecord, AlikeContent(q, r)
    PROVE  Content(finalize(q)) = Content(finalize(r))
  <1> DEFINE a == finalize(q)
             b == finalize(r)
  <1>1. /\ a.anchor = q.anchor /\ a.status = q.status /\ a.appliedIn = q.appliedIn
        /\ a.deleted = q.deleted /\ a.replies = FinalReplies(q)
    BY FinalizeFields
  <1>2. /\ b.anchor = r.anchor /\ b.status = r.status /\ b.appliedIn = r.appliedIn
        /\ b.deleted = r.deleted /\ b.replies = FinalReplies(r)
    BY FinalizeFields
  <1>3. a.replies \in Seq(ReplyRecord) /\ b.replies \in Seq(ReplyRecord)
    BY FinalRepliesSeen
  <1>4. q.replies \in Seq(ReplyRecord) /\ r.replies \in Seq(ReplyRecord)
    BY DEF SnapshotRecord
  <1>5. AlikeReplies(FinalReplies(q), FinalReplies(r))
    <2>1. AlikeReplies(q.replies, r.replies)
      BY DEF AlikeContent
    <2> QED BY <1>4, <2>1, FinalRepliesAlike DEF FinalReplies
  <1> HIDE DEF a, b
  <1>6. Len(b.replies) = Len(a.replies)
        /\ \A k \in 1 .. Len(a.replies) : AlikeReply(a.replies[k], b.replies[k])
    BY <1>1, <1>2, <1>5 DEF AlikeReplies
  <1> DEFINE Told(x) == [i \in DOMAIN x.replies |-> <<x.replies[i].id, x.replies[i].verdict>>]
  <1>7. Told(a) = Told(b)
    <2>1. DOMAIN a.replies = 1 .. Len(a.replies) /\ DOMAIN b.replies = 1 .. Len(a.replies)
      BY <1>3, <1>6
    <2>2. \A k \in 1 .. Len(a.replies) : b.replies[k].id = a.replies[k].id
                                         /\ b.replies[k].verdict = a.replies[k].verdict
      BY <1>6 DEF AlikeReply
    <2> QED BY <2>1, <2>2
  <1>8. /\ b.anchor = a.anchor /\ b.status = a.status /\ b.appliedIn = a.appliedIn
        /\ b.deleted = a.deleted
    BY <1>1, <1>2 DEF AlikeContent
  <1>9. \A x : Content(x) = [anchor |-> x.anchor, status |-> x.status, appliedIn |-> x.appliedIn,
                             deleted |-> x.deleted, replies |-> Told(x)]
    BY DEF Content
  <1> HIDE DEF Told
  <1>10. Content(a) = Content(b)
    BY <1>7, <1>8, <1>9
  <1> QED BY <1>10 DEF a, b

\* An operation on one comment is of its own version.
LEMMA TargetedKeepsPast ==
    ASSUME CommentInv, NEW p \in Proc, Write(p), req[p].kind \notin Untargeted,
           NEW i \in DOMAIN comments, NEW w \in Nat, w < req[p].v
    PROVE  Content(SnapshotAt(comments[i], w)) = Content(SnapshotAt(comments'[i], w))
  <1> DEFINE op == req[p]
             c == comments[i]
             n == <<op.n>>
             evs == NewEvents(comments, i, op)
  <1>1. /\ op \in Targeted /\ op.n \in Nat /\ op.v \in Nat /\ c \in StoredComment /\ Undrawn(c, n)
        /\ comments'[i] = IF i \in Host(comments, op) THEN AppendEvents(c, evs, n) ELSE c
    BY TargetedStores
  <1>2. CASE i \notin Host(comments, op)
    BY <1>1, <1>2
  <1>3. CASE i \in Host(comments, op)
    <2>1. evs \in Seq(DraftOf(op))
      <3> HIDE DEF op
      <3> QED BY <1>1, NewEventsTyped
    <2>2. w < op.v
      OBVIOUS
    <2> HIDE DEF op, evs
    <2>3. evs \in Seq(Draft) /\ Later(evs, w)
      <3>1. DraftOf(op) \subseteq Draft
        BY DEF DraftOf
      <3>2. \A k \in 1 .. Len(evs) : evs[k].atv = op.v
        <4>1. \A k \in 1 .. Len(evs) : evs[k] \in DraftOf(op)
          BY <2>1
        <4> QED BY <4>1 DEF DraftOf
      <3>3. \A k \in 1 .. Len(evs) : evs[k].atv > w
        BY <1>1, <2>2, <3>2
      <3>4. evs \in Seq(Draft)
        BY <2>1, <3>1
      <3> QED BY <3>3, <3>4 DEF Later
    <2>4. n \in Seq(Nat)
      BY <1>1
    <2> DEFINE d == AppendEvents(c, evs, n)
               q == replay(c, w)
               r == replay(d, w)
    <2> HIDE DEF n, c
    <2>5. <<q, r>> \in SameContent
      BY <1>1, <2>3, <2>4, LaterKeepsContent
    <2>6. comments'[i] = d
      BY <1>1, <1>3
    <2> HIDE DEF q, r, d
    <2>7. Content(finalize(q)) = Content(finalize(r))
      BY <2>5, ContentRelation, AlikeIsContent
    <2> QED BY <2>6, <2>7 DEF q, r, c, SnapshotAt
  <1> QED BY <1>2, <1>3

\* Nothing that is stamped with a version changes what readers of an earlier one see of a
\* comment's anchor, status, replies or deletion (docs/ARCHITECTURE.md: reading "as of
\* version N" folds at_version <= N).
THEOREM PastIsStable == Spec => PastContentStable
  <1> DEFINE Stable ==
        \A p \in Proc : Stores(p) /\ req[p].kind # "wipe" =>
           \A i \in Kept, w \in 1 .. MaxVersion :
              w < req[p].v => Content(SnapshotAt(comments[i], w)) = Content(SnapshotAt(comments'[i], w))
  <1>1. CommentInv /\ [Next]_vars => [Stable]_vars
    <2> SUFFICES ASSUME CommentInv, [Next]_vars, NEW p \in Proc, Stores(p), req[p].kind # "wipe",
                        NEW i \in Kept, NEW w \in 1 .. MaxVersion, w < req[p].v
                 PROVE  Content(SnapshotAt(comments[i], w)) = Content(SnapshotAt(comments'[i], w))
      OBVIOUS
    <2>1. Write(p)
      BY StoresIsWrite
    <2>2. w \in Nat /\ i \in DOMAIN comments /\ i \in DOMAIN comments'
      BY DEF Kept
    <2>3. CASE req[p].kind \notin Untargeted
      BY <2>1, <2>2, <2>3, TargetedKeepsPast
    <2>4. CASE req[p].kind = "create"
      <3> DEFINE x == NewComment(req[p].id, req[p].by, req[p].anchor, req[p].v, <<req[p].n>>)
      <3>1. comments' = ApplyCommentOp(comments, req[p], <<req[p].n>>)
        BY <2>1, WriteStores
      <3>2. comments' = Append(comments, x)
        BY <2>4, <3>1 DEF ApplyCommentOp, opCreate
      <3>3. comments \in Seq(StoredComment)
        BY DEF CommentInv, CommentTypes
      <3> HIDE DEF x
      <3>4. comments'[i] = comments[i]
        <4>1. i \in 1 .. Len(comments)
          BY <2>2, <3>3
        <4> QED BY <3>2, <3>3, <4>1
      <3> QED BY <3>4
    <2>5. CASE req[p].kind = "publish"
      <3> DEFINE op == req[p]
                 n == Append(<<op.n>>, i)
                 c == comments[i]
                 old == SnapshotAt(c, w)
                 new == SnapshotAt(comments'[i], w)
      <3>1. /\ op \in PublishOp /\ i \in Nat /\ c \in StoredComment /\ Undrawn(c, n)
            /\ comments'[i] = Republish(c, op, n)
        BY <2>1, <2>2, <2>5, PublishStores
      <3>2. op.n \in Nat /\ op.v \in Nat /\ op.aids \in Seq(ArtifactRecord) /\ op.pin \in PinRecord
        BY <3>1 DEF PublishOp
      <3>3. n \in Seq(Nat)
        BY <3>1, <3>2
      <3>4. w < op.v
        OBVIOUS
      <3> HIDE DEF op, c, n
      <3>5. Spares(old, new, w < op.v)
        BY <2>2, <3>1, <3>2, <3>3, PublishedSnapshot
      <3> HIDE DEF old, new
      <3>6. new = old
        BY <3>4, <3>5 DEF Spares
      <3> QED BY <3>6 DEF old, new, c
    <2> QED BY <2>3, <2>4, <2>5 DEF Untargeted
  <1> QED BY <1>1, CommentInvHolds, PTL DEF Spec, PastContentStable
===============================================================================
