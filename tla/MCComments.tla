------------------------------ MODULE MCComments ------------------------------
(* Instances of CommentService.  A mix is what the clients of one behaviour  *)
(* do: it is chosen initially, and a request outside it is not made.         *)
EXTENDS CommentProperties, TLC

MCLower == [x \in {"", "p", "P", "h1", "element"} |-> IF x = "P" THEN "p" ELSE x]
MCAgentEmoji == [applied |-> "check", partial |-> "circle", question |-> "mark"]

Element(aid, label, fp, head) ==
    [kind |-> "element", aid |-> aid, label |-> label, fp |-> fp, head |-> head, reason |-> ""]
TextQuote == [NoAnchor EXCEPT !.kind = "text"]

Art(aid, tag, heading, legacy) ==
    [aid |-> aid, tag |-> tag, heading |-> heading, legacy |-> legacy]

MCPlainAnchor == {TextQuote}
MCAnchors == {Element("a", "P", "", "intro"), Element("a", "p", "P", ""), TextQuote}

\* No artifacts, or the paragraph a comment is anchored to and then a document
\* where it is gone, renamed or doubled.
MCNoArtifacts == {<<>>}
MCArtifacts ==
    { <<>>,
      <<Art("a", "p", "intro", {}), Art("b", "h1", "intro", {})>>,   \* unchanged
      <<Art("b", "p", "intro", {})>>,                                \* one candidate
      <<Art("b", "p", "", {"a"}), Art("c", "p", "", {})>>,           \* renamed
      <<Art("a", "p", "", {}), Art("b", "h1", "", {"a"})>>,          \* ambiguous
      <<Art("a", "p", "intro", {}), Art("a", "p", "", {})>>,         \* doubled
      <<Art("b", "p", "intro", {}), Art("b", "p", "", {})>>,         \* renamed and doubled
      <<Art("a", "h1", "", {})>> }                                   \* another tag

MCNoPins == {NoPin}
MCPins == {NoPin, [aid |-> "a", tag |-> "p", canonical |-> "b", migrating |-> TRUE],
           [aid |-> "a", tag |-> "h1", canonical |-> "a", migrating |-> TRUE]}

\* A local comment, sent twice.
Local(id, v) ==
    [id |-> id, author |-> "u1", createdIn |-> v,
     events |-> <<[Event("created", v) EXCEPT !.anchor = TextQuote]>>]
MCNoLocals == {<<>>}
MCLocals == {<<>>, <<Local(50, 1), Local(50, 2)>>}

-------------------------------------------------------------------------------
CONSTANTS p1, p2

VARIABLE mix

Mix(procs, logins, kinds, n, anchors, aids, pins, locals) ==
    [procs |-> procs, logins |-> logins, kinds |-> kinds, ops |-> n, anchors |-> anchors,
     aids |-> aids, pins |-> pins, locals |-> locals]

Plain(procs, logins, kinds, n) ==
    Mix(procs, logins, kinds, n, MCPlainAnchor, MCNoArtifacts, MCNoPins, MCNoLocals)

\* Two handlers at once; the kinds of operation after each other; reactions made
\* and taken back by two users; anchors over documents that change.
HistoryMixes ==
    { [Plain({p1, p2}, {"u1"}, {"create", "reply", "delete", "wipe", "publish"}, 3)
          EXCEPT !.locals = MCLocals],
      Plain({p1}, {"u1"}, {"create", "reply", "patch_anchor", "delete", "agent", "publish"}, 4),
      Plain({p1}, {"u1", "u2"}, {"create", "reply", "react"}, 5),
      Mix({p1}, {"u1"}, {"create", "publish"}, 3, MCAnchors, MCArtifacts \ {<<>>}, MCPins,
          MCNoLocals),
      Mix({p1}, {"u1"}, {"create", "publish"}, 4, {Element("a", "P", "", "intro")},
          MCArtifacts \ {<<>>}, MCNoPins, MCNoLocals) }

\* A reaction on a comment, made, taken back and made again.
ToggleMixes == { Plain({p1}, {"u1"}, {"create", "react"}, 4) }

CONSTANT Mixes

\* An operation without the field is not restricted by it.
Within(op, field, S) == field \in DOMAIN op => op[field] \in S

Made(op) ==
    /\ Within(op, "by", mix.logins)
    /\ Within(op, "anchor", mix.anchors)
    /\ Within(op, "aids", mix.aids)
    /\ Within(op, "pin", mix.pins)
    /\ Within(op, "locals", mix.locals \cup {<<comments[i]>> : i \in DOMAIN comments})

MCInit == Init /\ mix \in Mixes

MCNext ==
    /\ \E p \in mix.procs : \/ ops < mix.ops /\ Request(p, mix.kinds) /\ Made(req'[p])
                            \/ Step(p)
    /\ UNCHANGED mix

MCSpec == MCInit /\ [][MCNext]_<<vars, mix>>
===============================================================================
