-------------------------------- MODULE Stamp --------------------------------
(* The stamper: which elements of a document get an identity, which one, and  *)
(* where it is written.  A document is a sequence of pieces - open tags with  *)
(* their attribute text, close tags, text and comment marks - and the byte    *)
(* offsets of the code are positions of pieces.  Unterminated tags, letter    *)
(* case, tag names with odd characters and the excerpt of an artifact are     *)
(* left out.                                                                  *)
EXTENDS OpenTag

Piece(kind, tag, text) == [kind |-> kind, tag |-> tag, text |-> text]
Open(tag, text) == Piece("open", tag, text)
Close(tag)      == Piece("close", tag, <<>>)
Text(word)      == Piece("text", word, <<>>)
CommentStart    == Piece("<!--", "", <<>>)
CommentEnd      == Piece("-->", "", <<>>)

stampableTags == {"img", "svg", "canvas", "video", "pre", "figure", "iframe",
                  "section", "aside", "blockquote", "table", "details"}
rawTextTags   == {"script", "style", "textarea", "title"}
voidTags      == {"area", "base", "br", "col", "embed", "hr", "img", "input",
                  "link", "meta", "param", "source", "track", "wbr"}
foreignRoots  == {"svg", "math"}

\* foreignBreakoutStart, without <font>: these tags end foreign content.
breakoutTags ==
    {"b", "big", "blockquote", "body", "br", "center", "code", "dd", "div", "dl", "dt",
     "em", "embed", "h1", "h2", "h3", "h4", "h5", "h6", "head", "hr", "i", "img",
     "li", "listing", "menu", "meta", "nobr", "ol", "p", "pre", "ruby", "s", "small",
     "span", "strong", "strike", "sub", "sup", "table", "tt", "u", "ul", "var"}

-------------------------------------------------------------------------------
\* scanOpenTags: the open tags that are elements, each with the position of its
\* close tag (its own if it has none) and the namespace it is in.
RootNamespace(tag) == IF tag \in foreignRoots THEN tag ELSE "html"

\* namespaceForChild: the integration points of foreign content.
IntegrationPoint(parent, childTag) ==
    \/ parent.popped
    \/ parent.ns = "svg" /\ parent.tag \in {"foreignobject", "desc", "title"}
    \/ /\ parent.ns = "math"
       /\ parent.tag \in {"mi", "mo", "mn", "ms", "mtext"}
       /\ childTag \notin {"mglyph", "malignmark"}
    \/ parent.ns = "math" /\ parent.tag = "annotation-xml" /\ parent.annotationHTML

NamespaceForChild(parent, childTag) ==
    IF parent.ns = "math" /\ parent.tag = "annotation-xml" /\ childTag = "svg" THEN "svg"
    ELSE IF parent.ns = "html" \/ IntegrationPoint(parent, childTag)
         THEN RootNamespace(childTag)
         ELSE parent.ns

NewScan == [opens |-> <<>>, stack |-> <<>>, mode |-> "data", raw |-> 0]

Top(s) == s.opens[s.stack[Len(s.stack)]]

\* popForeign: mark the foreign elements on top of the stack as left.
Foreign(s, tag) ==
    {k \in DOMAIN s.stack :
        \A j \in k..Len(s.stack) : NamespaceForChild(s.opens[s.stack[j]], tag) # "html"}

PopForeign(s, tag) ==
    LET left == {s.stack[k] : k \in Foreign(s, tag)} IN
    [s EXCEPT !.opens = [i \in DOMAIN s.opens |->
                            IF i \in left THEN [s.opens[i] EXCEPT !.popped = TRUE]
                            ELSE s.opens[i]]]

\* Close the element at place k of the stack; what is above it goes as well.
CloseAt(s, k, at) ==
    [s EXCEPT !.opens[s.stack[k]].close = at, !.stack = SubSeq(s.stack, 1, k - 1)]

CloseTag(s, tag, at) ==
    LET same  == {k \in DOMAIN s.stack : s.opens[s.stack[k]].tag = tag}
        onTop == Len(s.stack) \in same
        popped == IF ~onTop /\ tag \in {"p", "br"} THEN PopForeign(s, tag) ELSE s
    IN  IF (popped # s /\ tag = "br") \/ same = {}
        THEN popped
        ELSE CloseAt(popped, CHOOSE k \in same : \A j \in same : j <= k, at)

NewElement(piece, at, ns) ==
    [at |-> at, close |-> at, tag |-> piece.tag, text |-> piece.text, ns |-> ns, popped |-> FALSE,
     annotationHTML |-> /\ ns = "math"
                        /\ piece.tag = "annotation-xml"
                        /\ <<TextHTML>> \in AttrValue(piece.text, Encoding)]

PushElement(s, piece, at, ns) ==
    LET n      == Len(s.opens) + 1
        raw    == ns = "html" /\ piece.tag \in rawTextTags
        pushed == /\ ~raw
                  /\ ~(ns # "html" /\ SelfCloses(piece.text))
                  /\ ~(ns = "html" /\ piece.tag \in voidTags)
    IN  [s EXCEPT !.opens = Append(@, NewElement(piece, at, ns)),
                  !.stack = IF pushed THEN Append(@, n) ELSE @,
                  !.mode  = IF raw THEN "raw" ELSE "data",
                  !.raw   = IF raw THEN n ELSE 0]

\* In its parent's namespace, unless its tag ends foreign content.
OpenElement(s, piece, at) ==
    LET tag    == piece.tag
        inside == IF s.stack = <<>> THEN RootNamespace(tag) ELSE NamespaceForChild(Top(s), tag)
    IN  IF inside # "html" /\ s.stack # <<>> /\ tag \in breakoutTags
        THEN PushElement(PopForeign(s, tag), piece, at, "html")
        ELSE PushElement(s, piece, at, inside)

ScanPiece(s, piece, at) ==
    CASE s.mode = "comment" ->
            IF piece.kind = "-->" THEN [s EXCEPT !.mode = "data"] ELSE s
      [] s.mode = "raw" ->
            IF piece = Close(s.opens[s.raw].tag)
            THEN [s EXCEPT !.opens[s.raw].close = at, !.mode = "data", !.raw = 0] ELSE s
      [] s.mode = "data" /\ piece.kind = "<!--"  -> [s EXCEPT !.mode = "comment"]
      [] s.mode = "data" /\ piece.kind = "open"  -> OpenElement(s, piece, at)
      [] s.mode = "data" /\ piece.kind = "close" -> CloseTag(s, piece.tag, at)
      [] OTHER -> s

scanOpenTags(html) ==
    LET scan[i \in 0..Len(html)] ==
            IF i = 0 THEN NewScan ELSE ScanPiece(scan[i - 1], html[i], i)
    IN  scan[Len(html)].opens

-------------------------------------------------------------------------------
\* collectHeadings: each heading of a level runs to the first close tag of that
\* level, wherever the two stand; an artifact's heading is the last one that
\* ends before it (<<>> if none).
Headings(html, level) ==
    LET scan[i \in 0..Len(html)] ==
            IF i = 0 THEN [from |-> 0, found |-> {}]
            ELSE LET before == scan[i - 1] IN
                 CASE before.from = 0 /\ html[i].kind = "open" /\ html[i].tag = level ->
                        [before EXCEPT !.from = i]
                   [] before.from # 0 /\ html[i] = Close(level) ->
                        [from |-> 0, found |-> before.found \cup {<<before.from, i>>}]
                   [] OTHER -> before
    IN  scan[Len(html)].found

TextOf(pieces) == SelectSeq(pieces, LAMBDA piece : piece.kind = "text")

collectHeadings(html) == UNION {Headings(html, level) : level \in {"h1", "h2", "h3"}}

nearestHeadingAt(html, headings, at) ==
    LET before == {h \in headings : h[2] < at} IN
    {TextOf(SubSeq(html, h[1], h[2])) : h \in {b \in before : \A c \in before : c[2] <= b[2]}}

-------------------------------------------------------------------------------
\* aidFor: the hash of the tag, its intrinsic attributes and its content without
\* comments, without the stamper's attributes and with single spaces.  Different
\* contents have different hashes here.
WithoutComments(pieces) ==
    LET n == Len(pieces)
        Ends(i) == {j \in i..n : pieces[j].kind = "-->"}
        Commented == {i \in 1..n :
                        \E j \in 1..i : /\ pieces[j].kind = "<!--"
                                        /\ Ends(j) # {}
                                        /\ \A k \in Ends(j) : i <= k}
    IN  Subsequence(pieces, (1..n) \ Commented)

OdocAttr(text, i, j) ==
    /\ i + 4 <= j
    /\ text[i] = Space
    /\ text[i + 1] \in {AIDName, Marker}
    /\ text[i + 2] = Equals
    /\ text[i + 3] = DQuote
    /\ text[j] = DQuote
    /\ \A k \in (i + 4)..(j - 1) : text[k] # DQuote

OdocAttrs(text) == {w \in (1..Len(text)) \X (1..Len(text)) : OdocAttr(text, w[1], w[2])}

Normal(text) ==
    LET plain == Subsequence(text, DOMAIN text \ UNION {w[1]..w[2] : w \in OdocAttrs(text)}) IN
    Subsequence(plain, {i \in DOMAIN plain : plain[i] # Space \/ i = 1 \/ plain[i - 1] # Space})

Content(inner) ==
    LET kept == WithoutComments(inner) IN
    [i \in DOMAIN kept |-> [kept[i] EXCEPT !.text = Normal(kept[i].text)]]

aidFor(tag, inner, text) == <<"aid", tag, Intrinsics(text), Content(inner)>>

\* saltAwayFromPinned: a hash that is the pinned identity moves away from it.
NoAID == <<"none">>

saltAwayFromPinned(tag, inner, text, pinnedAID) ==
    LET aid == aidFor(tag, inner, text) IN
    IF aid = pinnedAID THEN <<"salted", tag, text, inner>> ELSE aid

-------------------------------------------------------------------------------
\* harvest
IsVoid(e) == e.ns = "html" /\ e.tag \in voidTags

Inner(html, e) ==
    IF IsVoid(e) \/ (e.ns # "html" /\ SelfCloses(e.text)) THEN <<>>
    ELSE SubSeq(html, e.at + 1, e.close - 1)

CloseEnd(e) ==
    IF IsVoid(e) \/ (e.ns # "html" /\ SelfCloses(e.text)) THEN e.at ELSE e.close

IsHarvested(e) == e.tag \in stampableTags \/ HasOptInMarker(e.text)

\* A bug: grouped by the tag list, as they are collected.
HarvestByMarker(html, pinnedAt) ==
    LET opens == scanOpenTags(html) IN
    SelectSeq(opens, LAMBDA e : e.at = pinnedAt)
      \o SelectSeq(opens, LAMBDA e : e.at # pinnedAt /\ IsHarvested(e))

\* The harvested elements in document order; a pinned one is harvested whatever
\* its tag is.
Harvest(html, pinnedAt) ==
    LET opens == scanOpenTags(html) IN
    Subsequence(opens, {i \in DOMAIN opens : opens[i].at = pinnedAt \/ IsHarvested(opens[i])})

\* A bug: the exposed slash is left as it is.
CleanedBare(e) == StripAID(e.text)

\* stripAllAIDs: an attribute taken out may leave a slash that closes a tag
\* which did not close itself; a space keeps it from doing so.
Cleaned(e) ==
    LET text == StripAID(e.text) IN
    IF /\ text # e.text
       /\ ~SelfCloses(e.text)
       /\ SelfCloses(text)
       /\ (e.ns # "html" \/ e.tag \in voidTags)
    THEN Append(text, Space) ELSE text

\* Give the tags of these elements the text that they have here.
Rewrite(html, elements) ==
    LET out[i \in 0..Len(elements)] ==
            IF i = 0 THEN html
            ELSE [out[i - 1] EXCEPT ![elements[i].at].text = elements[i].text]
    IN  out[Len(elements)]

CleanedTags(opens) == [i \in DOMAIN opens |-> [opens[i] EXCEPT !.text = Cleaned(opens[i])]]

stripAllAIDs(html) == Rewrite(html, CleanedTags(scanOpenTags(html)))

-------------------------------------------------------------------------------
\* stampAids.  The pinned element is found by its number among the open tags,
\* before and after the identities are stripped (NoPin: there is none).
NoPin == 0

PinnedAt(before, after, at) ==
    LET n == {i \in DOMAIN before : before[i].at = at}
    IN  IF \E i \in n : i \in DOMAIN after
        THEN after[CHOOSE i \in n : i \in DOMAIN after].at
        ELSE at

\* What an element becomes: its identity, its entry in the index and the text of
\* its tag.
Artifact(html, e, headings, pinnedAID, at) ==
    LET text == StripAID(e.text)
        aid  == IF pinnedAID # NoAID /\ e.at = at THEN pinnedAID
                ELSE saltAwayFromPinned(e.tag, Inner(html, e), text, pinnedAID)
        selfClose == \/ IsVoid(e) /\ SelfCloses(text)
                     \/ e.ns # "html" /\ CloseEnd(e) = e.at /\ SelfCloses(e.text)
    IN  [at |-> e.at, aid |-> aid, tag |-> e.tag,
         heading |-> nearestHeadingAt(html, headings, e.at),
         legacy |-> IF e.tag = "iframe" THEN {aidFor("iframe", <<>>, text)} \ {aid} ELSE {},
         text |-> StampedOpenTag(text, aid, selfClose)]

ArtifactsOf(html, elements, headings, pinnedAID, at) ==
    LET out[i \in 0..Len(elements)] ==
            IF i = 0 THEN <<>>
            ELSE Append(out[i - 1], Artifact(html, elements[i], headings, pinnedAID, at))
    IN  out[Len(elements)]

Stamped(html, artifacts) ==
    [html |-> Rewrite(html, artifacts),
     aids |-> [i \in DOMAIN artifacts |->
                  [aid |-> artifacts[i].aid, tag |-> artifacts[i].tag,
                   heading |-> artifacts[i].heading, legacy |-> artifacts[i].legacy]]]

\* An identity is pinned while its element is harvested.
StampElements(html, elements, pinnedAID, at) ==
    LET active == IF \E i \in DOMAIN elements : elements[i].at = at THEN pinnedAID ELSE NoAID
    IN  Stamped(html, ArtifactsOf(html, elements, collectHeadings(html), active, at))

StampAt(html, pinnedAID, at) == StampElements(html, Harvest(html, at), pinnedAID, at)

StampStripped(raw, html, pinnedAID, offset) ==
    StampAt(html, pinnedAID,
            IF pinnedAID = NoAID THEN NoPin
            ELSE PinnedAt(scanOpenTags(raw), scanOpenTags(html), offset))

stampAids(raw, pinnedAID, pinnedOffset) ==
    StampStripped(raw, stripAllAIDs(raw), pinnedAID, pinnedOffset)

StampAids(raw) == stampAids(raw, NoAID, NoPin)

-------------------------------------------------------------------------------
\* ElementByAID, ReplaceElementByAIDAt: the first element in document order
\* whose tag holds the identity, found by a pattern in the text of the tag;
\* {} if there is none.
AidMatch(text, i, j) ==
    /\ i + 3 <= j
    /\ text[i] = AIDName
    /\ text[i + 1] = Equals
    /\ text[i + 2] = DQuote
    /\ text[j] = DQuote
    /\ \A k \in (i + 3)..(j - 1) : text[k] # DQuote

AidValues(text) ==
    LET found == {w \in (1..Len(text)) \X (1..Len(text)) : AidMatch(text, w[1], w[2])}
    IN  {SubSeq(text, w[1] + 3, w[2] - 1) :
            w \in {v \in found : \A u \in found : v[1] <= u[1]}}

FirstBearer(elements, aid) ==
    LET bearers == {i \in DOMAIN elements : <<aid>> \in AidValues(elements[i].text)}
    IN  {elements[i] : i \in {i \in bearers : \A j \in bearers : i <= j}}

ElementByAID(html, aid) == FirstBearer(Harvest(html, NoPin), aid)

-------------------------------------------------------------------------------
\* SingleTopLevelTag, IsHarvestableReplacementRoot: a fragment is one element
\* that the stamper will harvest again.  (What a fragment may contain besides is
\* not looked at here.)
SpansAll(root, fragment) ==
    IF root.tag \in voidTags \/ (root.tag \in foreignRoots /\ SelfCloses(root.text))
    THEN Len(fragment) = 1
    ELSE root.close > root.at /\ root.close = Len(fragment)

SingleTopLevelTag(fragment) ==
    /\ fragment # <<>>
    /\ fragment[1].kind = "open"
    /\ fragment[1].tag \notin rawTextTags
    /\ SpansAll(scanOpenTags(fragment)[1], fragment)

IsHarvestableReplacementRoot(fragment) ==
    /\ SingleTopLevelTag(fragment)
    /\ \/ fragment[1].tag \in stampableTags
       \/ ClassTokenMatch(fragment[1].text, OptIn)

\* A bug: what the element contains stays.
ReplacedTag(html, e, aid, fragment) ==
    LET injected == [fragment EXCEPT ![1].text = InjectRootAID(fragment[1].text, aid)]
    IN  SubSeq(html, 1, e.at - 1) \o injected \o SubSeq(html, e.at + 1, Len(html))

\* ReplaceElementByAIDAt with the root of the fragment bearing the identity
\* (InjectRootAIDAt); e is the element ElementByAID found.
Replaced(html, e, aid, fragment) ==
    LET injected == [fragment EXCEPT ![1].text = InjectRootAID(fragment[1].text, aid)]
    IN  SubSeq(html, 1, e.at - 1) \o injected \o SubSeq(html, CloseEnd(e) + 1, Len(html))
===============================================================================
