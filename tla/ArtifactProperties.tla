--------------------------- MODULE ArtifactProperties ---------------------------
(* What the stamper and the element replacement promise.                      *)
EXTENDS Artifacts

\* The tokenizer that finds the end of a tag, the scan for a slash that closes
\* it and the attribute walkers read the same attributes in every tag
\* (attrAwareOpenTagEnd, terminalSelfCloseSlash, forEachAttrName, forEachAttr).
NamesOfTokenizer(text) ==
    NameStarts(Tokenized(text), Len(text), "attrName", DOMAIN Tokenizer \ {"attrName"})

NamesOfWalker(text, table) ==
    NameStarts(States(table, "sep", text), Len(text), "name", {"sep", "afterName"})

ReadAlike(text) ==
    /\ NamesOfWalker(text, Skipping) = NamesOfTokenizer(text)
    /\ NamesOfWalker(text, Nameless) = NamesOfTokenizer(text)
    /\ SelfCloses(text) <=> TokenizerEnd(text) = "selfClosing"

OneReading ==
    \A i \in DOMAIN html :
        html[i].kind = "open" /\ Terminated(html[i].text) /\ NamesBeginWithNoEquals(html[i].text)
            => ReadAlike(html[i].text)

\* The index of a version and its text agree: reading the published text again
\* finds the same artifacts, in document order, each with the identity that the
\* index gives it - what comments are anchored to is what a reader of the page
\* and ElementByAID find.  Every identity is the hash of a content: none was
\* salted away from another, for a replacement whose identity is not unambiguous
\* is refused (ReplaceElementAuthorized).
IndexIsServed ==
    published =>
        LET found == Harvest(html, NoPin) IN
        /\ Len(found) = Len(index)
        /\ \A i \in DOMAIN index :
              /\ found[i].tag = index[i].tag
              /\ AidValues(found[i].text) = {<<index[i].aid>>}
              /\ index[i].aid[1] = "aid"

\* Publishing what was served changes nothing: neither a byte nor an identity,
\* also after an element was replaced (StampAids strips what it wrote, and the
\* pinned identity of a replacement is the one its content has anyway).
RestampIsStable ==
    [][published /\ edits' = edits => UNCHANGED <<html, index>>]_vars

\* Stamping never changes which tags are elements, where an element ends or in
\* which namespace it is, whatever follows it: an identity taken out or put in next to a slash
\* neither closes a tag nor opens one (stripAllAIDs, stampedOpenTag).
Tree(text) ==
    LET opens == scanOpenTags(text) IN
    [i \in DOMAIN opens |->
        [at |-> opens[i].at, close |-> opens[i].close, tag |-> opens[i].tag, ns |-> opens[i].ns,
         closes |-> opens[i].ns # "html" /\ SelfCloses(opens[i].text)]]

\* Nor does it change what a tag means: its attributes, the identity apart.
Meaning(piece) ==
    [kind |-> piece.kind, tag |-> piece.tag,
     attributes |-> {<<a.name, a.value>> : a \in Attributes(StripAID(piece.text), Nameless)}]

Meanings(pieces) == [i \in DOMAIN pieces |-> Meaning(pieces[i])]

\* A publish keeps both, the author's own identities apart.
StampingKeepsTheTree ==
    [][published' /\ edits' = edits =>
          Tree(html') = Tree(html) /\ Meanings(html') = Meanings(html)]_vars

\* What the round trip of a text rests on.  Taking the identities out of a text changes
\* no element and leaves nothing that the readers of the code disagree about (`<annotation-xml
\* x=y data-odoc-aid="..."encoding=text/html>` does not stand apart).
StandsApart(text) ==
    /\ IsDocument(text)
    /\ IsDocument(stripAllAIDs(text))
    /\ Tree(stripAllAIDs(text)) = Tree(text)

AuthorStandsApart == ~published /\ IsDocument(html) => StandsApart(html)

\* A replacement that is published leads to such a text, and its root is pinned to the
\* identity that its content has in its place as well.
ReplacementStandsApart(aid, fragment, e) ==
    LET raw       == Replaced(html, e, aid, fragment)
        canonical == StampAids(fragment).aids[1].aid
    IN  /\ IsHarvestableReplacementRoot(fragment)
        /\ \A i \in DOMAIN fragment : ~HasDataOdoc(fragment[i].text)
        /\ Cardinality(Matches(StampAids(raw), canonical)) = 1
        => StandsApart(raw) /\ stampAids(raw, canonical, e.at) = StampAids(raw)

EditsStandApart ==
    published /\ edits < MaxEdits =>
        \A aid \in {index[i].aid : i \in DOMAIN index}, fragment \in Fragments :
            \A e \in ElementByAID(html, aid) : ReplacementStandsApart(aid, fragment, e)

\* A replacement of an element.
Edited == edits' # edits

Element(text, at) ==
    LET harvested == Harvest(text, NoPin) IN
    harvested[CHOOSE i \in DOMAIN harvested : harvested[i].at = at]

\* The base's text with the fragment in the place of the element.
WithFragment(old) ==
    SubSeq(html, 1, old.at - 1) \o edit'.fragment \o SubSeq(html, CloseEnd(old) + 1, Len(html))

\* That is the text that is published, and its only artifact with the identity that the
\* fragment has of its own is the fragment's root.
Bearers(elements, aid) ==
    {elements[i].at : i \in {j \in DOMAIN elements : <<aid>> \in AidValues(elements[j].text)}}

InPlace(at, text) ==
    /\ Meanings(html') = Meanings(text)
    /\ Tree(html') = Tree(text)
    /\ \E elements \in {Harvest(html', NoPin)}, aid \in {StampAids(edit'.fragment).aids[1].aid} :
          Bearers(elements, aid) = {at}

\* What stands outside of the element is read as it was.  (An element that is never
\* closed, or a tag that ends foreign content, may put what follows into another
\* namespace.)
Shifted(e, by) == <<e.at + by, e.close + by, e.ns, e.closes>>

ReadsOn(old, text) ==
    LET grown  == Len(text) - Len(html)
        last   == CloseEnd(old)
        before == Tree(html)
        after  == Tree(text)
    IN  {Shifted(before[i], 0) : i \in {j \in DOMAIN before : before[j].close < old.at}}
        \cup {Shifted(before[i], grown) : i \in {j \in DOMAIN before : before[j].at > last}}
        \subseteq {Shifted(after[i], 0) : i \in DOMAIN after}

\* Every other element has its identity still, except those around the replaced
\* one, whose content changed.
OthersKeepTheirs(gone) ==
    LET elements == Harvest(html, NoPin)
        grown    == Len(html') - Len(html)
    IN  \A i \in DOMAIN elements :
          LET e == elements[i] IN
          /\ CloseEnd(e) < gone.at => AidValues(html'[e.at].text) = AidValues(e.text)
          /\ e.at > CloseEnd(gone) => AidValues(html'[e.at + grown].text) = AidValues(e.text)

\* The next version is the base version with the fragment in the place of the
\* element, and nothing else of it changes: not the text around it and, where that is
\* read as it was, not what the comments on other elements are anchored to
\* (ReplaceElementAuthorized).
ReplacementIsPublished ==
    [][Edited => \E old \in {Element(html, edit'.at)} : \E text \in {WithFragment(old)} :
                    /\ InPlace(old.at, text)
                    /\ ReadsOn(old, text) => OthersKeepTheirs(old)]_vars
===============================================================================
