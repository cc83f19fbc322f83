------------------------------- MODULE Artifacts -------------------------------
(* The artifacts of one document from the author's text to the published      *)
(* version: the text is written piece by piece and character by character,    *)
(* stamped when it is published, stamped again when the served text comes     *)
(* back as the next version, and edited by replacing one element by its       *)
(* identity (DocService.ReplaceElement).                                      *)
EXTENDS Stamp, FiniteSets

CONSTANTS
    Pieces,      \* the pieces an author writes
    Letters,     \* the characters an author writes in a tag
    Fragments,   \* the replacements a client sends
    MaxEdits     \* bound: the element replacements of one behaviour

\* What an author writes: the name of a tag ends at a space or a slash.
Written == {piece \in [kind : STRING, tag : STRING, text : Seq(Character)] :
               piece.kind = "open" => IsTagText(piece.text)}

\* A tag whose quotes are open at its `>` is not a tag yet.  Bound: no tag has a
\* name that begins with `=`, ends where a value is expected, closes itself
\* right after an identity that follows an unquoted value, has an identity glued to
\* an attribute behind the tag's name, or has the name of the identity in a value or
\* another name: the readers of the code disagree about such tags.
IsDocument(text) ==
    \A i \in DOMAIN text :
        text[i].kind = "open" =>
            /\ Terminated(text[i].text)
            /\ NamesBeginWithNoEquals(text[i].text)
            /\ EndsOutsideValue(text[i].text)
            /\ SlashIsApart(text[i].text)
            /\ NameIsApart(text[i].text)
            /\ AIDBeginsNames(text[i].text)

ASSUME WritingAssumption == Pieces \subseteq Written /\ Letters \subseteq Character

\* A fragment is written like the text it goes into.
ASSUME FragmentAssumption ==
    \A fragment \in Fragments : fragment \in Seq(Written) /\ IsDocument(fragment)

VARIABLES
    html,       \* the text: the author's, then the published one
    published,
    index,      \* the artifacts of the published version, in document order
    edits,      \* replacements so far
    edit        \* the last replacement: its place and its fragment

vars == <<html, published, index, edits, edit>>

NoEdit == [at |-> 0, fragment |-> <<>>]

Init ==
    /\ html = <<>>
    /\ published = FALSE
    /\ index = <<>>
    /\ edits = 0
    /\ edit = NoEdit

\* The author's text: a next piece, or a next character in the last open tag.
\* The name of a tag ends at a space or a slash (probeOpenTagName).
Write ==
    /\ ~published
    /\ \/ \E piece \in Pieces : html' = Append(html, piece)
       \/ /\ html # <<>>
          /\ html[Len(html)].kind = "open"
          /\ \E c \in Letters :
                LET text == Append(html[Len(html)].text, c) IN
                IsTagText(text) /\ html' = [html EXCEPT ![Len(html)].text = text]
    /\ UNCHANGED <<published, index, edits, edit>>

Publish(stamped) ==
    /\ html' = stamped.html
    /\ index' = stamped.aids

\* Publish, SaveDraft, PromoteDraft: the author's text, or the served one again.
FirstPublish ==
    /\ ~published
    /\ IsDocument(html)
    /\ published' = TRUE
    /\ Publish(StampAids(html))
    /\ UNCHANGED <<edits, edit>>

Republish ==
    /\ published
    /\ Publish(StampAids(html))
    /\ UNCHANGED <<published, edits, edit>>

\* ReplaceElementAuthorized: the fragment's own identity must be the one of a
\* single element of the new text; its root gets exactly that one.
Matches(stamped, aid) == {i \in DOMAIN stamped.aids : stamped.aids[i].aid = aid}

PublishReplaced(at, replaced, canonical) ==
    /\ Cardinality(Matches(StampAids(replaced), canonical)) = 1
    /\ Publish(stampAids(replaced, canonical, at))

ReplaceElement(aid, fragment) ==
    /\ published
    /\ edits < MaxEdits
    /\ IsHarvestableReplacementRoot(fragment)
    /\ \A i \in DOMAIN fragment : ~HasDataOdoc(fragment[i].text)
    /\ \E e \in ElementByAID(html, aid) :
          /\ PublishReplaced(e.at, Replaced(html, e, aid, fragment),
                             StampAids(fragment).aids[1].aid)
          /\ edit' = [at |-> e.at, fragment |-> fragment]
    /\ edits' = edits + 1
    /\ UNCHANGED published

Next ==
    \/ Write
    \/ FirstPublish
    \/ Republish
    \/ \E aid \in {index[i].aid : i \in DOMAIN index}, fragment \in Fragments :
          ReplaceElement(aid, fragment)

Spec == Init /\ [][Next]_vars
===============================================================================
