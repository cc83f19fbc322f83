-------------------------------- MODULE MCStamp --------------------------------
\* Small texts.  A mix is what an author writes: pieces, letters, how many
\* pieces, and how many letters in one tag.  It is chosen initially.
EXTENDS ArtifactProperties

CONSTANT Mixes
VARIABLE mix

Mix(pieces, letters, size, length) ==
    [pieces |-> pieces, letters |-> letters, size |-> size, length |-> length]

Bare(tag) == Open(tag, <<>>)
Slashed(tag) == Open(tag, <<Slash>>)
Optin(tag) == Open(tag, <<Space, Class, Equals, OptIn>>)
OptinSlashed(tag) == Open(tag, <<Space, Class, Equals, DQuote, OptIn, DQuote, Slash>>)

HTMLEncoding == <<Space, Encoding, Equals, TextHTML>>

\* One tag, letter by letter: what the readers make of it.
TagMix ==
    Mix({Open("img", <<Space, Letter>>), Open("svg", <<Space, Letter>>)},
        {Space, Slash, Equals, DQuote, Letter, AIDName}, 1, 7)
ShortTagMix ==
    Mix({Bare("svg"), Bare("section")}, {Space, Slash, Equals, SQuote, AIDName}, 1, 5)

\* Elements in elements.
NestMix ==
    Mix({Bare("section"), Close("section"), Text("a"), Slashed("img")}, {}, 5, 0)
MarkedMix ==
    Mix({Bare("iframe"), Close("iframe"), Optin("div"), Close("div"), Bare("h1"), Close("h1"),
         Text("a")}, {}, 4, 0)

\* Foreign content and its integration points.
ForeignMix ==
    Mix({Bare("svg"), Close("svg"), Bare("foreignobject"), OptinSlashed("path"),
         Bare("p"), Close("p"), Bare("section")}, {}, 4, 0)
MathMix ==
    Mix({Bare("math"), Bare("mi"), Open("annotation-xml", HTMLEncoding), OptinSlashed("path"),
         Close("br")}, {}, 4, 0)

\* Raw text and comments.
RawMix ==
    Mix({Bare("script"), Close("script"), CommentStart, CommentEnd, Bare("section"),
         Close("section")}, {}, 5, 0)

\* An element that is never closed, with another one after it: what replaces the one
\* decides on the namespace of the other.
UnclosedMix ==
    Mix({Bare("svg"), Optin("desc"), Slashed("section")}, {}, 3, 0)

StampMixes == {TagMix, ShortTagMix, NestMix, MarkedMix, ForeignMix, MathMix,
               RawMix, UnclosedMix}

Allowed(old, new) ==
    LET last == new[Len(new)] IN
    /\ Len(new) <= mix.size
    /\ IF Len(new) > Len(old)
       THEN last \in mix.pieces
       ELSE last.text[Len(last.text)] \in mix.letters /\ Len(last.text) <= mix.length

MCPieces == UNION {m.pieces : m \in Mixes}
MCLetters == UNION {m.letters : m \in Mixes}

MCFragments ==
    {<<Slashed("img")>>,
     <<Optin("path"), Close("path")>>,
     <<Optin("p"), Bare("section"), Text("a"), Close("section"), Close("p")>>}

\* One artifact, and an image whose source stands without quotes before the slash.
ImageMix == Mix({Slashed("img")}, {}, 1, 0)
ImageMixes == {ImageMix, NestMix}
ImageFragments == {<<Open("img", <<Space, Src, Equals, Letter, Space, Slash>>)>>}

MCInit == Init /\ mix \in Mixes

MCNext ==
    /\ UNCHANGED mix
    /\ \/ Write /\ Allowed(html, html')
       \/ FirstPublish
       \/ Republish
       \/ \E aid \in {index[i].aid : i \in DOMAIN index}, fragment \in Fragments :
             ReplaceElement(aid, fragment)

MCSpec == MCInit /\ [][MCNext]_<<vars, mix>>
===============================================================================
