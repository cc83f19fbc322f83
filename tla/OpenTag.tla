------------------------------- MODULE OpenTag -------------------------------
(* The attribute text of an open tag: what stands between the tag's name and  *)
(* its `>`.  The stamper reads it with one tokenizer (where does the tag end) *)
(* and several hand-written walkers (which attributes are there), writes the  *)
(* identity `data-odoc-aid="..."` into it and takes it out again.             *)
(*                                                                            *)
(* A text is a sequence of characters.  A word the code looks for is one      *)
(* character, all other letters are Letter, and the value of an identity is   *)
(* one character too: every character is a tuple, so that they compare.  `>`  *)
(* and line breaks do not occur, and letter case is left out.                 *)
EXTENDS Naturals, Sequences, Subsequences

Space  == <<" ">>
Slash  == <<"/">>
Equals == <<"=">>
DQuote == <<"\"">>
SQuote == <<"'">>
Letter == <<"x">>
AIDName == <<"data-odoc-aid">>
Marker  == <<"data-odoc-artifact">>
Class   == <<"class">>
OptIn   == <<"odoc-artifact">>
Src      == <<"src">>
Encoding == <<"encoding">>
TextHTML == <<"text/html">>

Character == {Space, Slash, Equals, DQuote, SQuote, Letter, AIDName, Marker, Class, OptIn,
              Src, Encoding, TextHTML}

\* The name of the tag ends at a space or a slash (probeOpenTagName).
IsTagText(text) == text # <<>> => text[1] \in {Space, Slash}

\* The columns of the tables below.
ClassOf(c) ==
    CASE c = Space -> "space" [] c = Slash -> "slash" [] c = Equals -> "equals"
      [] c = DQuote -> "dquote" [] c = SQuote -> "squote" [] OTHER -> "other"

Row(space, slash, equals, dquote, squote, other) ==
    [space |-> space, slash |-> slash, equals |-> equals,
     dquote |-> dquote, squote |-> squote, other |-> other]

\* A state that stays until its end character.
Until(state, end, next) == [Row(state, state, state, state, state, state) EXCEPT ![end] = next]

\* The states a table passes through: states[i] is the one after i characters.
States(table, start, text) ==
    LET run[i \in 0..Len(text)] ==
            IF i = 0 THEN <<start>>
            ELSE LET before == run[i - 1]
                 IN  Append(before, table[before[i]][ClassOf(text[i])])
        states == run[Len(text)]
    IN  [i \in 0..Len(text) |-> states[i + 1]]

-------------------------------------------------------------------------------
\* attrAwareOpenTagEnd: the tokenizer that finds the `>` of the tag.
BeforeAttr == Row("beforeAttr", "selfClosing", "attrName", "attrName", "attrName", "attrName")

Tokenizer ==
    [tagName      |-> Row("beforeAttr", "selfClosing", "tagName", "tagName", "tagName", "tagName"),
     beforeAttr   |-> BeforeAttr,
     attrName     |-> Row("afterName", "selfClosing", "beforeValue", "attrName", "attrName", "attrName"),
     afterName    |-> Row("afterName", "selfClosing", "beforeValue", "attrName", "attrName", "attrName"),
     beforeValue  |-> Row("beforeValue", "unquoted", "unquoted", "double", "single", "unquoted"),
     double       |-> Until("double", "dquote", "afterQuoted"),
     single       |-> Until("single", "squote", "afterQuoted"),
     unquoted     |-> Until("unquoted", "space", "beforeAttr"),
     afterQuoted  |-> BeforeAttr,
     selfClosing  |-> BeforeAttr]

Tokenized(text) == States(Tokenizer, "tagName", text)

TokenizerEnd(text) == Tokenized(text)[Len(text)]

\* A `>` inside a quoted value is data: it would not end this tag.
Terminated(text) == TokenizerEnd(text) \notin {"double", "single"}

-------------------------------------------------------------------------------
\* terminalSelfCloseSlash: the last character is a slash that is not data.
\* Only a last slash ends the walk: any other one is read as a name.
SlashTable ==
    [beforeAttr  |-> Row("beforeAttr", "attrName", "attrName", "attrName", "attrName", "attrName"),
     attrName    |-> Row("afterName", "attrName", "beforeValue", "attrName", "attrName", "attrName"),
     afterName   |-> Row("afterName", "attrName", "beforeValue", "attrName", "attrName", "attrName"),
     beforeValue |-> Row("beforeValue", "unquoted", "unquoted", "double", "single", "unquoted"),
     double      |-> Until("double", "dquote", "afterQuoted"),
     single      |-> Until("single", "squote", "afterQuoted"),
     unquoted    |-> Until("unquoted", "space", "beforeAttr"),
     afterQuoted |-> Row("beforeAttr", "attrName", "attrName", "attrName", "attrName", "attrName")]

\* A bug: a slash that ends an unquoted value counts as well.
AnySlash(text) == text # <<>> /\ text[Len(text)] = Slash

SelfCloses(text) ==
    LET n == Len(text) IN
    /\ n > 0
    /\ text[n] = Slash
    /\ States(SlashTable, "beforeAttr", SubSeq(text, 1, n - 1))[n - 1]
           \in {"beforeAttr", "attrName", "afterName", "afterQuoted"}

-------------------------------------------------------------------------------
\* The walkers: separators, a name up to a space, `=` or `/`, then perhaps `=`
\* and a value.  They differ in what an `=` without a name is: a separator for
\* stripAIDAttribute and forEachAttr, the sign of a nameless attribute for
\* forEachAttrName, classTokenMatch and attrValue.
WalkTable(loneEquals) ==
    [sep         |-> Row("sep", "sep", loneEquals, "name", "name", "name"),
     name        |-> Row("afterName", "sep", "beforeValue", "name", "name", "name"),
     afterName   |-> Row("afterName", "sep", "beforeValue", "name", "name", "name"),
     beforeValue |-> Row("beforeValue", "unquoted", "unquoted", "double", "single", "unquoted"),
     double      |-> Until("double", "dquote", "sep"),
     single      |-> Until("single", "squote", "sep"),
     unquoted    |-> Until("unquoted", "space", "sep")]

Skipping == WalkTable("sep")
Nameless == WalkTable("beforeValue")

InValue == {"beforeValue", "double", "single", "unquoted"}

\* Where names begin: at a character that makes the walk enter a name.
NameStarts(states, n, name, outside) ==
    {i \in 1..n : states[i] = name /\ states[i - 1] \in outside}

\* The last position of the run of states in S that begins at i (i - 1 if none).
RunEnd(states, i, n, S) ==
    CHOOSE j \in (i - 1)..n : /\ \A k \in i..j : states[k] \in S
                              /\ (j = n \/ states[j + 1] \notin S)

\* One attribute of the walk: its name, and the last character of its value,
\* the closing quote included; `end` is the name's end when it has no value.
Attribute(text, states, i) ==
    LET n  == Len(text)
        ne == RunEnd(states, i, n, {"name"})
        v  == RunEnd(states, ne + 1, n, {"afterName"}) + 1
        ve == RunEnd(states, v, n, InValue)
        quoted == ve >= v /\ states[ve] \in {"double", "single"}
        vs == RunEnd(states, v, ve, {"beforeValue"}) + 1
    IN  [from  |-> i,
         name  |-> SubSeq(text, i, ne),
         end   |-> IF ve < v THEN ne ELSE IF quoted /\ ve < n THEN ve + 1 ELSE ve,
         value |-> IF quoted THEN SubSeq(text, vs + 1, ve) ELSE SubSeq(text, vs, ve)]

\* The attributes whose name begins at one of these positions.
AttributesAt(text, table, positions) ==
    LET states == States(table, "sep", text) IN
    {Attribute(text, states, i) :
        i \in positions \cap NameStarts(states, Len(text), "name", {"sep", "afterName"})}

Attributes(text, table) == AttributesAt(text, table, DOMAIN text)

\* The attributes that have this word for a name.
Named(text, table, word) ==
    LET found == {i \in DOMAIN text : text[i] = word}
    IN  {a \in AttributesAt(text, table, found) : a.name = <<word>>}

\* forEachAttrName: the attribute names of a tag.
AttrNames(text) == {a.name : a \in Attributes(text, Nameless)}

\* attrValue: the first attribute of that name ({} if there is none).
FirstValue(attributes) ==
    {a.value : a \in {b \in attributes : \A c \in attributes : b.from <= c.from}}

AttrValue(text, name) == FirstValue(Named(text, Nameless, name))

\* classTokenMatch, hasOptInMarker.
Fields(value) ==
    {SubSeq(value, w[1], w[2]) :
        w \in {f \in (1..Len(value)) \X (1..Len(value)) :
                 /\ f[1] <= f[2]
                 /\ \A k \in f[1]..f[2] : value[k] # Space
                 /\ (f[1] = 1 \/ value[f[1] - 1] = Space)
                 /\ (f[2] = Len(value) \/ value[f[2] + 1] = Space)}}

ClassTokenMatch(text, token) ==
    \E a \in Named(text, Nameless, Class) : <<token>> \in Fields(a.value)

HasOptInMarker(text) ==
    ClassTokenMatch(text, OptIn) \/ Named(text, Nameless, Marker) # {}

\* HasDataOdocAttr, for one tag.
HasDataOdoc(text) == AttrNames(text) \cap {<<AIDName>>, <<Marker>>} # {}

-------------------------------------------------------------------------------
\* Writing an identity and taking it out.
\* The first position of the run of spaces that ends before position i.
SpaceStart(text, i) ==
    CHOOSE j \in 1..i : /\ \A k \in j..(i - 1) : text[k] = Space
                        /\ (j = 1 \/ text[j - 1] # Space)

\* The positions stripAIDAttribute drops with one attribute: the attribute and
\* the spaces before it.  (The code treats an attribute of its own shape with
\* one space before it apart, and removes that one space.)
Dropped(text, a) == SpaceStart(text, a.from)..a.end

\* A bug: the space before the identity stays.
StripAIDOnly(text) ==
    Subsequence(text, DOMAIN text \
        UNION {a.from..a.end : a \in Named(text, Skipping, AIDName)})

\* stripAIDAttribute
StripAID(text) ==
    Subsequence(text, DOMAIN text \
        UNION {Dropped(text, a) : a \in Named(text, Skipping, AIDName)})

AIDText(aid) == <<Space, AIDName, Equals, DQuote, aid, DQuote>>

Insert(text, n, inserted) ==
    SubSeq(text, 1, n) \o inserted \o SubSeq(text, n + 1, Len(text))

\* stampedOpenTag: before the spaces at the end, and before the slash if the tag
\* closes itself.
StampedOpenTag(text, aid, trueSelfClose) ==
    LET end == IF trueSelfClose /\ SelfCloses(text) THEN Len(text) - 1 ELSE Len(text)
    IN  Insert(text, SpaceStart(text, end + 1) - 1, AIDText(aid))

\* InjectRootAIDAt: before the slash, after the spaces.
InjectRootAID(text, aid) ==
    Insert(text, IF SelfCloses(text) THEN Len(text) - 1 ELSE Len(text), AIDText(aid))

\* aidFor reads the intrinsic attributes with a pattern: the first `src`, then
\* `=` and a value in double quotes.  One of the five names is enough here.
Intrinsics(text) ==
    LET from == {i \in DOMAIN text : text[i] = Src}
        Value(i, j, k) ==
            /\ i < j
            /\ j < k
            /\ text[j] = DQuote /\ text[k] = DQuote
            /\ \A m \in (j + 1)..(k - 1) : text[m] # DQuote
            /\ \E e \in (i + 1)..(j - 1) :
                  /\ text[e] = Equals
                  /\ \A m \in ((i + 1)..(j - 1)) \ {e} : text[m] = Space
        values == {w \in from \X (1..Len(text)) \X (1..Len(text)) : Value(w[1], w[2], w[3])}
    IN  {SubSeq(text, w[2] + 1, w[3] - 1) :
            w \in {v \in values : \A u \in values : v[1] <= u[1]}}

-------------------------------------------------------------------------------
\* What a text must be for the readers to agree and for an identity to come out
\* as it went in.

\* The tokenizer lets no name begin with `=`.
NamesBeginWithNoEquals(text) ==
    LET states == Tokenized(text) IN
    \A i \in NameStarts(states, Len(text), "attrName", DOMAIN Tokenizer \ {"attrName"}) :
        text[i] # Equals

\* The tag does not end where a value is expected (`<img alt= >`).
EndsOutsideValue(text) == TokenizerEnd(text) # "beforeValue"

\* No slash that closes the tag becomes the end of an unquoted value when the
\* identities before it are taken out (`<img src=x data-odoc-aid="..."/>`).
SlashIsApart(text) == SelfCloses(text) => SelfCloses(StripAID(text))

\* No identity in double quotes stands between the tag's name and a next attribute
\* that no space sets apart: taken out, it would leave the name and that attribute as
\* one word (`<img data-odoc-aid="x"alt>`).
NameIsApart(text) == IsTagText(StripAID(text))

\* The name of the identity occurs only where an attribute's name begins, not in
\* a value or inside another name (`<img alt='data-odoc-aid="x"'>`).
AIDBeginsNames(text) ==
    \A i \in DOMAIN text :
        text[i] = AIDName => \E a \in Attributes(text, Skipping) : a.from = i
===============================================================================
