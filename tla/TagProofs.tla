------------------------------- MODULE TagProofs -------------------------------
(***************************************************************************)
(* The readers of an open tag - the tokenizer that finds its end, the      *)
(* attribute walkers and the scan for a slash that closes it - read the    *)
(* same in every tag, however long.  Each is a table that is driven by the *)
(* characters; a relation between the states of two tables is kept by      *)
(* every character that a tag may have there.  And every tag is such a     *)
(* one: what the stamper leaves when it takes identities out and writes    *)
(* them is the text of a tag again, so that this holds of every version.   *)
(***************************************************************************)
EXTENDS ArtifactProperties, Recursion, FiniteSetTheorems

-------------------------------------------------------------------------------
(* A table driven by a text.                                               *)

Columns == {"space", "slash", "equals", "dquote", "squote", "other"}

LEMMA ColumnOfCharacter ==
    \A c : /\ ClassOf(c) \in Columns
           /\ ClassOf(c) = "equals" <=> c = Equals
           /\ ClassOf(c) = "slash" <=> c = Slash
           /\ ClassOf(c) \in {"space", "slash"} <=> c \in {Space, Slash}
  <1>1. /\ Space # Slash /\ Space # Equals /\ Space # DQuote /\ Space # SQuote
        /\ Slash # Equals /\ Slash # DQuote /\ Slash # SQuote
        /\ Equals # DQuote /\ Equals # SQuote /\ DQuote # SQuote
    <2>1. \A x, y : <<x>> = <<y>> => x = y
      <3> TAKE x, y
      <3> HAVE <<x>> = <<y>>
      <3>1. <<x>>[1] = <<y>>[1]
        OBVIOUS
      <3> QED BY <3>1
    <2>2. /\ " " # "/" /\ " " # "=" /\ " " # "\"" /\ " " # "'" /\ "/" # "=" /\ "/" # "\""
          /\ "/" # "'" /\ "=" # "\"" /\ "=" # "'" /\ "\"" # "'"
      OBVIOUS
    <2> QED BY <2>1, <2>2 DEF Space, Slash, Equals, DQuote, SQuote
  <1> TAKE c
  <1>2. CASE c = Space
    BY <1>1, <1>2 DEF ClassOf, Columns
  <1>3. CASE c = Slash
    BY <1>1, <1>3 DEF ClassOf, Columns
  <1>4. CASE c = Equals
    BY <1>1, <1>4 DEF ClassOf, Columns
  <1>5. CASE c = DQuote
    BY <1>1, <1>5 DEF ClassOf, Columns
  <1>6. CASE c = SQuote
    BY <1>1, <1>6 DEF ClassOf, Columns
  <1>7. CASE c \notin {Space, Slash, Equals, DQuote, SQuote}
    <2>1. ClassOf(c) = "other"
      BY <1>7 DEF ClassOf
    <2> QED BY <1>7, <2>1 DEF Columns
  <1> QED BY <1>2, <1>3, <1>4, <1>5, <1>6, <1>7

\* T are the states of the table.
IsTable(table, T) == \A s \in T, k \in Columns : table[s][k] \in T

\* st are the states after each of the first m characters.
Passes(st, table, start, text, m) ==
    /\ st[0] = start
    /\ \A i \in 1 .. m : st[i] = table[st[i - 1]][ClassOf(text[i])]

LEMMA StatesPass ==
    ASSUME NEW text, Len(text) \in Nat, NEW T, NEW start \in T, NEW table, IsTable(table, T)
    PROVE  /\ Passes(States(table, start, text), table, start, text, Len(text))
           /\ \A i \in 0 .. Len(text) : States(table, start, text)[i] \in T
  <1> DEFINE n == Len(text)
             next(i, q) == table[q[i]][ClassOf(text[i])]
             body(g) == [i \in 0 .. n |-> IF i = 0 THEN <<start>>
                                          ELSE Append(g[i - 1], next(i, g[i - 1]))]
             step == [i \in 1 .. n |->
                         [q \in Seq(T) |-> IF Len(q) = i THEN Append(q, next(i, q)) ELSE q]]
             u == CHOOSE g : g = body(g)
  <1>1. n \in Nat
    OBVIOUS
  <1>2. \A i \in 1 .. n : \A q \in Seq(T) : Len(q) = i => q[i] \in T /\ next(i, q) \in T
    <2> TAKE i \in 1 .. n
    <2> TAKE q \in Seq(T)
    <2> HAVE Len(q) = i
    <2>1. q[i] \in T
      BY <1>1
    <2>2. ClassOf(text[i]) \in Columns
      BY ColumnOfCharacter
    <2> QED BY <2>1, <2>2 DEF IsTable
  <1>3. <<start>> \in Seq(T) /\ Len(<<start>>) = 1 /\ <<start>>[1] = start
    OBVIOUS
  <1>6. \A i \in 0 .. n : States(table, start, text)[i] = u[n][i + 1]
    BY DEF States
  <1> HIDE DEF next
  <1>4. step \in [1 .. n -> [Seq(T) -> Seq(T)]]
    BY <1>1, <1>2
  <1>5. \A i \in 1 .. n : \A q \in Seq(T) : Len(q) = i => step[i][q] = Append(q, next(i, q))
    OBVIOUS
  <1> HIDE DEF n, step
  <1>7. PICK g : IsRun(g, Seq(T), n, <<start>>, step)
    BY <1>1, <1>3, <1>4, Iterates DEF IsLoop
  <1> DEFINE G == {k \in Nat : g[k] \in Seq(T) /\ Len(g[k]) = k + 1}
  <1>8. \A k \in 0 .. n : k \in G
    <2>1. 0 \in G
      <3>1. g[0] = <<start>>
        BY <1>7 DEF IsRun
      <3>2. 0 + 1 = 1 /\ 0 \in Nat
        OBVIOUS
      <3>3. g[0] \in Seq(T) /\ Len(g[0]) = 1
        BY <1>3, <3>1, Zenon
      <3> QED BY <3>2, <3>3
    <2>2. ASSUME NEW k \in 0 .. (n - 1), k \in G PROVE k + 1 \in G
      <3>1. k + 1 \in 1 .. n /\ (k + 1) - 1 = k /\ k + 1 \in Nat
        BY <1>1
      <3>2. g[k] \in Seq(T) /\ Len(g[k]) = k + 1
        BY <2>2
      <3>3. g[k + 1] = Append(g[k], next(k + 1, g[k])) /\ next(k + 1, g[k]) \in T
        BY <1>2, <1>5, <1>7, <3>1, <3>2 DEF IsRun
      <3>4. g[k + 1] \in Seq(T) /\ Len(g[k + 1]) = (k + 1) + 1
        BY <3>2, <3>3, OneLonger
      <3> QED BY <3>1, <3>4
    <2> HIDE DEF G
    <2> QED BY <1>1, <2>1, <2>2, InductUpTo
  <1>9. g = body(g)
    <2>1. g = [i \in 0 .. n |-> g[i]] /\ g[0] = <<start>>
      BY <1>7 DEF IsRun
    <2>2. ASSUME NEW i \in 0 .. n, i # 0 PROVE g[i] = Append(g[i - 1], next(i, g[i - 1]))
      <3>1. i \in 1 .. n /\ i - 1 \in 0 .. n /\ (i - 1) + 1 = i
        BY <1>1, <2>2
      <3>2. g[i - 1] \in Seq(T) /\ Len(g[i - 1]) = i
        BY <1>8, <3>1
      <3> QED BY <1>5, <1>7, <3>1, <3>2 DEF IsRun
    <2> QED BY <2>1, <2>2
  <1>10. u = body(u)
    BY <1>9
  <1>11. u[0] = <<start>> /\ \A i \in 1 .. n : u[i] = Append(u[i - 1], next(i, u[i - 1]))
    <2> DEFINE e == body(u)
    <2>1. e[0] = <<start>> /\ \A i \in 1 .. n : e[i] = Append(u[i - 1], next(i, u[i - 1]))
      <3>1. 0 \in 0 .. n /\ 1 .. n \subseteq 0 .. n /\ \A i \in 1 .. n : i # 0
        BY <1>1
      <3>2. e[0] = <<start>>
        BY <3>1
      <3>3. \A i \in 1 .. n : e[i] = Append(u[i - 1], next(i, u[i - 1]))
        BY <3>1
      <3> QED BY <3>2, <3>3
    <2>2. u = e
      BY <1>10
    <2> HIDE DEF e, u
    <2> QED BY <2>1, <2>2
  <1> HIDE DEF u, body
  <1> DEFINE Ran(s, k) == /\ s \in Seq(T) /\ Len(s) = k + 1 /\ s[1] = start
                          /\ \A i \in 1 .. k : s[i + 1] = next(i, s)
             U == {k \in Nat : Ran(u[k], k)}
  <1>12. 0 \in U
    <2>1. Len(u[0]) = 0 + 1 /\ u[0] \in Seq(T) /\ u[0][1] = start
      BY <1>3, <1>11
    <2>2. \A i \in 1 .. 0 : FALSE
      OBVIOUS
    <2> HIDE DEF next
    <2> QED BY <2>1, <2>2
  <1>13. ASSUME NEW k \in 0 .. (n - 1), k \in U PROVE k + 1 \in U
    <2> DEFINE s == u[k]
               x == next(k + 1, s)
               t == Append(s, x)
    <2>1. k + 1 \in 1 .. n /\ (k + 1) - 1 = k /\ k + 1 \in Nat /\ k \in Nat
      BY <1>1
    <2>2. /\ s \in Seq(T) /\ Len(s) = k + 1 /\ s[1] = start
          /\ \A i \in 1 .. k : s[i + 1] = next(i, s)
      BY <1>13
    <2>3. u[k + 1] = t /\ x \in T
      BY <1>2, <1>11, <2>1, <2>2
    <2> HIDE DEF s, x
    <2>4. /\ t \in Seq(T) /\ Len(t) = k + 2 /\ t[k + 2] = x
          /\ \A i \in 1 .. (k + 1) : t[i] = s[i]
      BY <2>1, <2>2, <2>3
    <2> HIDE DEF t
    <2>5. \A i \in 1 .. (k + 1) : next(i, t) = next(i, s)
      BY <2>4 DEF next
    <2>6. \A i \in 1 .. (k + 1) : t[i + 1] = next(i, t)
      <3> TAKE i \in 1 .. (k + 1)
      <3>1. CASE i = k + 1
        BY <2>1, <2>4, <2>5, <3>1 DEF x
      <3>2. CASE i # k + 1
        <4>1. i \in 1 .. k /\ i + 1 \in 1 .. (k + 1)
          BY <2>1, <3>2
        <4> QED BY <2>2, <2>4, <2>5, <4>1
      <3> QED BY <3>1, <3>2
    <2>7. t[1] = start /\ Len(t) = (k + 1) + 1
      BY <2>1, <2>2, <2>4
    <2> QED BY <2>1, <2>3, <2>4, <2>6, <2>7
  <1>14. n \in U
    <2>1. n \in 0 .. n
      BY <1>1
    <2> HIDE DEF U
    <2> QED BY <1>1, <1>12, <1>13, <2>1, InductUpTo
  <1> DEFINE st == States(table, start, text)
  <1>15. Ran(u[n], n) /\ \A i \in 0 .. n : st[i] = u[n][i + 1]
    BY <1>6, <1>14
  <1> HIDE DEF st
  <1>16. st[0] = start /\ \A i \in 0 .. n : st[i] \in T
    BY <1>1, <1>15
  <1>17. \A i \in 1 .. n : st[i] = table[st[i - 1]][ClassOf(text[i])]
    <2> TAKE i \in 1 .. n
    <2>1. i - 1 \in 0 .. n /\ i \in 0 .. n /\ (i - 1) + 1 = i
      BY <1>1
    <2>2. st[i] = next(i, u[n]) /\ st[i - 1] = u[n][i]
      BY <1>15, <2>1
    <2> QED BY <2>2 DEF next
  <1> QED BY <1>16, <1>17 DEF Passes, st, n

-------------------------------------------------------------------------------
(* The tables.                                                             *)

ValueStates == {"beforeValue", "double", "single", "unquoted"}
TokenStates == {"tagName", "beforeAttr", "attrName", "afterName", "afterQuoted", "selfClosing"}
                 \cup ValueStates
WalkStates  == {"sep", "name", "afterName"} \cup ValueStates
SlashStates == {"beforeAttr", "attrName", "afterName", "afterQuoted"} \cup ValueStates

LEMMA RowOf ==
    ASSUME NEW a, NEW b, NEW c, NEW d, NEW e, NEW f
    PROVE  LET r == Row(a, b, c, d, e, f)
           IN  /\ r["space"] = a /\ r["slash"] = b /\ r["equals"] = c
               /\ r["dquote"] = d /\ r["squote"] = e /\ r["other"] = f
  BY DEF Row

LEMMA UntilOf ==
    ASSUME NEW state, NEW end \in Columns, NEW next
    PROVE  \A k \in Columns : Until(state, end, next)[k] = IF k = end THEN next ELSE state
  BY DEF Until, Row, Columns

\* The tokenizer, row by row.
LEMMA TokenizerRows ==
    /\ \A k \in Columns :
          /\ Tokenizer["tagName"][k] = IF k = "space" THEN "beforeAttr"
                                       ELSE IF k = "slash" THEN "selfClosing" ELSE "tagName"
          /\ \A s \in {"beforeAttr", "afterQuoted", "selfClosing"} :
                Tokenizer[s][k] = IF k = "space" THEN "beforeAttr"
                                  ELSE IF k = "slash" THEN "selfClosing" ELSE "attrName"
          /\ \A s \in {"attrName", "afterName"} :
                Tokenizer[s][k] = IF k = "space" THEN "afterName"
                                  ELSE IF k = "slash" THEN "selfClosing"
                                  ELSE IF k = "equals" THEN "beforeValue" ELSE "attrName"
          /\ Tokenizer["beforeValue"][k] = IF k = "space" THEN "beforeValue"
                                           ELSE IF k = "dquote" THEN "double"
                                           ELSE IF k = "squote" THEN "single" ELSE "unquoted"
          /\ Tokenizer["double"][k] = IF k = "dquote" THEN "afterQuoted" ELSE "double"
          /\ Tokenizer["single"][k] = IF k = "squote" THEN "afterQuoted" ELSE "single"
          /\ Tokenizer["unquoted"][k] = IF k = "space" THEN "beforeAttr" ELSE "unquoted"
    /\ DOMAIN Tokenizer = TokenStates
  BY DEF Tokenizer, BeforeAttr, Row, Until, Columns, TokenStates, ValueStates

LEMMA WalkRows ==
    ASSUME NEW l
    PROVE  \A k \in Columns :
              LET w == WalkTable(l) IN
              /\ w["sep"][k] = IF k \in {"space", "slash"} THEN "sep"
                               ELSE IF k = "equals" THEN l ELSE "name"
              /\ \A s \in {"name", "afterName"} :
                    w[s][k] = IF k = "space" THEN "afterName" ELSE IF k = "slash" THEN "sep"
                              ELSE IF k = "equals" THEN "beforeValue" ELSE "name"
              /\ w["beforeValue"][k] = Tokenizer["beforeValue"][k]
              /\ w["double"][k] = IF k = "dquote" THEN "sep" ELSE "double"
              /\ w["single"][k] = IF k = "squote" THEN "sep" ELSE "single"
              /\ w["unquoted"][k] = IF k = "space" THEN "sep" ELSE "unquoted"
  BY DEF WalkTable, Tokenizer, BeforeAttr, Row, Until, Columns

LEMMA SlashRows ==
    \A k \in Columns :
        /\ \A s \in {"beforeAttr", "afterQuoted"} :
              SlashTable[s][k] = IF k = "space" THEN "beforeAttr" ELSE "attrName"
        /\ \A s \in {"attrName", "afterName"} :
              SlashTable[s][k] = IF k = "space" THEN "afterName"
                                 ELSE IF k = "equals" THEN "beforeValue" ELSE "attrName"
        /\ SlashTable["beforeValue"][k] = Tokenizer["beforeValue"][k]
        /\ SlashTable["double"][k] = IF k = "dquote" THEN "afterQuoted" ELSE "double"
        /\ SlashTable["single"][k] = IF k = "squote" THEN "afterQuoted" ELSE "single"
        /\ SlashTable["unquoted"][k] = IF k = "space" THEN "beforeAttr" ELSE "unquoted"
  BY DEF SlashTable, Tokenizer, BeforeAttr, Row, Until, Columns

LEMMA Tables ==
    /\ IsTable(Tokenizer, TokenStates)
    /\ IsTable(SlashTable, SlashStates)
    /\ \A l \in {"sep", "beforeValue"} : IsTable(WalkTable(l), WalkStates)
  <1>1. IsTable(Tokenizer, TokenStates)
    <2> SUFFICES ASSUME NEW s \in TokenStates, NEW k \in Columns
                 PROVE  Tokenizer[s][k] \in TokenStates
      BY DEF IsTable
    <2> QED BY TokenizerRows DEF TokenStates, ValueStates
  <1>2. IsTable(SlashTable, SlashStates)
    <2> SUFFICES ASSUME NEW s \in SlashStates, NEW k \in Columns
                 PROVE  SlashTable[s][k] \in SlashStates
      BY DEF IsTable
    <2> QED BY SlashRows, TokenizerRows DEF SlashStates, ValueStates
  <1>3. ASSUME NEW l \in {"sep", "beforeValue"} PROVE IsTable(WalkTable(l), WalkStates)
    <2> SUFFICES ASSUME NEW s \in WalkStates, NEW k \in Columns
                 PROVE  WalkTable(l)[s][k] \in WalkStates
      BY DEF IsTable
    <2> QED BY WalkRows, TokenizerRows DEF WalkStates, ValueStates
  <1> QED BY <1>1, <1>2, <1>3

-------------------------------------------------------------------------------
(* The tables in step.                                                     *)

\* R relates the states of the tokenizer to those of a table, and is kept by every
\* character that a tag may have there: its name ends at a space or a slash, and no
\* attribute's name begins with `=`.
Allowed(s, k) ==
    /\ s = "tagName" => k \in {"space", "slash"}
    /\ k = "equals" /\ Tokenizer[s][k] = "attrName" => s = "attrName"

Coupled(R, table, start) ==
    /\ <<"tagName", start>> \in R
    /\ \A z \in R, k \in Columns :
          Allowed(z[1], k) => /\ <<Tokenizer[z[1]][k], table[z[2]][k]>> \in R
                              /\ Tokenizer[z[1]][k] # "tagName"

\* A walker's separators are all that is not a name or a value.
Walking == {"beforeAttr", "afterQuoted", "selfClosing", "tagName"} \X {"sep"}
             \cup {<<"attrName", "name">>, <<"afterName", "afterName">>}
             \cup {<<s, s>> : s \in ValueStates}

\* The scan for the slash has a slash for the name of an attribute.
Slashing == {<<"tagName", "beforeAttr">>, <<"beforeAttr", "beforeAttr">>,
             <<"beforeAttr", "afterName">>, <<"selfClosing", "attrName">>,
             <<"attrName", "attrName">>, <<"afterName", "afterName">>,
             <<"afterQuoted", "afterQuoted">>}
             \cup {<<s, s>> : s \in ValueStates}

LEMMA WalkersCoupled ==
    ASSUME NEW l \in {"sep", "beforeValue"}
    PROVE  Coupled(Walking, WalkTable(l), "sep")
  <1>1. <<"tagName", "sep">> \in Walking
    BY DEF Walking
  <1>2. ASSUME NEW z \in Walking, NEW k \in Columns, Allowed(z[1], k)
        PROVE  /\ <<Tokenizer[z[1]][k], WalkTable(l)[z[2]][k]>> \in Walking
               /\ Tokenizer[z[1]][k] # "tagName"
    <2> USE <1>2
    <2>1. CASE z[1] = "tagName"
      <3>1. z[2] = "sep" /\ k \in {"space", "slash"}
        BY <2>1 DEF Walking, ValueStates, Allowed
      <3> QED BY <2>1, <3>1, TokenizerRows, WalkRows DEF Walking
    <2>2. CASE z[1] \in {"beforeAttr", "afterQuoted", "selfClosing"}
      <3>1. z[2] = "sep" /\ k # "equals"
        BY <2>2, TokenizerRows DEF Walking, ValueStates, Allowed
      <3> QED BY <2>2, <3>1, TokenizerRows, WalkRows DEF Walking
    <2>3. CASE z[1] = "attrName"
      <3>1. z[2] = "name"
        BY <2>3 DEF Walking, ValueStates
      <3> QED BY <2>3, <3>1, TokenizerRows, WalkRows DEF Walking, ValueStates
    <2>4. CASE z[1] = "afterName"
      <3>1. z[2] = "afterName"
        BY <2>4 DEF Walking, ValueStates
      <3> QED BY <2>4, <3>1, TokenizerRows, WalkRows DEF Walking, ValueStates
    <2>5. CASE z[1] \in ValueStates
      <3>1. z[2] = z[1]
        BY <2>5 DEF Walking, ValueStates
      <3> QED BY <2>5, <3>1, TokenizerRows, WalkRows DEF Walking, ValueStates
    <2> QED BY <2>1, <2>2, <2>3, <2>4, <2>5 DEF Walking
  <1> QED BY <1>1, <1>2 DEF Coupled

LEMMA SlashCoupled == Coupled(Slashing, SlashTable, "beforeAttr")
  <1>1. <<"tagName", "beforeAttr">> \in Slashing
    BY DEF Slashing
  <1>2. ASSUME NEW z \in Slashing, NEW k \in Columns, Allowed(z[1], k)
        PROVE  /\ <<Tokenizer[z[1]][k], SlashTable[z[2]][k]>> \in Slashing
               /\ Tokenizer[z[1]][k] # "tagName"
    <2> USE <1>2
    <2>1. CASE z[1] = "tagName"
      <3>1. z[2] = "beforeAttr" /\ k \in {"space", "slash"}
        BY <2>1 DEF Slashing, ValueStates, Allowed
      <3> QED BY <2>1, <3>1, TokenizerRows, SlashRows DEF Slashing
    <2>2. CASE z[1] \in {"beforeAttr", "selfClosing"}
      <3>1. z[2] \in {"beforeAttr", "attrName", "afterName"} /\ k # "equals"
            /\ (z[1] = "selfClosing" => z[2] = "attrName") /\ (z[1] = "beforeAttr" => z[2] # "attrName")
        BY <2>2, TokenizerRows DEF Slashing, ValueStates, Allowed
      <3> QED BY <2>2, <3>1, TokenizerRows, SlashRows DEF Slashing
    <2>3. CASE z[1] \in {"attrName", "afterName", "afterQuoted"}
      <3>1. z[2] = z[1] /\ (z[1] = "afterQuoted" => k # "equals")
        BY <2>3, TokenizerRows DEF Slashing, ValueStates, Allowed
      <3> QED BY <2>3, <3>1, TokenizerRows, SlashRows DEF Slashing, ValueStates
    <2>4. CASE z[1] \in ValueStates
      <3>1. z[2] = z[1]
        BY <2>4 DEF Slashing, ValueStates
      <3> QED BY <2>4, <3>1, TokenizerRows, SlashRows DEF Slashing, ValueStates
    <2> QED BY <2>1, <2>2, <2>3, <2>4 DEF Slashing
  <1> QED BY <1>1, <1>2 DEF Coupled

\* No attribute's name begins with `=`, as far as character m.
NoLoneEquals(a, text, m) ==
    \A i \in 1 .. m : a[i] = "attrName" /\ a[i - 1] # "attrName" => text[i] # Equals

LEMMA InStep ==
    ASSUME NEW text, NEW m \in Nat, NEW a, NEW b, NEW table, NEW start, NEW R,
           Passes(a, Tokenizer, "tagName", text, m), Passes(b, table, start, text, m),
           m > 0 => text[1] \in {Space, Slash},
           NoLoneEquals(a, text, m), Coupled(R, table, start)
    PROVE  \A k \in 0 .. m : <<a[k], b[k]>> \in R /\ (k > 0 => a[k] # "tagName")
  <1> DEFINE T == {k \in Nat : <<a[k], b[k]>> \in R /\ (k > 0 => a[k] # "tagName")}
  <1>1. 0 \in T
    BY DEF Passes, Coupled
  <1>2. ASSUME NEW k \in 0 .. (m - 1), k \in T PROVE k + 1 \in T
    <2>1. k + 1 \in 1 .. m /\ (k + 1) - 1 = k /\ k \in Nat
      OBVIOUS
    <2> DEFINE c == ClassOf(text[k + 1])
               z == <<a[k], b[k]>>
    <2>2. a[k + 1] = Tokenizer[a[k]][c] /\ b[k + 1] = table[b[k]][c]
      BY <2>1 DEF Passes
    <2>3. c \in Columns /\ (c = "equals" <=> text[k + 1] = Equals)
          /\ (text[k + 1] \in {Space, Slash} => c \in {"space", "slash"})
      BY ColumnOfCharacter
    <2>4. z \in R /\ z[1] = a[k] /\ z[2] = b[k]
      BY <1>2
    <2>5. Allowed(a[k], c)
      <3>1. a[k] = "tagName" => c \in {"space", "slash"}
        BY <1>2, <2>1, <2>3
      <3>2. c = "equals" /\ Tokenizer[a[k]][c] = "attrName" => a[k] = "attrName"
        BY <2>1, <2>2, <2>3 DEF NoLoneEquals
      <3> QED BY <3>1, <3>2 DEF Allowed
    <2>6. <<a[k + 1], b[k + 1]>> \in R /\ a[k + 1] # "tagName"
      BY <2>2, <2>3, <2>4, <2>5 DEF Coupled
    <2> QED BY <2>1, <2>6
  <1>3. \A k \in 0 .. m : k \in T
    <2> HIDE DEF T
    <2> QED BY <1>1, <1>2, InductUpTo
  <1> QED BY <1>3

-------------------------------------------------------------------------------
(* One reading.                                                            *)

LEMMA TokenizerPasses ==
    ASSUME NEW text, Len(text) \in Nat, NamesBeginWithNoEquals(text)
    PROVE  LET a == Tokenized(text) IN
           /\ Passes(a, Tokenizer, "tagName", text, Len(text))
           /\ NoLoneEquals(a, text, Len(text))
           /\ NamesOfTokenizer(text) =
                 {i \in 1 .. Len(text) : a[i] = "attrName" /\ a[i - 1] # "attrName"}
  <1> DEFINE a == Tokenized(text)
             n == Len(text)
  <1>1. "tagName" \in TokenStates
    BY DEF TokenStates
  <1>2. Passes(a, Tokenizer, "tagName", text, n) /\ \A i \in 0 .. n : a[i] \in TokenStates
    BY <1>1, Tables, StatesPass DEF Tokenized
  <1>3. DOMAIN Tokenizer = TokenStates
    BY TokenizerRows
  <1> HIDE DEF a
  <1>4. ASSUME NEW i \in 1 .. n
        PROVE  a[i - 1] \in DOMAIN Tokenizer \ {"attrName"} <=> a[i - 1] # "attrName"
    <2>1. i - 1 \in 0 .. n
      OBVIOUS
    <2> QED BY <1>2, <1>3, <2>1
  <1>5. NameStarts(a, n, "attrName", DOMAIN Tokenizer \ {"attrName"}) =
            {i \in 1 .. n : a[i] = "attrName" /\ a[i - 1] # "attrName"}
    BY <1>4 DEF NameStarts
  <1>6. NoLoneEquals(a, text, n)
    BY <1>5 DEF NamesBeginWithNoEquals, NoLoneEquals, a
  <1> QED BY <1>2, <1>5, <1>6 DEF NamesOfTokenizer, a

LEMMA WalkersReadAlike ==
    ASSUME NEW text, Len(text) \in Nat, IsTagText(text), NamesBeginWithNoEquals(text),
           NEW l \in {"sep", "beforeValue"}
    PROVE  NamesOfWalker(text, WalkTable(l)) = NamesOfTokenizer(text)
  <1> DEFINE a == Tokenized(text)
             n == Len(text)
             b == States(WalkTable(l), "sep", text)
  <1>1. /\ Passes(a, Tokenizer, "tagName", text, n)
        /\ NoLoneEquals(a, text, n)
        /\ NamesOfTokenizer(text) = {i \in 1 .. n : a[i] = "attrName" /\ a[i - 1] # "attrName"}
    BY TokenizerPasses
  <1>2. "sep" \in WalkStates
    BY DEF WalkStates
  <1>3. Passes(b, WalkTable(l), "sep", text, n) /\ \A i \in 0 .. n : b[i] \in WalkStates
    <2>1. IsTable(WalkTable(l), WalkStates)
      BY Tables
    <2> QED BY <1>2, <2>1, StatesPass
  <1>4. NamesOfWalker(text, WalkTable(l)) =
            {i \in 1 .. n : b[i] = "name" /\ b[i - 1] \in {"sep", "afterName"}}
    BY DEF NamesOfWalker, NameStarts
  <1>5. n > 0 => text[1] \in {Space, Slash}
    BY DEF IsTagText
  <1> HIDE DEF a, b, n
  <1>6. \A k \in 0 .. n : <<a[k], b[k]>> \in Walking
    BY <1>1, <1>3, <1>5, WalkersCoupled, InStep DEF n
  <1>7. \A k \in 0 .. n : a[k] = "attrName" <=> b[k] = "name"
    BY <1>6 DEF Walking, ValueStates
  <1>8. ASSUME NEW i \in 1 .. n, b[i] = "name" PROVE b[i - 1] \in {"sep", "name", "afterName"}
    <2>1. i - 1 \in 0 .. n /\ b[i] = WalkTable(l)[b[i - 1]][ClassOf(text[i])]
      BY <1>3 DEF Passes, n
    <2>2. ClassOf(text[i]) \in Columns
      BY ColumnOfCharacter
    <2>3. b[i - 1] \notin ValueStates
      BY <1>8, <2>1, <2>2, WalkRows, TokenizerRows DEF ValueStates
    <2> QED BY <1>3, <2>1, <2>3 DEF WalkStates
  <1>9. ASSUME NEW i \in 1 .. n
        PROVE  /\ b[i] = "name" /\ b[i - 1] \in {"sep", "afterName"}
               <=> a[i] = "attrName" /\ a[i - 1] # "attrName"
    <2>1. i \in 0 .. n /\ i - 1 \in 0 .. n
      BY DEF n
    <2> QED BY <1>7, <1>8, <2>1
  <1> QED BY <1>1, <1>4, <1>9

LEMMA SlashReadAlike ==
    ASSUME NEW V, NEW text \in Seq(V), IsTagText(text), NamesBeginWithNoEquals(text)
    PROVE  SelfCloses(text) <=> TokenizerEnd(text) = "selfClosing"
  <1> DEFINE a == Tokenized(text)
             n == Len(text)
  <1>0. n \in Nat
    OBVIOUS
  <1>1. Passes(a, Tokenizer, "tagName", text, n) /\ NoLoneEquals(a, text, n)
    BY <1>0, TokenizerPasses
  <1>2. TokenizerEnd(text) = a[n]
    BY DEF TokenizerEnd
  <1>3. CASE n = 0
    <2>1. a[n] = "tagName"
      BY <1>1, <1>3 DEF Passes
    <2> QED BY <1>2, <1>3, <2>1 DEF SelfCloses
  <1>4. CASE n # 0
    <2> DEFINE p == SubSeq(text, 1, n - 1)
               b == States(SlashTable, "beforeAttr", p)
    <2>1. n - 1 \in Nat /\ n \in 1 .. n /\ n - 1 \in 0 .. (n - 1)
      BY <1>0, <1>4
    <2>2. Len(p) = n - 1 /\ \A i \in 1 .. (n - 1) : p[i] = text[i]
      <3>1. \A m \in Nat : m <= Len(text) =>
               LET q == SubSeq(text, 1, m) IN Len(q) = m /\ \A i \in 1 .. m : q[i] = text[i]
        OBVIOUS
      <3>2. n - 1 <= n
        BY <1>0
      <3> QED BY <2>1, <3>1, <3>2
    <2>3. SelfCloses(text) <=>
              text[n] = Slash /\ b[n - 1] \in {"beforeAttr", "attrName", "afterName", "afterQuoted"}
      BY <1>0, <1>4 DEF SelfCloses
    <2> HIDE DEF p
    <2>4. "beforeAttr" \in SlashStates
      BY DEF SlashStates
    <2>5. Passes(b, SlashTable, "beforeAttr", p, n - 1) /\ \A i \in 0 .. (n - 1) : b[i] \in SlashStates
      BY <2>1, <2>2, <2>4, Tables, StatesPass
    <2> HIDE DEF b
    <2>6. Passes(b, SlashTable, "beforeAttr", text, n - 1)
      BY <2>2, <2>5 DEF Passes
    <2>7. Passes(a, Tokenizer, "tagName", text, n - 1) /\ NoLoneEquals(a, text, n - 1)
      BY <1>1, <2>1 DEF Passes, NoLoneEquals
    <2>8. text # <<>> /\ text[1] \in {Space, Slash}
      BY <1>4 DEF IsTagText
    <2> HIDE DEF a, n
    <2>9. <<a[n - 1], b[n - 1]>> \in Slashing /\ (n - 1 > 0 => a[n - 1] # "tagName")
      BY <2>1, <2>6, <2>7, <2>8, SlashCoupled, InStep
    <2>10. a[n] = Tokenizer[a[n - 1]][ClassOf(text[n])]
      BY <1>1, <2>1 DEF Passes
    <2>11. ClassOf(text[n]) \in Columns /\ (ClassOf(text[n]) = "slash" <=> text[n] = Slash)
      BY ColumnOfCharacter
    <2>12. a[n] = "selfClosing" <=> text[n] = Slash /\ a[n - 1] \notin ValueStates
      <3>1. a[n - 1] \in TokenStates
        BY <2>9 DEF Slashing, TokenStates, ValueStates
      <3> QED BY <2>10, <2>11, <3>1, TokenizerRows DEF TokenStates, ValueStates
    <2>13. a[n - 1] \notin ValueStates <=>
               b[n - 1] \in {"beforeAttr", "attrName", "afterName", "afterQuoted"}
      BY <2>9 DEF Slashing, ValueStates
    <2> QED BY <1>2, <2>3, <2>12, <2>13
  <1> QED BY <1>3, <1>4

\* In every open tag whose names do not begin with `=`, whatever its length, the
\* walkers find attributes exactly where the tokenizer does, and the last slash closes
\* the tag for the scan exactly if it does for the tokenizer (attrAwareOpenTagEnd,
\* forEachAttr, forEachAttrName, terminalSelfCloseSlash).
THEOREM TagTextsReadAlike ==
    ASSUME NEW V, NEW text \in Seq(V), IsTagText(text), NamesBeginWithNoEquals(text)
    PROVE  ReadAlike(text)
  <1>1. Len(text) \in Nat
    OBVIOUS
  <1>2. NamesOfWalker(text, Skipping) = NamesOfTokenizer(text)
    BY <1>1, WalkersReadAlike DEF Skipping
  <1>3. NamesOfWalker(text, Nameless) = NamesOfTokenizer(text)
    BY <1>1, WalkersReadAlike DEF Nameless
  <1>4. SelfCloses(text) <=> TokenizerEnd(text) = "selfClosing"
    BY SlashReadAlike
  <1> QED BY <1>2, <1>3, <1>4 DEF ReadAlike

-------------------------------------------------------------------------------
(* Every tag an author writes is one of these.                             *)

\* Until the first publish the text is made of the pieces an author writes.
TextIsWritten == ~published => html \in Seq(Written)

LEMMA PiecesAreWritten ==
    ASSUME NEW piece \in Written
    PROVE  /\ DOMAIN piece = {"kind", "tag", "text"}
           /\ piece.text \in Seq(Character)
           /\ piece.kind = "open" => IsTagText(piece.text)
           /\ \A text \in Seq(Character) :
                 IsTagText(text) => [piece EXCEPT !.text = text] \in Written
  BY DEF Written

LEMMA WrittenHolds == Spec => []TextIsWritten
  <1>1. Init => TextIsWritten
    BY DEF Init, TextIsWritten
  <1>2. TextIsWritten /\ [Next]_vars => TextIsWritten'
    <2> SUFFICES ASSUME TextIsWritten, [Next]_vars, ~published' PROVE html' \in Seq(Written)
      BY DEF TextIsWritten
    <2>1. CASE Write
      <3>1. html \in Seq(Written)
        BY <2>1 DEF Write, TextIsWritten
      <3>2. CASE \E piece \in Pieces : html' = Append(html, piece)
        <4>1. PICK piece \in Pieces : html' = Append(html, piece)
          BY <3>2
        <4>2. piece \in Written
          BY <4>1, WritingAssumption
        <4> QED BY <3>1, <4>1, <4>2
      <3>3. CASE /\ html # <<>>
                 /\ html[Len(html)].kind = "open"
                 /\ \E c \in Letters :
                       LET text == Append(html[Len(html)].text, c) IN
                       IsTagText(text) /\ html' = [html EXCEPT ![Len(html)].text = text]
        <4> DEFINE n == Len(html)
        <4>1. PICK c \in Letters : /\ IsTagText(Append(html[n].text, c))
                                   /\ html' = [html EXCEPT ![n].text = Append(html[n].text, c)]
          BY <3>3
        <4>2. n \in Nat /\ n \in 1 .. n /\ n \in DOMAIN html
          BY <3>1, <3>3
        <4>3. html[n] \in Written
          BY <3>1, <4>2
        <4> DEFINE text == Append(html[n].text, c)
                   piece == [html[n] EXCEPT !.text = text]
        <4>4. text \in Seq(Character)
          BY <4>1, <4>3, WritingAssumption, PiecesAreWritten
        <4>5. piece \in Written
          BY <4>1, <4>3, <4>4, PiecesAreWritten
        <4>6. html' = [html EXCEPT ![n] = piece]
          BY <4>1
        <4> HIDE DEF n, piece
        <4>7. \A s \in Seq(Written) : \A k \in DOMAIN s, x \in Written :
                 [s EXCEPT ![k] = x] \in Seq(Written)
          OBVIOUS
        <4> QED BY <3>1, <4>2, <4>5, <4>6, <4>7
      <3> QED BY <2>1, <3>2, <3>3 DEF Write
    <2>2. CASE FirstPublish
      BY <2>2 DEF FirstPublish
    <2>3. CASE Republish
      BY <2>3 DEF Republish
    <2>4. CASE \E aid \in {index[i].aid : i \in DOMAIN index}, fragment \in Fragments :
                  ReplaceElement(aid, fragment)
      BY <2>4 DEF ReplaceElement
    <2>5. CASE UNCHANGED vars
      BY <2>5 DEF vars, TextIsWritten
    <2> QED BY <2>1, <2>2, <2>3, <2>4, <2>5 DEF Next
  <1> QED BY <1>1, <1>2, PTL DEF Spec

-------------------------------------------------------------------------------
(* The identity in the text of a tag: where it is taken out, and why what is *)
(* left is the text of a tag again.                                          *)

LEMMA WordsDiffer ==
    /\ Slash # Space /\ Equals # Space /\ DQuote # Space /\ AIDName # Space
    /\ Equals # Slash /\ DQuote # Slash /\ AIDName # Slash
    /\ DQuote # Equals /\ AIDName # Equals /\ AIDName # DQuote
    /\ ClassOf(Space) = "space" /\ ClassOf(Equals) = "equals" /\ ClassOf(DQuote) = "dquote"
    /\ ClassOf(AIDName) = "other"
    /\ \A c : ClassOf(c) = "other" => c \notin {Space, Slash, Equals, DQuote}
  <1>1. \A x, y : <<x>> = <<y>> => x = y
    <2> TAKE x, y
    <2> HAVE <<x>> = <<y>>
    <2>1. <<x>>[1] = <<y>>[1]
      OBVIOUS
    <2> QED BY <2>1
  <1>2. /\ Slash # Space /\ Equals # Space /\ DQuote # Space /\ SQuote # Space
        /\ Equals # Slash /\ DQuote # Slash /\ SQuote # Slash
        /\ DQuote # Equals /\ SQuote # Equals /\ SQuote # DQuote
    BY <1>1 DEF Space, Slash, Equals, DQuote, SQuote
  <1>3. AIDName \notin {Space, Slash, Equals, DQuote, SQuote}
    BY <1>1 DEF AIDName, Space, Slash, Equals, DQuote, SQuote
  <1>4. ClassOf(Space) = "space" /\ ClassOf(Slash) = "slash" /\ ClassOf(Equals) = "equals"
        /\ ClassOf(DQuote) = "dquote"
    BY <1>2 DEF ClassOf
  <1>5. ClassOf(AIDName) = "other"
    BY <1>3 DEF ClassOf
  <1>6. \A c : ClassOf(c) = "other" => c \notin {Space, Slash, Equals, DQuote}
    BY <1>4
  <1> QED BY <1>2, <1>3, <1>4, <1>5, <1>6

\* The run of states in S that begins at i is the one that ends at j.
LEMMA RunEnds ==
    ASSUME NEW st, NEW n \in Nat, NEW i \in 1 .. (n + 1), NEW S
    PROVE  LET e == RunEnd(st, i, n, S) IN
           /\ e \in (i - 1) .. n
           /\ \A k \in i .. e : st[k] \in S
           /\ e = n \/ st[e + 1] \notin S
           /\ \A j \in (i - 1) .. n :
                 (\A k \in i .. j : st[k] \in S) /\ (j = n \/ st[j + 1] \notin S) => e = j
  <1> DEFINE J == {j \in (i - 1) .. n : \A k \in i .. j : st[k] \in S}
             Ends(j) == /\ \A k \in i .. j : st[k] \in S
                        /\ (j = n \/ st[j + 1] \notin S)
             e == RunEnd(st, i, n, S)
  <1>1. i - 1 \in J
    OBVIOUS
  <1>2. PICK j \in J : \A k \in J : k <= j
    <2>1. J \in SUBSET Nat /\ J # {} /\ \A k \in J : k <= n
      BY <1>1
    <2> HIDE DEF J
    <2> QED BY <2>1, GreatestOf
  <1>3. j \in (i - 1) .. n /\ Ends(j)
    <2>1. j \in (i - 1) .. n /\ \A k \in i .. j : st[k] \in S
      OBVIOUS
    <2>2. ASSUME j # n, st[j + 1] \in S PROVE FALSE
      <3>1. j + 1 \in (i - 1) .. n /\ \A k \in i .. (j + 1) : k \in i .. j \/ k = j + 1
        BY <2>1, <2>2
      <3>2. j + 1 \in J
        BY <2>1, <2>2, <3>1
      <3> HIDE DEF J
      <3> QED BY <1>2, <2>1, <3>2
    <2> QED BY <2>1, <2>2
  <1> HIDE DEF J
  <1>4. e = CHOOSE k \in (i - 1) .. n : Ends(k)
    BY DEF RunEnd
  <1> HIDE DEF e
  <1>5. e \in (i - 1) .. n /\ Ends(e)
    <2> HIDE DEF Ends
    <2> QED BY <1>3, <1>4
  <1>6. ASSUME NEW g \in (i - 1) .. n, NEW h \in (i - 1) .. n, Ends(g), Ends(h) PROVE ~(g < h)
    <2> SUFFICES ASSUME g < h PROVE FALSE
      OBVIOUS
    <2>1. g + 1 \in i .. h /\ g # n
      OBVIOUS
    <2> QED BY <1>6, <2>1
  <1>7. ASSUME NEW k \in (i - 1) .. n, Ends(k) PROVE e = k
    <2>1. ~(e < k) /\ ~(k < e)
      <3> HIDE DEF Ends
      <3> QED BY <1>5, <1>6, <1>7
    <2> QED BY <1>5, <2>1
  <1> QED BY <1>5, <1>7 DEF e

LEMMA SpacesStart ==
    ASSUME NEW t, NEW i \in Nat \ {0}
    PROVE  LET s == SpaceStart(t, i) IN
           /\ s \in 1 .. i
           /\ \A k \in s .. (i - 1) : t[k] = Space
           /\ s = 1 \/ t[s - 1] # Space
  <1> DEFINE J == {j \in 1 .. i : \A k \in j .. (i - 1) : t[k] = Space}
             Starts(j) == /\ \A k \in j .. (i - 1) : t[k] = Space
                          /\ (j = 1 \/ t[j - 1] # Space)
             s == SpaceStart(t, i)
  <1>1. i \in J
    OBVIOUS
  <1>2. PICK j \in J : \A k \in J : j <= k
    <2>1. J \in SUBSET Nat /\ J # {}
      BY <1>1
    <2> HIDE DEF J
    <2> QED BY <2>1, LeastOf
  <1>3. j \in 1 .. i /\ Starts(j)
    <2>1. j \in 1 .. i /\ \A k \in j .. (i - 1) : t[k] = Space
      OBVIOUS
    <2>2. ASSUME j # 1, t[j - 1] = Space PROVE FALSE
      <3>1. j - 1 \in 1 .. i /\ \A k \in (j - 1) .. (i - 1) : k \in j .. (i - 1) \/ k = j - 1
        BY <2>1, <2>2
      <3>2. j - 1 \in J
        BY <2>1, <2>2, <3>1
      <3> HIDE DEF J
      <3> QED BY <1>2, <2>1, <3>2
    <2> QED BY <2>1, <2>2
  <1> HIDE DEF J
  <1>4. s = CHOOSE k \in 1 .. i : Starts(k)
    BY DEF SpaceStart
  <1> HIDE DEF s
  <1>5. s \in 1 .. i /\ Starts(s)
    <2> HIDE DEF Starts
    <2> QED BY <1>3, <1>4
  <1> QED BY <1>5 DEF s

LEMMA Slices ==
    ASSUME NEW V, NEW s \in Seq(V), NEW i \in 1 .. (Len(s) + 1), NEW k \in (i - 1) .. Len(s)
    PROVE  /\ SubSeq(s, i, k) \in Seq(V)
           /\ Len(SubSeq(s, i, k)) = k - i + 1
           /\ \A j \in 1 .. (k - i + 1) : SubSeq(s, i, k)[j] = s[i + j - 1]
  OBVIOUS

\* The states of the walker that takes identities out.
Walks(st, t) ==
    /\ Passes(st, Skipping, "sep", t, Len(t))
    /\ \A i \in 0 .. Len(t) : st[i] \in WalkStates

LEMMA StripperWalks ==
    ASSUME NEW V, NEW t \in Seq(V)
    PROVE  Walks(States(Skipping, "sep", t), t)
  <1>1. "sep" \in WalkStates /\ Len(t) \in Nat
    BY DEF WalkStates
  <1>2. IsTable(WalkTable("sep"), WalkStates)
    BY Tables
  <1> QED BY <1>1, <1>2, StatesPass DEF Walks, Skipping

\* The attribute whose name begins at i: it has the name of the identity if that
\* is the word there and the name goes no further.
LEMMA AttributeAt ==
    ASSUME NEW V, NEW t \in Seq(V), NEW st, NEW i \in 1 .. Len(t), st[i] = "name"
    PROVE  LET a == Attribute(t, st, i) IN
           /\ a.from = i
           /\ a.end \in i .. Len(t)
           /\ a.name = <<AIDName>> <=> t[i] = AIDName /\ (i = Len(t) \/ st[i + 1] # "name")
           /\ /\ i + 4 <= Len(t)
              /\ st[i + 1] = "beforeValue" /\ st[i + 2] = "double" /\ st[i + 3] = "double"
              /\ st[i + 4] = "sep"
              => a.end = i + 4
  <1> DEFINE n == Len(t)
             ne == RunEnd(st, i, n, {"name"})
             v == RunEnd(st, ne + 1, n, {"afterName"}) + 1
             ve == RunEnd(st, v, n, InValue)
             quoted == ve >= v /\ st[ve] \in {"double", "single"}
             a == Attribute(t, st, i)
  <1>0. n \in Nat /\ i \in 1 .. (n + 1) /\ i \in 1 .. n
    OBVIOUS
  <1>a. a.from = i /\ a.name = SubSeq(t, i, ne)
        /\ a.end = IF ve < v THEN ne ELSE IF quoted /\ ve < n THEN ve + 1 ELSE ve
    BY DEF Attribute
  <1>1. /\ ne \in (i - 1) .. n
        /\ ne = n \/ st[ne + 1] \notin {"name"}
        /\ \A k \in i .. ne : st[k] \in {"name"}
        /\ \A j \in (i - 1) .. n :
              (\A k \in i .. j : st[k] \in {"name"}) /\ (j = n \/ st[j + 1] \notin {"name"}) => ne = j
    <2> HIDE DEF n
    <2> QED BY <1>0, RunEnds
  <1>s. ne \in i .. n => Len(SubSeq(t, i, ne)) = ne - i + 1 /\ SubSeq(t, i, ne)[1] = t[i]
    <2> HIDE DEF ne
    <2> SUFFICES ASSUME ne \in i .. n
                 PROVE  Len(SubSeq(t, i, ne)) = ne - i + 1 /\ SubSeq(t, i, ne)[1] = t[i]
      OBVIOUS
    <2>1. i \in 1 .. (Len(t) + 1) /\ ne \in (i - 1) .. Len(t) /\ 1 \in 1 .. (ne - i + 1) /\ i + 1 - 1 = i
      BY <1>0
    <2> QED BY <2>1, Slices
  <1> HIDE DEF a, ne
  <1>2. ne \in i .. n
    <2>1. ne # i - 1
      BY <1>0, <1>1
    <2> QED BY <1>0, <1>1, <2>1
  <1>3. v \in (ne + 1) .. (n + 1)
    <2>1. ne + 1 \in 1 .. (n + 1) /\ (ne + 1) - 1 = ne
      BY <1>0, <1>2
    <2> HIDE DEF n
    <2>2. RunEnd(st, ne + 1, n, {"afterName"}) \in ne .. n
      BY <1>0, <2>1, RunEnds
    <2> QED BY <1>0, <1>2, <2>2
  <1> HIDE DEF v
  <1>4. ve \in (v - 1) .. n
    <2>1. v \in 1 .. (n + 1)
      BY <1>0, <1>2, <1>3
    <2> HIDE DEF n
    <2> QED BY <1>0, <2>1, RunEnds
  <1> HIDE DEF ve
  <1>5. a.end \in i .. n
    BY <1>0, <1>a, <1>2, <1>3, <1>4
  <1>6. a.name = <<AIDName>> <=> t[i] = AIDName /\ (i = n \/ st[i + 1] # "name")
    <2>1. ASSUME a.name = <<AIDName>> PROVE ne = i /\ t[i] = AIDName
      <3>1. Len(<<AIDName>>) = 1 /\ <<AIDName>>[1] = AIDName
        OBVIOUS
      <3> QED BY <1>0, <1>a, <1>s, <1>2, <2>1, <3>1
    <2>2. ne = i => i = n \/ st[i + 1] # "name"
      BY <1>1
    <2>3. ASSUME i = n \/ st[i + 1] # "name" PROVE ne = i
      <3>1. i \in (i - 1) .. n /\ \A k \in i .. i : k = i
        BY <1>0
      <3> QED BY <1>1, <2>3, <3>1
    <2>4. ne = i => a.name = <<t[i]>>
      <3> SUFFICES ASSUME ne = i PROVE SubSeq(t, i, i) = <<t[i]>>
        BY <1>a
      <3>1. SubSeq(t, i, i) \in Seq(V) /\ Len(SubSeq(t, i, i)) = 1 /\ SubSeq(t, i, i)[1] = t[i]
        <4>1. i \in 1 .. (Len(t) + 1) /\ i \in (i - 1) .. Len(t) /\ i - i + 1 = 1 /\ 1 \in 1 .. 1 /\ i + 1 - 1 = i
          BY <1>0
        <4> QED BY <4>1, Slices
      <3> DEFINE x == SubSeq(t, i, i)
      <3> HIDE DEF x
      <3>2. x \in Seq(V) /\ Len(x) = 1 /\ x[1] = t[i]
        BY <3>1 DEF x
      <3>3. x = <<x[1]>>
        BY <3>2
      <3> QED BY <3>2, <3>3 DEF x
    <2> QED BY <2>1, <2>2, <2>3, <2>4
  <1>7. ASSUME i + 4 <= n, st[i + 1] = "beforeValue", st[i + 2] = "double", st[i + 3] = "double",
               st[i + 4] = "sep"
        PROVE  a.end = i + 4
    <2>0. i + 1 \in 1 .. n /\ i + 1 <= n + 1 /\ i + 3 \in (i + 1) .. n /\ i + 3 < n
      BY <1>0, <1>7
    <2>1. ne = i
      <3>1. i \in (i - 1) .. n /\ \A k \in i .. i : k = i
        BY <1>0
      <3> QED BY <1>1, <1>7, <3>1
    <2>2. RunEnd(st, i + 1, n, {"afterName"}) = i
      <3>1. i \in ((i + 1) - 1) .. n /\ \A k \in (i + 1) .. i : FALSE
        BY <1>0
      <3>2. i + 1 \in 1 .. (n + 1)
        BY <2>0
      <3> HIDE DEF n
      <3> QED BY <1>0, <1>7, <3>1, <3>2, RunEnds
    <2>3. v = i + 1
      BY <2>1, <2>2 DEF v
    <2>4. RunEnd(st, i + 1, n, InValue) = i + 3
      <3>1. i + 3 \in ((i + 1) - 1) .. n /\ \A k \in (i + 1) .. (i + 3) : k \in {i + 1, i + 2, i + 3}
        BY <1>0, <2>0
      <3>2. \A k \in (i + 1) .. (i + 3) : st[k] \in InValue
        BY <1>7, <3>1 DEF InValue
      <3>3. (i + 3) + 1 = i + 4 /\ st[(i + 3) + 1] \notin InValue
        BY <1>0, <1>7 DEF InValue
      <3>4. i + 1 \in 1 .. (n + 1)
        BY <2>0
      <3> HIDE DEF n
      <3> QED BY <1>0, <3>1, <3>2, <3>3, <3>4, RunEnds
    <2>5. ve = i + 3
      BY <2>3, <2>4 DEF ve
    <2>6. quoted /\ ~(ve < v) /\ ve < n
      BY <1>0, <1>7, <2>0, <2>3, <2>5
    <2> QED BY <1>0, <1>a, <2>5, <2>6
  <1> QED BY <1>a, <1>5, <1>6, <1>7 DEF a

\* At i the name of the identity goes on to be another name, or it is the one of an
\* identity: in double quotes, and at the end or before a space or a slash.
Longer(t, i) == i < Len(t) /\ ClassOf(t[i + 1]) \notin {"space", "slash", "equals"}

Shaped(t, i) ==
    /\ i + 4 <= Len(t)
    /\ t[i + 1] = Equals /\ t[i + 2] = DQuote /\ t[i + 4] = DQuote
    /\ ClassOf(t[i + 3]) = "other" /\ t[i + 3] # AIDName
    /\ i + 4 < Len(t) => t[i + 5] \in {Space, Slash}

\* What the stamper leaves in a tag, and what an author may write in one.
Stamper(t) ==
    /\ IsTagText(t)
    /\ \A i \in DOMAIN t : t[i] = AIDName => Longer(t, i) \/ Shaped(t, i)

\* The text of a tag without an identity.
Bare(t) == IsTagText(t) /\ \A i \in DOMAIN t : t[i] = AIDName => Longer(t, i)

Author(t) == IsTagText(t) /\ NameIsApart(t) /\ AIDBeginsNames(t)

Fine(t) == Stamper(t) \/ Author(t)

\* The identities that are taken out.
Identities(t) == Named(t, Skipping, AIDName)

\* One of them is where its name is, which goes no further.
LEMMA IdentityAt ==
    ASSUME NEW V, NEW t \in Seq(V), NEW a \in Identities(t)
    PROVE  /\ a.from \in 1 .. Len(t) /\ a.end \in a.from .. Len(t)
           /\ t[a.from] = AIDName
           /\ ~Longer(t, a.from)
           /\ Shaped(t, a.from) => a.end = a.from + 4
           /\ a.from > 1 => ClassOf(t[a.from - 1]) # "other"
  <1> DEFINE n == Len(t)
             st == States(Skipping, "sep", t)
             i == a.from
  <1>1. Walks(st, t) /\ n \in Nat
    BY StripperWalks
  <1>2. PICK k \in NameStarts(st, n, "name", {"sep", "afterName"}) :
            a = Attribute(t, st, k) /\ a.name = <<AIDName>>
    BY DEF Identities, Named, AttributesAt
  <1>3. k \in 1 .. n /\ st[k] = "name" /\ st[k - 1] \in {"sep", "afterName"}
    BY <1>2 DEF NameStarts
  <1> HIDE DEF st
  <1>4. /\ i = k /\ a.end \in k .. n
        /\ t[k] = AIDName /\ (k = n \/ st[k + 1] # "name")
        /\ /\ k + 4 <= n
           /\ st[k + 1] = "beforeValue" /\ st[k + 2] = "double" /\ st[k + 3] = "double"
           /\ st[k + 4] = "sep"
           => a.end = k + 4
    BY <1>2, <1>3, AttributeAt
  <1>5. \A j \in 1 .. n : st[j] = Skipping[st[j - 1]][ClassOf(t[j])] /\ st[j - 1] \in WalkStates
    <2> TAKE j \in 1 .. n
    <2>1. j - 1 \in 0 .. n
      BY <1>1
    <2> QED BY <1>1, <2>1 DEF Walks, Passes
  <1>6. \A c : ClassOf(c) \in Columns
    BY ColumnOfCharacter
  <1>r. \A c \in Columns :
              /\ Skipping["sep"][c] = IF c \in {"space", "slash", "equals"} THEN "sep" ELSE "name"
              /\ Skipping["name"][c] = IF c = "space" THEN "afterName" ELSE IF c = "slash" THEN "sep"
                                       ELSE IF c = "equals" THEN "beforeValue" ELSE "name"
              /\ Skipping["afterName"][c] = IF c = "space" THEN "afterName" ELSE IF c = "slash" THEN "sep"
                                       ELSE IF c = "equals" THEN "beforeValue" ELSE "name"
              /\ Skipping["beforeValue"][c] = IF c = "space" THEN "beforeValue"
                                              ELSE IF c = "dquote" THEN "double"
                                              ELSE IF c = "squote" THEN "single" ELSE "unquoted"
              /\ Skipping["double"][c] = IF c = "dquote" THEN "sep" ELSE "double"
              /\ Skipping["single"][c] = IF c = "squote" THEN "sep" ELSE "single"
              /\ Skipping["unquoted"][c] = IF c = "space" THEN "sep" ELSE "unquoted"
    BY WalkRows, TokenizerRows DEF Skipping
  <1> HIDE DEF n
  <1>7. ~Longer(t, k)
    <2> SUFFICES ASSUME Longer(t, k) PROVE FALSE
      OBVIOUS
    <2>1. k + 1 \in 1 .. n /\ (k + 1) - 1 = k /\ k # n
      BY <1>1, <1>3 DEF Longer, n
    <2>2. st[k + 1] = Skipping["name"][ClassOf(t[k + 1])]
      BY <1>3, <1>5, <2>1
    <2>3. st[k + 1] = "name"
      BY <1>6, <1>r, <2>2 DEF Longer
    <2> QED BY <1>4, <2>1, <2>3
  <1>8. ASSUME Shaped(t, k) PROVE a.end = k + 4
    <2>1. k + 4 <= n /\ ClassOf(t[k + 1]) = "equals" /\ ClassOf(t[k + 2]) = "dquote"
          /\ ClassOf(t[k + 3]) = "other" /\ ClassOf(t[k + 4]) = "dquote"
      BY <1>8, WordsDiffer DEF Shaped, n
    <2>2. \A j \in 1 .. 4 : k + j \in 1 .. n /\ (k + j) - 1 = k + (j - 1)
      BY <1>1, <1>3, <2>1
    <2>3. /\ st[k + 1] = Skipping[st[k]]["equals"]
          /\ st[k + 2] = Skipping[st[k + 1]]["dquote"]
          /\ st[k + 3] = Skipping[st[k + 2]]["other"]
          /\ st[k + 4] = Skipping[st[k + 3]]["dquote"]
      <3>1. \A j \in 1 .. 4 : st[k + j] = Skipping[st[k + (j - 1)]][ClassOf(t[k + j])]
        BY <1>5, <2>2
      <3>2. k + (1 - 1) = k /\ k + (2 - 1) = k + 1 /\ k + (3 - 1) = k + 2 /\ k + (4 - 1) = k + 3
        BY <1>3
      <3> QED BY <2>1, <3>1, <3>2
    <2>4. st[k + 1] = "beforeValue"
      BY <1>3, <1>r, <2>3 DEF Columns
    <2>5. st[k + 2] = "double"
      BY <1>r, <2>3, <2>4 DEF Columns
    <2>6. st[k + 3] = "double"
      BY <1>r, <2>3, <2>5 DEF Columns
    <2>7. st[k + 4] = "sep"
      BY <1>r, <2>3, <2>6 DEF Columns
    <2> QED BY <1>4, <2>1, <2>4, <2>5, <2>6, <2>7
  <1>9. ASSUME k > 1, ClassOf(t[k - 1]) = "other" PROVE FALSE
    <2>1. k - 1 \in 1 .. n
      BY <1>1, <1>3, <1>9
    <2>2. st[k - 1] = Skipping[st[(k - 1) - 1]]["other"] /\ st[(k - 1) - 1] \in WalkStates
      BY <1>5, <1>9, <2>1
    <2>3. st[k - 1] \notin {"sep", "afterName"}
      <3> DEFINE s == st[(k - 1) - 1]
      <3> HIDE DEF s
      <3>1. s \in WalkStates => Skipping[s]["other"] \notin {"sep", "afterName"}
        BY <1>r DEF WalkStates, ValueStates, Columns
      <3> QED BY <2>2, <3>1 DEF s
    <2> QED BY <1>3, <2>3
  <1> QED BY <1>1, <1>3, <1>4, <1>7, <1>8, <1>9 DEF n

\* The positions that stay.
Staying(t) == DOMAIN t \ UNION {Dropped(t, a) : a \in Identities(t)}

LEMMA GoneWith ==
    ASSUME NEW V, NEW t \in Seq(V), NEW k \in 1 .. Len(t), k \notin Staying(t)
    PROVE  \E a \in Identities(t) :
              \E s \in 1 .. a.from :
                 /\ Dropped(t, a) = s .. a.end
                 /\ k \in s .. a.end
                 /\ \A j \in s .. (a.from - 1) : t[j] = Space
  <1>1. PICK a \in Identities(t) : k \in Dropped(t, a)
    BY DEF Staying
  <1>2. a.from \in Nat \ {0}
    BY IdentityAt
  <1> DEFINE s == SpaceStart(t, a.from)
  <1>3. s \in 1 .. a.from /\ \A j \in s .. (a.from - 1) : t[j] = Space
    BY <1>2, SpacesStart
  <1>4. Dropped(t, a) = s .. a.end
    BY DEF Dropped
  <1> HIDE DEF s
  <1> QED BY <1>1, <1>3, <1>4

\* What follows an identity of the stamper once it is gone.
LEMMA AfterIdentity ==
    ASSUME NEW V, NEW t \in Seq(V), Stamper(t),
           NEW k \in Staying(t), k > 1, k - 1 \notin Staying(t)
    PROVE  t[k] \in {Space, Slash}
  <1>0. k \in 1 .. Len(t) /\ k - 1 \in 1 .. Len(t)
    BY DEF Staying
  <1>1. PICK a \in Identities(t) : \E s \in 1 .. a.from :
            /\ Dropped(t, a) = s .. a.end
            /\ k - 1 \in s .. a.end
    BY <1>0, GoneWith
  <1>2. PICK s \in 1 .. a.from : Dropped(t, a) = s .. a.end /\ k - 1 \in s .. a.end
    BY <1>1
  <1>3. k \notin s .. a.end
    BY <1>2 DEF Staying
  <1>4. /\ a.from \in 1 .. Len(t) /\ a.end \in a.from .. Len(t)
        /\ t[a.from] = AIDName /\ ~Longer(t, a.from)
        /\ Shaped(t, a.from) => a.end = a.from + 4
    BY IdentityAt
  <1>5. a.from \in DOMAIN t
    BY <1>4
  <1>6. Shaped(t, a.from)
    BY <1>4, <1>5 DEF Stamper
  <1>7. k = a.from + 5
    BY <1>0, <1>2, <1>3, <1>4, <1>6
  <1> QED BY <1>0, <1>4, <1>6, <1>7 DEF Shaped

\* A name that goes on stays together.
LEMMA LongerStays ==
    ASSUME NEW V, NEW t \in Seq(V), NEW i \in Staying(t), t[i] = AIDName, Longer(t, i)
    PROVE  i + 1 \in Staying(t)
  <1> SUFFICES ASSUME i + 1 \notin Staying(t) PROVE FALSE
    OBVIOUS
  <1>0. i \in 1 .. Len(t) /\ i + 1 \in 1 .. Len(t)
    BY DEF Staying, Longer
  <1>1. PICK a \in Identities(t) : \E s \in 1 .. a.from :
            /\ Dropped(t, a) = s .. a.end
            /\ i + 1 \in s .. a.end
            /\ \A j \in s .. (a.from - 1) : t[j] = Space
    BY <1>0, GoneWith
  <1>2. PICK s \in 1 .. a.from :
            /\ Dropped(t, a) = s .. a.end
            /\ i + 1 \in s .. a.end
            /\ \A j \in s .. (a.from - 1) : t[j] = Space
    BY <1>1
  <1>3. a.from \in 1 .. Len(t) /\ a.end \in a.from .. Len(t)
        /\ (a.from > 1 => ClassOf(t[a.from - 1]) # "other")
    BY IdentityAt
  <1>4. i \notin s .. a.end
    BY <1>2 DEF Staying
  <1>5. s = i + 1
    BY <1>0, <1>2, <1>3, <1>4
  <1>6. t[i + 1] # Space
    BY WordsDiffer DEF Longer
  <1>7. a.from = i + 1
    BY <1>0, <1>2, <1>3, <1>5, <1>6
  <1>8. a.from > 1 /\ a.from - 1 = i
    BY <1>0, <1>7
  <1> QED BY <1>3, <1>8, WordsDiffer

\* So does an identity of the stamper's shape, should it not be read as one.
LEMMA ShapedStays ==
    ASSUME NEW V, NEW t \in Seq(V), NEW i \in Staying(t), t[i] = AIDName, Shaped(t, i)
    PROVE  \A q \in 1 .. 4 : i + q \in Staying(t)
  <1> SUFFICES ASSUME NEW q \in 1 .. 4, i + q \notin Staying(t) PROVE FALSE
    OBVIOUS
  <1>0. i \in 1 .. Len(t) /\ i + q \in 1 .. Len(t) /\ i + 4 <= Len(t)
    BY DEF Staying, Shaped
  <1>1. PICK a \in Identities(t) : \E s \in 1 .. a.from :
            /\ Dropped(t, a) = s .. a.end
            /\ i + q \in s .. a.end
            /\ \A j \in s .. (a.from - 1) : t[j] = Space
    BY <1>0, GoneWith
  <1>2. PICK s \in 1 .. a.from :
            /\ Dropped(t, a) = s .. a.end
            /\ i + q \in s .. a.end
            /\ \A j \in s .. (a.from - 1) : t[j] = Space
    BY <1>1
  <1>3. a.from \in 1 .. Len(t) /\ a.end \in a.from .. Len(t) /\ t[a.from] = AIDName
    BY IdentityAt
  <1>4. i \notin s .. a.end
    BY <1>2 DEF Staying
  <1>5. s \in {i + 1, i + 2, i + 3, i + 4}
    BY <1>0, <1>2, <1>3, <1>4
  <1>6. t[s] # Space /\ t[s] # AIDName
    BY <1>5, WordsDiffer DEF Shaped
  <1>7. a.from = s
    BY <1>2, <1>3, <1>6
  <1> QED BY <1>3, <1>6, <1>7

\* Neighbours in a subsequence.
Neighbours(at, s, K, r, j) ==
    /\ at[j] \in K /\ r[j] = s[at[j]]
    /\ j < Len(r) => /\ at[j + 1] \in K /\ at[j] < at[j + 1]
                     /\ \A k \in K : k <= at[j] \/ k >= at[j + 1]
    /\ \A k \in K : at[1] <= k
    /\ at[j] + 1 \in K => j < Len(r) /\ at[j + 1] = at[j] + 1

LEMMA NextPicked ==
    ASSUME NEW n \in Nat, NEW K \in SUBSET (1 .. n), NEW s, NEW r, NEW at,
           Len(r) \in Nat, Picks(at, s, K, r), NEW j \in 1 .. Len(r)
    PROVE  Neighbours(at, s, K, r, j)
  <1> DEFINE m == Len(r)
  <1>1. /\ \A k \in 1 .. m : at[k] \in K /\ at[k] \in Nat /\ r[k] = s[at[k]]
        /\ \A h, k \in 1 .. m : h < k => at[h] < at[k]
        /\ \A i \in K : \E k \in 1 .. m : at[k] = i
    <2>1. \A k \in K : k \in Nat
      OBVIOUS
    <2> QED BY <2>1 DEF Picks
  <1>2. m \in Nat /\ j \in 1 .. m
    OBVIOUS
  <1> HIDE DEF m
  <1>3. \A h, k \in 1 .. m : at[h] < at[k] => h < k
    <2> SUFFICES ASSUME NEW h \in 1 .. m, NEW k \in 1 .. m, at[h] < at[k], ~(h < k) PROVE FALSE
      OBVIOUS
    <2>1. h = k \/ k < h
      BY <1>2
    <2>2. at[h] = at[k] \/ at[k] < at[h]
      BY <1>1, <2>1
    <2> QED BY <1>1, <2>2
  <1>4. ASSUME j < m
        PROVE  /\ at[j + 1] \in K /\ at[j] < at[j + 1]
               /\ \A k \in K : k <= at[j] \/ k >= at[j + 1]
    <2>1. j + 1 \in 1 .. m /\ j < j + 1
      BY <1>2, <1>4
    <2>2. ASSUME NEW k \in K, ~(k <= at[j]), ~(k >= at[j + 1]) PROVE FALSE
      <3>1. PICK h \in 1 .. m : at[h] = k
        BY <1>1
      <3>2. at[j] < at[h] /\ at[h] < at[j + 1]
        BY <1>1, <1>2, <2>1, <2>2, <3>1
      <3>3. j < h /\ h < j + 1
        BY <1>2, <1>3, <2>1, <3>2
      <3> QED BY <1>2, <3>3
    <2> QED BY <1>1, <1>2, <2>1, <2>2
  <1>5. ASSUME NEW k \in K PROVE at[1] <= k
    <2>1. PICK h \in 1 .. m : at[h] = k
      BY <1>1
    <2>2. 1 \in 1 .. m /\ (h = 1 \/ 1 < h)
      BY <1>2
    <2>3. at[1] = at[h] \/ at[1] < at[h]
      BY <1>1, <2>2
    <2> QED BY <1>1, <2>1, <2>2, <2>3
  <1>6. ASSUME at[j] + 1 \in K PROVE j < m /\ at[j + 1] = at[j] + 1
    <2>1. PICK h \in 1 .. m : at[h] = at[j] + 1
      BY <1>1, <1>6
    <2>2. j < h
      BY <1>1, <1>2, <1>3, <2>1
    <2>3. j < m
      BY <1>2, <2>2
    <2>4. at[j + 1] \in Nat /\ at[j] \in Nat
      BY <1>1, <1>2, <1>4, <2>3
    <2>5. at[j + 1] = at[j] + 1
      BY <1>4, <1>6, <2>3, <2>4
    <2> QED BY <2>3, <2>5
  <1> QED BY <1>1, <1>2, <1>4, <1>5, <1>6 DEF m, Neighbours

\* What the author of a tag calls an identity is one; the others go on.
LEMMA AuthorNames ==
    ASSUME NEW V, NEW t \in Seq(V), Author(t), NEW i \in Staying(t), t[i] = AIDName
    PROVE  Longer(t, i)
  <1> DEFINE st == States(Skipping, "sep", t)
             n == Len(t)
  <1>1. i \in DOMAIN t /\ i \in 1 .. n /\ n \in Nat
    BY DEF Staying
  <1>2. PICK a \in Attributes(t, Skipping) : a.from = i
    BY <1>1 DEF Author, AIDBeginsNames
  <1>3. PICK k \in DOMAIN t \cap NameStarts(st, n, "name", {"sep", "afterName"}) :
            a = Attribute(t, st, k)
    BY <1>2 DEF Attributes, AttributesAt
  <1>4. k \in 1 .. n /\ st[k] = "name"
    BY <1>3 DEF NameStarts
  <1>5. Walks(st, t)
    BY StripperWalks
  <1> HIDE DEF st
  <1>6. /\ i = k /\ a.end \in i .. n
        /\ a.name = <<AIDName>> <=> t[i] = AIDName /\ (i = n \/ st[i + 1] # "name")
    BY <1>2, <1>3, <1>4, AttributeAt
  <1>7. a \in Identities(t) <=> a.name = <<AIDName>>
    <2>1. a \in AttributesAt(t, Skipping, {j \in DOMAIN t : t[j] = AIDName})
      BY <1>1, <1>3, <1>6 DEF AttributesAt, st
    <2> QED BY <2>1 DEF Identities, Named
  <1>8. a.name # <<AIDName>>
    <2> SUFFICES ASSUME a \in Identities(t) PROVE FALSE
      BY <1>7
    <2>1. SpaceStart(t, i) \in 1 .. i
      BY <1>1, SpacesStart
    <2>2. i \in Dropped(t, a)
      BY <1>1, <1>2, <1>6, <2>1 DEF Dropped
    <2> QED BY <2>2 DEF Staying
  <1>9. i + 1 \in 1 .. n /\ st[i + 1] = "name" /\ (i + 1) - 1 = i
    BY <1>1, <1>6, <1>8
  <1>10. st[i + 1] = Skipping["name"][ClassOf(t[i + 1])] /\ ClassOf(t[i + 1]) \in Columns
    BY <1>4, <1>5, <1>6, <1>9, ColumnOfCharacter DEF Walks, Passes
  <1>11. ClassOf(t[i + 1]) \notin {"space", "slash", "equals"}
    BY <1>9, <1>10, WalkRows DEF Skipping
  <1> QED BY <1>9, <1>11 DEF Longer

LEMMA StayingNames ==
    ASSUME NEW V, NEW t \in Seq(V), Fine(t), NEW i \in Staying(t), t[i] = AIDName
    PROVE  Longer(t, i) \/ (Stamper(t) /\ Shaped(t, i))
  <1>1. CASE Stamper(t)
    <2>1. i \in DOMAIN t
      BY DEF Staying
    <2> QED BY <1>1, <2>1 DEF Stamper
  <1>2. CASE Author(t)
    BY <1>2, AuthorNames
  <1> QED BY <1>1, <1>2 DEF Fine

\* Without its identities the text of a tag is as the stamper leaves one.
LEMMA StrippedIsFine ==
    ASSUME NEW V, NEW t \in Seq(V), Fine(t)
    PROVE  /\ StripAID(t) \in Seq(V) /\ Stamper(StripAID(t))
           /\ Author(t) => Bare(StripAID(t))
  <1> DEFINE n == Len(t)
             K == Staying(t)
             r == StripAID(t)
             m == Len(r)
  <1>1. n \in Nat /\ K \subseteq 1 .. n /\ K \cap (1 .. n) = K
    BY DEF Staying
  <1>2. r = Subsequence(t, K)
    BY DEF StripAID, Staying, Identities
  <1>3. r \in Seq(V) /\ \E at : Picks(at, t, K, r)
    <2> HIDE DEF r, K
    <2>1. r \in Seq(V) /\ \E at : Picks(at, t, K \cap (1 .. Len(t)), r)
      BY <1>2, SubsequencePicks
    <2> QED BY <1>1, <2>1 DEF n
  <1>4. PICK at : Picks(at, t, K, r)
    BY <1>3
  <1>5. m \in Nat /\ DOMAIN r = 1 .. m /\ (r # <<>> => 1 \in 1 .. m)
    <2> HIDE DEF r
    <2> QED BY <1>3
  <1> HIDE DEF r
  <1>6. \A j \in 1 .. m :
           /\ at[j] \in K /\ r[j] = t[at[j]]
           /\ j < m => /\ at[j + 1] \in K /\ at[j] < at[j + 1]
                       /\ \A k \in K : k <= at[j] \/ k >= at[j + 1]
           /\ \A k \in K : at[1] <= k
           /\ at[j] + 1 \in K => j < m /\ at[j + 1] = at[j] + 1
    <2> HIDE DEF K, n
    <2>1. K \in SUBSET (1 .. n) /\ Len(r) \in Nat /\ n \in Nat
      BY <1>1, <1>5
    <2> HIDE DEF m
    <2>2. ASSUME NEW j \in 1 .. Len(r)
          PROVE  Neighbours(at, t, K, r, j)
      BY <1>4, <2>1, NextPicked
    <2> QED BY <2>2 DEF m, Neighbours
  <1>7. \A k \in K : k \in Nat /\ k \in 1 .. n
    BY <1>1
  <1> HIDE DEF K
  <1>8. IsTagText(r)
    <2> SUFFICES ASSUME r # <<>> PROVE r[1] \in {Space, Slash}
      BY DEF IsTagText
    <2>1. 1 \in 1 .. m
      BY <1>5
    <2>2. at[1] \in K /\ r[1] = t[at[1]] /\ at[1] \in 1 .. n /\ \A k \in K : at[1] <= k
      BY <1>6, <1>7, <2>1
    <2>3. CASE Author(t)
      BY <2>3 DEF Author, NameIsApart, IsTagText, r
    <2>4. CASE Stamper(t)
      <3>1. CASE at[1] = 1
        <4>1. t # <<>>
          BY <1>1, <2>2 DEF n
        <4> QED BY <2>2, <2>4, <3>1, <4>1 DEF Stamper, IsTagText
      <3>2. CASE at[1] # 1
        <4>1. at[1] > 1 /\ at[1] - 1 \notin K
          BY <1>1, <1>7, <2>2, <3>2
        <4> QED BY <2>2, <2>4, <4>1, AfterIdentity DEF K
      <3> QED BY <3>1, <3>2
    <2> QED BY <2>3, <2>4 DEF Fine
  <1>9. ASSUME NEW j \in 1 .. m, r[j] = AIDName, Longer(t, at[j]) PROVE Longer(r, j)
    <2> DEFINE i == at[j]
    <2>1. i \in K /\ t[i] = AIDName /\ i \in Nat
      BY <1>6, <1>7, <1>9
    <2>2. i + 1 \in K
      BY <1>9, <2>1, LongerStays DEF K
    <2>3. j < m /\ at[j + 1] = i + 1
      BY <1>6, <2>2
    <2>4. j + 1 \in 1 .. m
      BY <1>5, <2>3
    <2>5. r[j + 1] = t[i + 1]
      BY <1>6, <2>3, <2>4
    <2> QED BY <1>9, <2>3, <2>5 DEF Longer
  <1>10. ASSUME NEW j \in 1 .. m, r[j] = AIDName PROVE Longer(r, j) \/ Shaped(r, j)
    <2> DEFINE i == at[j]
    <2>1. i \in K /\ t[i] = AIDName /\ i \in Nat
      BY <1>6, <1>7, <1>10
    <2>2. Longer(t, i) \/ (Stamper(t) /\ Shaped(t, i))
      BY <2>1, StayingNames DEF K
    <2>3. CASE Longer(t, i)
      BY <1>9, <1>10, <2>3
    <2>4. CASE Stamper(t) /\ Shaped(t, i)
      <3>1. \A q \in 1 .. 4 : i + q \in K
        BY <2>1, <2>4, ShapedStays DEF K
      <3>2. ASSUME NEW q \in 0 .. 3, j + q \in 1 .. m, at[j + q] = i + q
            PROVE  j + (q + 1) \in 1 .. m /\ at[j + (q + 1)] = i + (q + 1)
                   /\ r[j + (q + 1)] = t[i + (q + 1)]
        <4>1. q + 1 \in 1 .. 4 /\ at[j + q] + 1 = i + (q + 1)
          BY <2>1, <3>2
        <4>2. at[j + q] + 1 \in K
          BY <3>1, <4>1
        <4>3. j + q < m /\ at[(j + q) + 1] = at[j + q] + 1
          BY <1>6, <3>2, <4>2
        <4>4. (j + q) + 1 = j + (q + 1) /\ j + (q + 1) \in 1 .. m
          BY <1>5, <4>3
        <4> QED BY <1>6, <4>1, <4>3, <4>4
      <3>3. j + 0 \in 1 .. m /\ at[j + 0] = i + 0
        BY <1>5, <2>1
      <3>4. j + 1 \in 1 .. m /\ at[j + 1] = i + 1 /\ r[j + 1] = t[i + 1]
        BY <3>2, <3>3
      <3>5. j + 2 \in 1 .. m /\ at[j + 2] = i + 2 /\ r[j + 2] = t[i + 2]
        BY <3>2, <3>4
      <3>6. j + 3 \in 1 .. m /\ at[j + 3] = i + 3 /\ r[j + 3] = t[i + 3]
        BY <3>2, <3>5
      <3>7. j + 4 \in 1 .. m /\ at[j + 4] = i + 4 /\ r[j + 4] = t[i + 4]
        BY <3>2, <3>6
      <3>8. ASSUME j + 4 < m PROVE r[j + 5] \in {Space, Slash}
        <4> DEFINE k == at[j + 5]
        <4>1. j + 5 \in 1 .. m /\ (j + 4) + 1 = j + 5
          BY <1>5, <3>8
        <4>2. k \in K /\ r[j + 5] = t[k] /\ i + 4 < k /\ \A h \in K : h <= i + 4 \/ h >= k
          <5>1. at[j + 4] < at[(j + 4) + 1] /\ \A h \in K : h <= at[j + 4] \/ h >= at[(j + 4) + 1]
            BY <1>6, <3>7, <3>8
          <5>2. at[j + 5] \in K /\ r[j + 5] = t[at[j + 5]]
            BY <1>6, <4>1
          <5> QED BY <3>7, <4>1, <5>1, <5>2
        <4>3. k \in 1 .. n
          BY <1>7, <4>2
        <4> HIDE DEF k
        <4>4. CASE k = i + 5
          <5>1. i + 4 < Len(t)
            BY <1>1, <2>1, <4>3, <4>4 DEF n
          <5> QED BY <2>4, <4>2, <4>4, <5>1 DEF Shaped
        <4>5. CASE k # i + 5
          <5>1. k > 1 /\ k - 1 \notin K
            BY <1>7, <2>1, <4>2, <4>3, <4>5
          <5> QED BY <2>4, <4>2, <5>1, AfterIdentity DEF K
        <4> QED BY <4>4, <4>5
      <3>9. j + 4 <= m
        BY <1>5, <3>7
      <3> QED BY <2>4, <3>4, <3>5, <3>6, <3>7, <3>8, <3>9 DEF Shaped
    <2> QED BY <2>2, <2>3, <2>4
  <1>11. ASSUME Author(t), NEW j \in 1 .. m, r[j] = AIDName PROVE Longer(r, j)
    <2>1. at[j] \in K /\ t[at[j]] = AIDName
      BY <1>6, <1>11
    <2>2. Longer(t, at[j])
      BY <1>11, <2>1, AuthorNames DEF K
    <2> QED BY <1>9, <1>11, <2>2
  <1> QED BY <1>3, <1>5, <1>8, <1>10, <1>11 DEF Stamper, Bare, r

\* The value of an identity is one character, of no table's column and no name.
IsAID(aid) == ClassOf(aid) = "other" /\ aid # AIDName

TagWords == {Space, AIDName, Equals, DQuote}

\* c is a followed by b.
Joins(c, a, b) ==
    /\ Len(c) = Len(a) + Len(b)
    /\ \A k \in 1 .. Len(a) : c[k] = a[k]
    /\ \A k \in 1 .. Len(b) : c[Len(a) + k] = b[k]

LEMMA Joined ==
    ASSUME NEW V, NEW a \in Seq(V), NEW b \in Seq(V)
    PROVE  a \o b \in Seq(V) /\ Joins(a \o b, a, b)
  BY DEF Joins

\* w is t with the identity behind its first p characters.
Bears(w, t, p, aid) ==
    /\ Len(w) = Len(t) + 6
    /\ \A k \in 1 .. p : w[k] = t[k]
    /\ w[p + 1] = Space /\ w[p + 2] = AIDName /\ w[p + 3] = Equals
    /\ w[p + 4] = DQuote /\ w[p + 5] = aid /\ w[p + 6] = DQuote
    /\ \A k \in (p + 1) .. Len(t) : w[k + 6] = t[k]

LEMMA InsertedAt ==
    ASSUME NEW V, TagWords \subseteq V, NEW t \in Seq(V), NEW aid \in V, NEW p \in 0 .. Len(t)
    PROVE  /\ Insert(t, p, AIDText(aid)) \in Seq(V)
           /\ Bears(Insert(t, p, AIDText(aid)), t, p, aid)
  <1> DEFINE n == Len(t)
             a == SubSeq(t, 1, p)
             b == AIDText(aid)
             c == SubSeq(t, p + 1, n)
             w == Insert(t, p, b)
  <1>0. n \in Nat /\ p \in 0 .. n
    OBVIOUS
  <1>1. a \in Seq(V) /\ Len(a) = p /\ \A k \in 1 .. p : a[k] = t[k]
    <2>1. 1 \in 1 .. (Len(t) + 1) /\ p \in (1 - 1) .. Len(t) /\ p - 1 + 1 = p
          /\ \A k \in 1 .. p : 1 + k - 1 = k
      BY <1>0
    <2>2. /\ SubSeq(t, 1, p) \in Seq(V)
          /\ Len(SubSeq(t, 1, p)) = p - 1 + 1
          /\ \A k \in 1 .. (p - 1 + 1) : SubSeq(t, 1, p)[k] = t[1 + k - 1]
      BY <2>1, Slices
    <2> QED BY <2>1, <2>2
  <1>2. b \in Seq(V) /\ Len(b) = 6 /\ b[1] = Space /\ b[2] = AIDName /\ b[3] = Equals
        /\ b[4] = DQuote /\ b[5] = aid /\ b[6] = DQuote
    BY DEF AIDText, TagWords
  <1>3. c \in Seq(V) /\ Len(c) = n - p /\ \A k \in 1 .. (n - p) : c[k] = t[p + k]
    <2> DEFINE i == p + 1
    <2>1. i \in 1 .. (Len(t) + 1) /\ Len(t) \in (i - 1) .. Len(t) /\ n - i + 1 = n - p
          /\ \A k \in 1 .. (n - p) : i + k - 1 = p + k
      BY <1>0
    <2> HIDE DEF i
    <2>2. /\ SubSeq(t, i, Len(t)) \in Seq(V)
          /\ Len(SubSeq(t, i, Len(t))) = Len(t) - i + 1
          /\ \A k \in 1 .. (Len(t) - i + 1) : SubSeq(t, i, Len(t))[k] = t[i + k - 1]
      BY <2>1, Slices
    <2> QED BY <2>1, <2>2 DEF i
  <1>4. w = a \o b \o c
    BY DEF Insert
  <1> HIDE DEF a, b, c, w, n
  <1> DEFINE ab == a \o b
  <1>5. ab \in Seq(V) /\ Len(ab) = p + 6 /\ (\A k \in 1 .. p : ab[k] = a[k])
        /\ \A k \in 1 .. 6 : ab[p + k] = b[k]
    <2>1. ab \in Seq(V) /\ Joins(ab, a, b)
      BY <1>1, <1>2, Joined
    <2> HIDE DEF ab
    <2> QED BY <1>1, <1>2, <2>1 DEF Joins
  <1>6. w = ab \o c
    BY <1>4
  <1> HIDE DEF ab
  <1>7. w \in Seq(V) /\ Len(w) = n + 6 /\ (\A k \in 1 .. (p + 6) : w[k] = ab[k])
        /\ \A k \in 1 .. (n - p) : w[(p + 6) + k] = c[k]
    <2>1. w \in Seq(V) /\ Joins(w, ab, c)
      <3>1. ab \in Seq(V) /\ c \in Seq(V)
        BY <1>3, <1>5
      <3> QED BY <1>6, <3>1, Joined
    <2>2. (p + 6) + (n - p) = n + 6
      BY <1>0
    <2> QED BY <1>3, <1>5, <2>1, <2>2 DEF Joins
  <1>8. \A k \in 1 .. p : w[k] = t[k]
    <2> TAKE k \in 1 .. p
    <2>1. k \in 1 .. (p + 6)
      BY <1>0
    <2> QED BY <1>1, <1>5, <1>7, <2>1
  <1>9. \A k \in 1 .. 6 : w[p + k] = b[k]
    <2> TAKE k \in 1 .. 6
    <2>1. p + k \in 1 .. (p + 6)
      BY <1>0
    <2> QED BY <1>5, <1>7, <2>1
  <1>10. \A k \in (p + 1) .. n : w[k + 6] = t[k]
    <2> TAKE k \in (p + 1) .. n
    <2>1. k - p \in 1 .. (n - p) /\ (p + 6) + (k - p) = k + 6 /\ p + (k - p) = k
      BY <1>0
    <2> QED BY <1>3, <1>7, <2>1
  <1> QED BY <1>2, <1>7, <1>8, <1>9, <1>10 DEF n, w, b, Bears

\* An identity put in before a space or a slash, or at the end, leaves the others as
\* they are.
LEMMA InsertedIsFine ==
    ASSUME NEW V, TagWords \subseteq V, NEW t \in Seq(V), Stamper(t),
           NEW aid \in V, IsAID(aid),
           NEW p \in 0 .. Len(t), p < Len(t) => t[p + 1] \in {Space, Slash}
    PROVE  /\ Insert(t, p, AIDText(aid)) \in Seq(V)
           /\ Stamper(Insert(t, p, AIDText(aid)))
  <1> DEFINE n == Len(t)
             w == Insert(t, p, AIDText(aid))
  <1>0. n \in Nat /\ p \in 0 .. n /\ DOMAIN t = 1 .. n
    OBVIOUS
  <1>1. /\ w \in Seq(V) /\ Len(w) = n + 6
        /\ \A k \in 1 .. p : w[k] = t[k]
        /\ w[p + 1] = Space /\ w[p + 2] = AIDName /\ w[p + 3] = Equals
        /\ w[p + 4] = DQuote /\ w[p + 5] = aid /\ w[p + 6] = DQuote
        /\ \A k \in (p + 1) .. n : w[k + 6] = t[k]
    <2>1. w \in Seq(V) /\ Bears(w, t, p, aid)
      BY InsertedAt
    <2> HIDE DEF w
    <2> QED BY <2>1 DEF Bears
  <1> HIDE DEF w
  <1>2. DOMAIN w = 1 .. (n + 6)
    BY <1>1
  <1>3. p < n => t[p + 1] \in {Space, Slash}
    OBVIOUS
  <1>4. n > 0 => t[1] \in {Space, Slash}
    BY DEF Stamper, IsTagText
  <1>5. \A i \in 1 .. n : t[i] = AIDName => Longer(t, i) \/ Shaped(t, i)
    BY <1>0 DEF Stamper
  <1>6. ASSUME NEW i \in 1 .. n, Shaped(t, i)
        PROVE  i + 4 <= n /\ \A q \in 1 .. 4 : t[i + q] \notin {Space, Slash}
    <2>1. \A q \in 1 .. 4 : q \in {1, 2, 3, 4}
      OBVIOUS
    <2> QED BY <1>6, <2>1, WordsDiffer DEF Shaped, n
  <1> HIDE DEF n
  <1>7. IsTagText(w)
    <2>1. CASE p = 0
      BY <1>1, <2>1 DEF IsTagText
    <2>2. CASE p # 0
      <3>1. 1 \in 1 .. p /\ n > 0
        BY <1>0, <2>2
      <3> QED BY <1>1, <1>4, <3>1 DEF IsTagText
    <2> QED BY <2>1, <2>2
  <1>8. ASSUME NEW i \in 1 .. p, w[i] = AIDName PROVE Longer(w, i) \/ Shaped(w, i)
    <2>1. i \in 1 .. n /\ t[i] = AIDName
      BY <1>0, <1>1, <1>8
    <2>2. CASE Longer(t, i)
      <3>1. i < n /\ t[i + 1] \notin {Space, Slash}
        BY <2>2, ColumnOfCharacter DEF Longer, n
      <3>2. i # p
        BY <1>3, <3>1
      <3>3. i + 1 \in 1 .. p /\ i < n + 6
        BY <1>0, <3>2
      <3> QED BY <1>1, <2>2, <3>3 DEF Longer
    <2>3. CASE Shaped(t, i)
      <3>1. i + 4 <= n /\ \A q \in 1 .. 4 : t[i + q] \notin {Space, Slash}
        BY <1>6, <2>1, <2>3
      <3>2. i + 4 <= p
        <4> SUFFICES ASSUME ~(i + 4 <= p) PROVE FALSE
          OBVIOUS
        <4>1. (p + 1) - i \in 1 .. 4 /\ i + ((p + 1) - i) = p + 1 /\ p < n
          BY <1>0, <3>1
        <4> QED BY <1>3, <3>1, <4>1
      <3>3. \A q \in 1 .. 4 : i + q \in 1 .. p
        BY <1>0, <3>2
      <3>4. w[i + 1] = t[i + 1] /\ w[i + 2] = t[i + 2] /\ w[i + 3] = t[i + 3] /\ w[i + 4] = t[i + 4]
        BY <1>1, <3>3
      <3>5. w[i + 5] \in {Space, Slash}
        <4>1. CASE i + 4 = p
          <5>1. i + 5 = p + 1
            BY <1>0, <4>1
          <5> QED BY <1>1, <5>1
        <4>2. CASE i + 4 # p
          <5>1. i + 5 \in 1 .. p /\ i + 4 < n
            BY <1>0, <3>2, <4>2
          <5> QED BY <1>1, <2>3, <5>1 DEF Shaped, n
        <4> QED BY <4>1, <4>2
      <3>6. i + 4 <= n + 6
        BY <1>0, <3>1
      <3> QED BY <1>1, <2>3, <3>4, <3>5, <3>6 DEF Shaped
    <2> QED BY <1>5, <2>1, <2>2, <2>3
  <1>9. ASSUME NEW i \in (p + 1) .. (p + 6), w[i] = AIDName PROVE Shaped(w, i)
    <2>1. i = p + 2
      <3>1. i \in {p + 1, p + 2, p + 3, p + 4, p + 5, p + 6}
        BY <1>0
      <3> QED BY <1>1, <1>9, <3>1, WordsDiffer DEF IsAID
    <2>2. i + 1 = p + 3 /\ i + 2 = p + 4 /\ i + 3 = p + 5 /\ i + 4 = p + 6 /\ i + 5 = p + 7
          /\ i + 4 <= n + 6
      BY <1>0, <2>1
    <2>3. i + 4 < n + 6 => w[i + 5] \in {Space, Slash}
      <3> SUFFICES ASSUME i + 4 < n + 6 PROVE w[i + 5] \in {Space, Slash}
        OBVIOUS
      <3>1. p + 1 \in (p + 1) .. n /\ (p + 1) + 6 = i + 5 /\ p < n
        BY <1>0, <2>2
      <3> QED BY <1>1, <1>3, <3>1
    <2> QED BY <1>1, <2>2, <2>3 DEF Shaped, IsAID
  <1>10. ASSUME NEW i \in (p + 7) .. (n + 6), w[i] = AIDName PROVE Longer(w, i) \/ Shaped(w, i)
    <2> DEFINE k == i - 6
    <2>1. k \in (p + 1) .. n /\ k \in 1 .. n /\ k + 6 = i
      BY <1>0
    <2>2. t[k] = AIDName
      BY <1>1, <1>10, <2>1
    <2>3. \A q \in 1 .. 5 : k + q <= n => w[i + q] = t[k + q]
      <3> TAKE q \in 1 .. 5
      <3> HAVE k + q <= n
      <3>1. k + q \in (p + 1) .. n /\ (k + q) + 6 = i + q
        BY <1>0, <2>1
      <3> QED BY <1>1, <3>1
    <2>4. i \in Nat /\ k \in Nat
      BY <1>0
    <2> HIDE DEF k
    <2>5. CASE Longer(t, k)
      <3>1. k < n /\ k + 1 <= n /\ i < n + 6
        BY <1>0, <2>1, <2>4, <2>5 DEF Longer, n
      <3>2. w[i + 1] = t[k + 1]
        BY <2>3, <3>1
      <3> QED BY <1>1, <2>5, <3>1, <3>2 DEF Longer
    <2>6. CASE Shaped(t, k)
      <3>1. k + 4 <= n /\ k + 1 <= n /\ k + 2 <= n /\ k + 3 <= n /\ i + 4 <= n + 6
        BY <1>0, <2>1, <2>4, <2>6 DEF Shaped, n
      <3>2. w[i + 1] = t[k + 1] /\ w[i + 2] = t[k + 2] /\ w[i + 3] = t[k + 3] /\ w[i + 4] = t[k + 4]
        BY <2>3, <3>1
      <3>3. i + 4 < n + 6 => w[i + 5] \in {Space, Slash}
        <4> SUFFICES ASSUME i + 4 < n + 6 PROVE w[i + 5] \in {Space, Slash}
          OBVIOUS
        <4>1. k + 4 < n /\ k + 5 <= n
          BY <1>0, <2>1, <2>4
        <4>2. w[i + 5] = t[k + 5]
          BY <2>3, <4>1
        <4> QED BY <2>6, <4>1, <4>2 DEF Shaped, n
      <3> QED BY <1>1, <2>6, <3>1, <3>2, <3>3 DEF Shaped
    <2> QED BY <1>5, <2>1, <2>2, <2>5, <2>6
  <1>11. \A i \in 1 .. (n + 6) : i \in 1 .. p \/ i \in (p + 1) .. (p + 6) \/ i \in (p + 7) .. (n + 6)
    BY <1>0
  <1>12. \A i \in DOMAIN w : w[i] = AIDName => Longer(w, i) \/ Shaped(w, i)
    BY <1>2, <1>8, <1>9, <1>10, <1>11
  <1> QED BY <1>1, <1>7, <1>12 DEF Stamper, w

LEMMA SelfClosingEnds ==
    ASSUME NEW V, NEW t \in Seq(V), SelfCloses(t)
    PROVE  Len(t) \in Nat \ {0} /\ t[Len(t)] = Slash
  BY DEF SelfCloses

LEMMA StampedTagIsFine ==
    ASSUME NEW V, TagWords \subseteq V, NEW t \in Seq(V), Stamper(t),
           NEW aid \in V, IsAID(aid), NEW c
    PROVE  StampedOpenTag(t, aid, c) \in Seq(V) /\ Stamper(StampedOpenTag(t, aid, c))
  <1> DEFINE n == Len(t)
             end == IF c /\ SelfCloses(t) THEN n - 1 ELSE n
             s == SpaceStart(t, end + 1)
             p == s - 1
  <1>1. n \in Nat /\ (SelfCloses(t) => n # 0 /\ t[n] = Slash)
    BY SelfClosingEnds
  <1>2. end \in 0 .. n /\ (end = n \/ (end + 1 = n /\ t[n] = Slash))
    BY <1>1
  <1> HIDE DEF end
  <1>3. s \in 1 .. (end + 1) /\ \A k \in s .. ((end + 1) - 1) : t[k] = Space
    <2>1. end + 1 \in Nat \ {0}
      BY <1>1, <1>2
    <2> QED BY <2>1, SpacesStart
  <1>4. StampedOpenTag(t, aid, c) = Insert(t, p, AIDText(aid))
    BY DEF StampedOpenTag, end
  <1> HIDE DEF s, n
  <1>5. p \in 0 .. n /\ p + 1 = s
    BY <1>1, <1>2, <1>3
  <1>6. p < n => t[p + 1] \in {Space, Slash}
    <2> SUFFICES ASSUME p < n PROVE t[s] \in {Space, Slash}
      BY <1>5
    <2>1. CASE s = end + 1
      BY <1>1, <1>2, <1>5, <2>1
    <2>2. CASE s # end + 1
      <3>1. s \in s .. ((end + 1) - 1)
        BY <1>1, <1>2, <1>3, <2>2
      <3> QED BY <1>3, <3>1
    <2> QED BY <2>1, <2>2
  <1> HIDE DEF p
  <1> QED BY <1>4, <1>5, <1>6, InsertedIsFine DEF n

LEMMA InjectedTagIsFine ==
    ASSUME NEW V, TagWords \subseteq V, NEW t \in Seq(V), Stamper(t),
           NEW aid \in V, IsAID(aid)
    PROVE  InjectRootAID(t, aid) \in Seq(V) /\ Stamper(InjectRootAID(t, aid))
  <1> DEFINE n == Len(t)
             p == IF SelfCloses(t) THEN n - 1 ELSE n
  <1>1. n \in Nat /\ (SelfCloses(t) => n # 0 /\ t[n] = Slash)
    BY SelfClosingEnds
  <1>2. p \in 0 .. n /\ (p < n => t[p + 1] \in {Space, Slash})
    BY <1>1
  <1>3. InjectRootAID(t, aid) = Insert(t, p, AIDText(aid))
    BY DEF InjectRootAID
  <1> HIDE DEF p
  <1> QED BY <1>2, <1>3, InsertedIsFine DEF n

\* The space that keeps a slash from closing a tag.
LEMMA SpacedIsFine ==
    ASSUME NEW V, Space \in V, NEW t \in Seq(V), Stamper(t)
    PROVE  Append(t, Space) \in Seq(V) /\ Stamper(Append(t, Space))
  <1> DEFINE n == Len(t)
             w == Append(t, Space)
  <1>1. /\ n \in Nat /\ w \in Seq(V) /\ Len(w) = n + 1 /\ w[n + 1] = Space
        /\ \A k \in 1 .. n : w[k] = t[k]
    OBVIOUS
  <1>2. /\ n > 0 => t[1] \in {Space, Slash}
        /\ \A i \in 1 .. n : t[i] = AIDName => Longer(t, i) \/ Shaped(t, i)
    BY DEF Stamper, IsTagText
  <1> HIDE DEF w
  <1>3. IsTagText(w)
    BY <1>1, <1>2 DEF IsTagText
  <1>4. ASSUME NEW i \in 1 .. (n + 1), w[i] = AIDName PROVE Longer(w, i) \/ Shaped(w, i)
    <2>1. i \in 1 .. n /\ t[i] = AIDName
      BY <1>1, <1>4, WordsDiffer
    <2>2. CASE Longer(t, i)
      <3>1. i < n /\ i + 1 \in 1 .. n /\ i < n + 1
        BY <1>1, <2>1, <2>2 DEF Longer
      <3> QED BY <1>1, <2>2, <3>1 DEF Longer
    <2>3. CASE Shaped(t, i)
      <3>1. i + 4 <= n /\ i + 4 <= n + 1 /\ i + 1 \in 1 .. n /\ i + 2 \in 1 .. n
            /\ i + 3 \in 1 .. n /\ i + 4 \in 1 .. n
        BY <1>1, <2>1, <2>3 DEF Shaped
      <3>2. w[i + 5] \in {Space, Slash}
        <4>1. CASE i + 4 = n
          <5>1. i + 5 = n + 1
            BY <1>1, <4>1
          <5> QED BY <1>1, <5>1
        <4>2. CASE i + 4 # n
          <5>1. i + 5 \in 1 .. n /\ i + 4 < n
            BY <1>1, <3>1, <4>2
          <5> QED BY <1>1, <2>3, <5>1 DEF Shaped
        <4> QED BY <4>1, <4>2
      <3> QED BY <1>1, <2>3, <3>1, <3>2 DEF Shaped
    <2> QED BY <1>2, <2>1, <2>2, <2>3
  <1>5. DOMAIN w = 1 .. (n + 1)
    BY <1>1
  <1> QED BY <1>1, <1>3, <1>4, <1>5 DEF Stamper, w

LEMMA SpacedIsBare ==
    ASSUME NEW V, NEW t \in Seq(V), Bare(t)
    PROVE  Bare(Append(t, Space))
  <1> DEFINE n == Len(t)
             w == Append(t, Space)
  <1>1. /\ n \in Nat /\ DOMAIN t = 1 .. n /\ DOMAIN w = 1 .. (n + 1) /\ Len(w) = n + 1
        /\ w[n + 1] = Space /\ w # <<>> /\ \A k \in 1 .. n : w[k] = t[k]
    OBVIOUS
  <1>2. (n > 0 => t[1] \in {Space, Slash}) /\ \A i \in 1 .. n : t[i] = AIDName => Longer(t, i)
    BY <1>1 DEF Bare, IsTagText
  <1> HIDE DEF w
  <1>3. IsTagText(w)
    BY <1>1, <1>2 DEF IsTagText
  <1>4. ASSUME NEW i \in 1 .. (n + 1), w[i] = AIDName PROVE Longer(w, i)
    <2>1. i \in 1 .. n /\ t[i] = AIDName
      BY <1>1, <1>4, WordsDiffer
    <2>2. Longer(t, i)
      BY <1>2, <2>1
    <2>3. i < n /\ i + 1 \in 1 .. n /\ i < n + 1
      BY <1>1, <2>1, <2>2 DEF Longer
    <2> QED BY <1>1, <2>2, <2>3 DEF Longer
  <1> QED BY <1>1, <1>3, <1>4 DEF Bare, w

LEMMA CleanedIsFine ==
    ASSUME NEW V, Space \in V, NEW e, e.text \in Seq(V), Fine(e.text)
    PROVE  /\ Cleaned(e) \in Seq(V) /\ Stamper(Cleaned(e))
           /\ Author(e.text) => Bare(Cleaned(e))
  <1> DEFINE t == StripAID(e.text)
  <1>1. t \in Seq(V) /\ Stamper(t) /\ (Author(e.text) => Bare(t))
    BY StrippedIsFine
  <1>2. /\ Append(t, Space) \in Seq(V) /\ Stamper(Append(t, Space))
        /\ Author(e.text) => Bare(Append(t, Space))
    BY <1>1, SpacedIsFine, SpacedIsBare
  <1>3. Cleaned(e) \in {t, Append(t, Space)}
    BY DEF Cleaned
  <1> QED BY <1>1, <1>2, <1>3

\* A tag that declares no identity has none (HasDataOdocAttr).
LEMMA PlainIsFine ==
    ASSUME NEW V, NEW t \in Seq(V), Author(t), NamesBeginWithNoEquals(t), ~HasDataOdoc(t)
    PROVE  Stamper(t) /\ Bare(t)
  <1> DEFINE n == Len(t)
             a == Tokenized(t)
             b(l) == States(WalkTable(l), "sep", t)
  <1>0. n \in Nat
    OBVIOUS
  <1>1. Passes(a, Tokenizer, "tagName", t, n) /\ NoLoneEquals(a, t, n)
    BY <1>0, TokenizerPasses
  <1>2. n > 0 => t[1] \in {Space, Slash}
    BY DEF Author, IsTagText
  <1>3. ASSUME NEW l \in {"sep", "beforeValue"}
        PROVE  \A k \in 0 .. n : <<a[k], b(l)[k]>> \in Walking
    <2>1. IsTable(WalkTable(l), WalkStates) /\ "sep" \in WalkStates
      BY Tables DEF WalkStates
    <2>2. Passes(b(l), WalkTable(l), "sep", t, n)
      BY <1>0, <2>1, StatesPass
    <2> HIDE DEF a, b, n
    <2> QED BY <1>0, <1>1, <1>2, <2>2, WalkersCoupled, InStep
  <1>4. \A k \in 0 .. n : b("sep")[k] = b("beforeValue")[k]
    <2> TAKE k \in 0 .. n
    <2>1. <<a[k], b("sep")[k]>> \in Walking /\ <<a[k], b("beforeValue")[k]>> \in Walking
      BY <1>3
    <2> HIDE DEF a, b
    <2> QED BY <2>1 DEF Walking, ValueStates
  <1>5. b("sep") = b("beforeValue")
    <2>1. b("sep") = [k \in 0 .. n |-> b("sep")[k]]
          /\ b("beforeValue") = [k \in 0 .. n |-> b("beforeValue")[k]]
      BY DEF States
    <2> HIDE DEF b, n
    <2> QED BY <1>4, <2>1
  <1>6. Attributes(t, Skipping) = Attributes(t, Nameless)
    BY <1>5 DEF Attributes, AttributesAt, Skipping, Nameless
  <1>7. \A x \in Attributes(t, Skipping) : x.name # <<AIDName>>
    BY <1>6 DEF HasDataOdoc, AttrNames
  <1>8. ASSUME NEW i \in DOMAIN t, t[i] = AIDName PROVE Longer(t, i)
    <2>1. PICK x \in Attributes(t, Skipping) : x.from = i
      BY <1>8 DEF Author, AIDBeginsNames
    <2>2. PICK k \in DOMAIN t \cap NameStarts(b("sep"), n, "name", {"sep", "afterName"}) :
              x = Attribute(t, b("sep"), k)
      BY <2>1 DEF Attributes, AttributesAt, Skipping
    <2>3. k \in 1 .. n /\ b("sep")[k] = "name"
      BY <2>2 DEF NameStarts
    <2>4. Walks(b("sep"), t)
      BY StripperWalks DEF Skipping
    <2> HIDE DEF b
    <2>5. i = k /\ (i = n \/ b("sep")[i + 1] # "name" => x.name = <<AIDName>>)
      BY <1>8, <2>1, <2>2, <2>3, AttributeAt
    <2>6. i \in 1 .. n /\ i + 1 \in 1 .. n /\ b("sep")[i] = "name" /\ b("sep")[i + 1] = "name"
          /\ (i + 1) - 1 = i
      BY <1>0, <1>7, <2>1, <2>3, <2>5
    <2>7. b("sep")[i + 1] = Skipping["name"][ClassOf(t[i + 1])] /\ ClassOf(t[i + 1]) \in Columns
      <3>1. b("sep")[i + 1] = Skipping[b("sep")[(i + 1) - 1]][ClassOf(t[i + 1])]
        BY <2>4, <2>6 DEF Walks, Passes
      <3> QED BY <2>6, <3>1, ColumnOfCharacter
    <2>8. ClassOf(t[i + 1]) \notin {"space", "slash", "equals"}
      BY <2>6, <2>7, WalkRows DEF Skipping
    <2> QED BY <1>0, <2>6, <2>8 DEF Longer
  <1> QED BY <1>8 DEF Stamper, Author, Bare

\* An identity is the hash of a content.
LEMMA HashIsAID ==
    ASSUME NEW w, NEW x, NEW y, NEW z
    PROVE  IsAID(<<w, x, y, z>>)
  <1> DEFINE q == <<w, x, y, z>>
  <1>1. \A c : q # <<c>>
    <2> TAKE c
    <2>1. Len(q) = 4 /\ Len(<<c>>) = 1
      OBVIOUS
    <2> HIDE DEF q
    <2> QED BY <2>1
  <1> HIDE DEF q
  <1>2. q \notin {Space, Slash, Equals, DQuote, SQuote, AIDName}
    BY <1>1 DEF Space, Slash, Equals, DQuote, SQuote, AIDName
  <1> QED BY <1>2 DEF IsAID, ClassOf, q

-------------------------------------------------------------------------------
(* A document whose tags are fine, and the elements that are found in it.    *)

Page(V) == {piece \in [kind : STRING, tag : STRING, text : Seq(V)] :
               piece.kind = "open" => Fine(piece.text)}

Namespaces == {"html", "svg", "math"}

ScanElement(V, n) ==
    {e \in [at : 1 .. n, close : 1 .. n, tag : STRING, text : Seq(V), ns : Namespaces,
            popped : BOOLEAN, annotationHTML : BOOLEAN] : Fine(e.text)}

Scan(V, n) ==
    {s \in [opens : Seq(ScanElement(V, n)), stack : Seq(Nat),
            mode : {"data", "comment", "raw"}, raw : Nat] :
        \A k \in DOMAIN s.stack : s.stack[k] \in DOMAIN s.opens}

LEMMA ScanOf ==
    ASSUME NEW V, NEW n, NEW s \in Scan(V, n)
    PROVE  /\ s = [opens |-> s.opens, stack |-> s.stack, mode |-> s.mode, raw |-> s.raw]
           /\ s.opens \in Seq(ScanElement(V, n)) /\ s.stack \in Seq(Nat)
           /\ s.mode \in {"data", "comment", "raw"} /\ s.raw \in Nat
           /\ \A k \in DOMAIN s.stack : s.stack[k] \in DOMAIN s.opens
  BY DEF Scan

LEMMA IsScan ==
    ASSUME NEW V, NEW n, NEW opens \in Seq(ScanElement(V, n)), NEW stack \in Seq(Nat),
           NEW mode \in {"data", "comment", "raw"}, NEW raw \in Nat,
           \A k \in DOMAIN stack : stack[k] \in DOMAIN opens
    PROVE  [opens |-> opens, stack |-> stack, mode |-> mode, raw |-> raw] \in Scan(V, n)
  BY DEF Scan

\* An element that differs in a mark or a place.
LEMMA OtherElement ==
    ASSUME NEW V, NEW n, NEW e \in ScanElement(V, n), NEW at \in 1 .. n
    PROVE  /\ [e EXCEPT !.popped = TRUE] \in ScanElement(V, n)
           /\ [e EXCEPT !.close = at] \in ScanElement(V, n)
  BY DEF ScanElement

LEMMA ChangedOpens ==
    ASSUME NEW V, NEW n, NEW s \in Scan(V, n), NEW opens \in Seq(ScanElement(V, n)),
           DOMAIN opens = DOMAIN s.opens
    PROVE  [s EXCEPT !.opens = opens] \in Scan(V, n)
  <1>1. [s EXCEPT !.opens = opens] =
            [opens |-> opens, stack |-> s.stack, mode |-> s.mode, raw |-> s.raw]
    BY ScanOf
  <1> QED BY <1>1, ScanOf, IsScan

LEMMA PopForeignTyped ==
    ASSUME NEW V, NEW n, NEW s \in Scan(V, n), NEW tag
    PROVE  /\ PopForeign(s, tag) \in Scan(V, n)
           /\ PopForeign(s, tag).stack = s.stack
           /\ DOMAIN PopForeign(s, tag).opens = DOMAIN s.opens
  <1> DEFINE left == {s.stack[k] : k \in Foreign(s, tag)}
             opens == [i \in DOMAIN s.opens |->
                          IF i \in left THEN [s.opens[i] EXCEPT !.popped = TRUE] ELSE s.opens[i]]
  <1>1. PopForeign(s, tag) = [s EXCEPT !.opens = opens]
    BY DEF PopForeign
  <1>2. s.opens \in Seq(ScanElement(V, n))
    BY ScanOf
  <1>3. ASSUME NEW i \in DOMAIN s.opens PROVE opens[i] \in ScanElement(V, n)
    <2>1. s.opens[i] \in ScanElement(V, n)
      BY <1>2
    <2>2. [s.opens[i] EXCEPT !.popped = TRUE] \in ScanElement(V, n)
      BY <2>1 DEF ScanElement
    <2> QED BY <2>1, <2>2
  <1>4. DOMAIN opens = DOMAIN s.opens
    OBVIOUS
  <1>5. opens = [i \in DOMAIN s.opens |-> opens[i]]
    OBVIOUS
  <1> HIDE DEF opens
  <1>6. opens \in Seq(ScanElement(V, n))
    <2>1. PICK m \in Nat : DOMAIN s.opens = 1 .. m
      BY <1>2
    <2>2. opens \in [1 .. m -> ScanElement(V, n)]
      BY <1>3, <1>5, <2>1
    <2> QED BY <2>2
  <1>7. [s EXCEPT !.opens = opens] \in Scan(V, n)
    BY <1>4, <1>6, ChangedOpens
  <1>8. [s EXCEPT !.opens = opens].stack = s.stack /\ [s EXCEPT !.opens = opens].opens = opens
    BY DEF Scan
  <1> QED BY <1>1, <1>4, <1>7, <1>8

LEMMA CloseAtTyped ==
    ASSUME NEW V, NEW n, NEW s \in Scan(V, n), NEW at \in 1 .. n, NEW k \in DOMAIN s.stack
    PROVE  CloseAt(s, k, at) \in Scan(V, n)
  <1> DEFINE j == s.stack[k]
             e == [s.opens[j] EXCEPT !.close = at]
             opens == [s.opens EXCEPT ![j] = e]
             stack == SubSeq(s.stack, 1, k - 1)
  <1>1. /\ s.opens \in Seq(ScanElement(V, n)) /\ s.stack \in Seq(Nat)
        /\ s.mode \in {"data", "comment", "raw"} /\ s.raw \in Nat
        /\ \A i \in DOMAIN s.stack : s.stack[i] \in DOMAIN s.opens
    BY ScanOf
  <1>2. j \in DOMAIN s.opens
    BY <1>1
  <1>3. CloseAt(s, k, at) = [opens |-> opens, stack |-> stack, mode |-> s.mode, raw |-> s.raw]
    <2>1. s = [opens |-> s.opens, stack |-> s.stack, mode |-> s.mode, raw |-> s.raw]
      BY ScanOf
    <2>2. CloseAt(s, k, at) = [s EXCEPT !.opens = opens, !.stack = stack]
      BY DEF CloseAt
    <2> HIDE DEF opens, stack
    <2> QED BY <2>1, <2>2
  <1>4. e \in ScanElement(V, n)
    <2>1. s.opens[j] \in ScanElement(V, n)
      BY <1>1, <1>2
    <2> QED BY <2>1, OtherElement
  <1>5. opens \in Seq(ScanElement(V, n)) /\ DOMAIN opens = DOMAIN s.opens
    <2>1. \A q \in Seq(ScanElement(V, n)) : \A i \in DOMAIN q, x \in ScanElement(V, n) :
             [q EXCEPT ![i] = x] \in Seq(ScanElement(V, n)) /\ DOMAIN [q EXCEPT ![i] = x] = DOMAIN q
      OBVIOUS
    <2> HIDE DEF e, j
    <2> QED BY <1>1, <1>2, <1>4, <2>1
  <1>6. /\ stack \in Seq(Nat)
        /\ \A i \in DOMAIN stack : i \in DOMAIN s.stack /\ stack[i] = s.stack[i]
    <2> DEFINE m == k - 1
    <2>0. Len(s.stack) \in Nat /\ k \in 1 .. Len(s.stack)
      BY <1>1
    <2>1. 1 \in 1 .. (Len(s.stack) + 1) /\ m \in (1 - 1) .. Len(s.stack) /\ k \in 1 .. Len(s.stack)
      BY <2>0
    <2>2. m - 1 + 1 = m /\ \A i \in 1 .. m : 1 + i - 1 = i /\ i \in 1 .. Len(s.stack)
      BY <2>1
    <2> HIDE DEF m
    <2>3. /\ SubSeq(s.stack, 1, m) \in Seq(Nat)
          /\ Len(SubSeq(s.stack, 1, m)) = m - 1 + 1
          /\ \A i \in 1 .. (m - 1 + 1) : SubSeq(s.stack, 1, m)[i] = s.stack[1 + i - 1]
      BY <1>1, <2>1, Slices
    <2>4. stack = SubSeq(s.stack, 1, m)
      BY DEF m
    <2> HIDE DEF stack
    <2>5. stack \in Seq(Nat) /\ DOMAIN stack = 1 .. m /\ \A i \in 1 .. m : stack[i] = s.stack[i]
      BY <2>2, <2>3, <2>4
    <2> QED BY <1>1, <2>2, <2>5
  <1>7. \A i \in DOMAIN stack : stack[i] \in DOMAIN opens
    BY <1>1, <1>5, <1>6
  <1> HIDE DEF opens, stack
  <1> QED BY <1>1, <1>3, <1>5, <1>6, <1>7, IsScan

LEMMA CloseTagTyped ==
    ASSUME NEW V, NEW n, NEW s \in Scan(V, n), NEW at \in 1 .. n, NEW tag
    PROVE  CloseTag(s, tag, at) \in Scan(V, n)
  <1> DEFINE same == {k \in DOMAIN s.stack : s.opens[s.stack[k]].tag = tag}
             onTop == Len(s.stack) \in same
             popped == IF ~onTop /\ tag \in {"p", "br"} THEN PopForeign(s, tag) ELSE s
             k == CHOOSE i \in same : \A j \in same : j <= i
  <1>1. popped \in Scan(V, n) /\ popped.stack = s.stack
    BY PopForeignTyped
  <1>2. ASSUME same # {} PROVE k \in same
    <2>1. s.stack \in Seq(Nat)
      BY ScanOf
    <2>2. same \in SUBSET Nat /\ Len(s.stack) \in Nat /\ \A i \in same : i <= Len(s.stack)
      BY <2>1
    <2> HIDE DEF same
    <2>3. \E i \in same : \A j \in same : j <= i
      BY <1>2, <2>2, GreatestOf
    <2> QED BY <2>3
  <1>3. same # {} => k \in DOMAIN popped.stack
    BY <1>1, <1>2
  <1>4. CloseTag(s, tag, at) = IF (popped # s /\ tag = "br") \/ same = {}
                               THEN popped ELSE CloseAt(popped, k, at)
    BY DEF CloseTag
  <1> HIDE DEF popped, k, same
  <1> QED BY <1>1, <1>3, <1>4, CloseAtTyped

LEMMA NewElementTyped ==
    ASSUME NEW V, NEW n, NEW piece \in Page(V), piece.kind = "open", NEW at \in 1 .. n,
           NEW ns \in Namespaces
    PROVE  NewElement(piece, at, ns) \in ScanElement(V, n)
  <1> DEFINE annotation == /\ ns = "math"
                           /\ piece.tag = "annotation-xml"
                           /\ <<TextHTML>> \in AttrValue(piece.text, Encoding)
  <1>1. annotation \in BOOLEAN
    OBVIOUS
  <1>2. NewElement(piece, at, ns) =
            [at |-> at, close |-> at, tag |-> piece.tag, text |-> piece.text, ns |-> ns,
             popped |-> FALSE, annotationHTML |-> annotation]
    BY Zenon DEF NewElement
  <1> HIDE DEF annotation
  <1>3. piece.tag \in STRING /\ piece.text \in Seq(V) /\ Fine(piece.text)
    BY DEF Page
  <1> QED BY <1>1, <1>2, <1>3 DEF ScanElement

LEMMA PushElementTyped ==
    ASSUME NEW V, NEW n, NEW s \in Scan(V, n), NEW piece \in Page(V), piece.kind = "open",
           NEW at \in 1 .. n, NEW ns \in Namespaces
    PROVE  PushElement(s, piece, at, ns) \in Scan(V, n)
  <1> DEFINE m      == Len(s.opens) + 1
             raw    == ns = "html" /\ piece.tag \in rawTextTags
             pushed == /\ ~raw
                       /\ ~(ns # "html" /\ SelfCloses(piece.text))
                       /\ ~(ns = "html" /\ piece.tag \in voidTags)
             e      == NewElement(piece, at, ns)
             opens  == Append(s.opens, e)
             stack  == IF pushed THEN Append(s.stack, m) ELSE s.stack
             mode   == IF raw THEN "raw" ELSE "data"
             rawAt  == IF raw THEN m ELSE 0
  <1>1. /\ s.opens \in Seq(ScanElement(V, n)) /\ s.stack \in Seq(Nat)
        /\ \A i \in DOMAIN s.stack : s.stack[i] \in DOMAIN s.opens
    BY ScanOf
  <1>2. e \in ScanElement(V, n)
    BY NewElementTyped
  <1>3. PushElement(s, piece, at, ns) = [opens |-> opens, stack |-> stack, mode |-> mode, raw |-> rawAt]
    <2>1. PushElement(s, piece, at, ns) =
              [s EXCEPT !.opens = opens, !.stack = stack, !.mode = mode, !.raw = rawAt]
      BY DEF PushElement
    <2>2. s = [opens |-> s.opens, stack |-> s.stack, mode |-> s.mode, raw |-> s.raw]
      BY ScanOf
    <2> HIDE DEF opens, stack, mode, rawAt
    <2> QED BY <2>1, <2>2
  <1> HIDE DEF e
  <1>4. opens \in Seq(ScanElement(V, n)) /\ DOMAIN opens = 1 .. m /\ DOMAIN s.opens = 1 .. (m - 1)
        /\ m \in Nat /\ m - 1 \in Nat
    BY <1>1, <1>2
  <1>5. stack \in Seq(Nat) /\ \A i \in DOMAIN stack : stack[i] \in 1 .. m
    <2>1. \A i \in DOMAIN s.stack : s.stack[i] \in 1 .. m
      BY <1>1, <1>4
    <2> HIDE DEF m
    <2>2. \A q \in Seq(Nat) : (\A i \in DOMAIN q : q[i] \in 1 .. m) =>
             Append(q, m) \in Seq(Nat) /\ \A i \in DOMAIN Append(q, m) : Append(q, m)[i] \in 1 .. m
      <3> SUFFICES ASSUME NEW q \in Seq(Nat), \A i \in DOMAIN q : q[i] \in 1 .. m
                   PROVE  /\ Append(q, m) \in Seq(Nat)
                          /\ \A i \in DOMAIN Append(q, m) : Append(q, m)[i] \in 1 .. m
        OBVIOUS
      <3>1. m \in 1 .. m
        BY <1>4 DEF m
      <3>2. m \in Nat
        BY <3>1
      <3> QED BY <3>1, <3>2
    <2>3. Append(s.stack, m) \in Seq(Nat)
          /\ \A i \in DOMAIN Append(s.stack, m) : Append(s.stack, m)[i] \in 1 .. m
      BY <1>1, <2>1, <2>2
    <2>4. stack \in {s.stack, Append(s.stack, m)}
      OBVIOUS
    <2> HIDE DEF stack
    <2> QED BY <1>1, <2>1, <2>3, <2>4
  <1>6. mode \in {"data", "comment", "raw"} /\ rawAt \in Nat
    BY <1>4
  <1>7. \A i \in DOMAIN stack : stack[i] \in DOMAIN opens
    BY <1>4, <1>5
  <1> HIDE DEF opens, stack, mode, rawAt, m
  <1> QED BY <1>3, <1>4, <1>5, <1>6, <1>7, IsScan

\* The namespace that an open tag is in, and the scan it finds.
Inside(s, tag) == IF s.stack = <<>> THEN RootNamespace(tag) ELSE NamespaceForChild(Top(s), tag)
BreaksOut(s, tag) == Inside(s, tag) # "html" /\ s.stack # <<>> /\ tag \in breakoutTags
Entered(s, tag) == IF BreaksOut(s, tag) THEN "html" ELSE Inside(s, tag)
Before(s, tag) == IF BreaksOut(s, tag) THEN PopForeign(s, tag) ELSE s

LEMMA OpenPushes ==
    ASSUME NEW V, NEW n, NEW s \in Scan(V, n), NEW piece \in Page(V), piece.kind = "open",
           NEW at \in 1 .. n
    PROVE  /\ Before(s, piece.tag) \in Scan(V, n) /\ Entered(s, piece.tag) \in Namespaces
           /\ OpenElement(s, piece, at) =
                  PushElement(Before(s, piece.tag), piece, at, Entered(s, piece.tag))
  <1> DEFINE tag == piece.tag
  <1>1. RootNamespace(tag) \in Namespaces
    BY DEF RootNamespace, foreignRoots, Namespaces
  <1>2. ASSUME s.stack # <<>> PROVE NamespaceForChild(Top(s), tag) \in Namespaces
    <2>1. /\ s.opens \in Seq(ScanElement(V, n)) /\ s.stack \in Seq(Nat)
          /\ \A k \in DOMAIN s.stack : s.stack[k] \in DOMAIN s.opens
      BY ScanOf
    <2>2. Len(s.stack) \in DOMAIN s.stack
      BY <1>2, <2>1
    <2>3. Top(s) \in ScanElement(V, n)
      BY <2>1, <2>2 DEF Top
    <2>4. Top(s).ns \in Namespaces
      BY <2>3 DEF ScanElement
    <2>5. NamespaceForChild(Top(s), tag) \in {"svg", RootNamespace(tag), Top(s).ns}
      BY DEF NamespaceForChild
    <2> QED BY <1>1, <2>4, <2>5 DEF Namespaces
  <1>3. Inside(s, tag) \in Namespaces
    BY <1>1, <1>2 DEF Inside
  <1>4. PopForeign(s, tag) \in Scan(V, n) /\ "html" \in Namespaces
    BY PopForeignTyped DEF Namespaces
  <1>5. OpenElement(s, piece, at) = PushElement(Before(s, tag), piece, at, Entered(s, tag))
    BY DEF OpenElement, Before, Entered, BreaksOut, Inside
  <1> HIDE DEF tag
  <1>6. Before(s, tag) \in Scan(V, n) /\ Entered(s, tag) \in Namespaces
    BY <1>3, <1>4 DEF Before, Entered
  <1> QED BY <1>5, <1>6 DEF tag

LEMMA OpenElementTyped ==
    ASSUME NEW V, NEW n, NEW s \in Scan(V, n), NEW piece \in Page(V), piece.kind = "open",
           NEW at \in 1 .. n
    PROVE  OpenElement(s, piece, at) \in Scan(V, n)
  BY OpenPushes, PushElementTyped

LEMMA ClosedRaw ==
    ASSUME NEW V, NEW n, NEW s \in Scan(V, n), NEW o
    PROVE  [s EXCEPT !.opens = o, !.mode = "data", !.raw = 0] =
               [opens |-> o, stack |-> s.stack, mode |-> "data", raw |-> 0]
  <1> DEFINE a == [s EXCEPT !.opens = o, !.mode = "data", !.raw = 0]
  <1>1. s \in [opens : Seq(ScanElement(V, n)), stack : Seq(Nat), mode : {"data", "comment", "raw"}, raw : Nat]
    BY DEF Scan
  <1>2. DOMAIN s = {"opens", "stack", "mode", "raw"}
    BY <1>1
  <1>3. a = [x \in {"opens", "stack", "mode", "raw"} |-> a[x]]
    BY <1>2
  <1>4. a.opens = o /\ a.stack = s.stack /\ a.mode = "data" /\ a.raw = 0
    BY <1>2
  <1> HIDE DEF a
  <1>5. a = [opens |-> a.opens, stack |-> a.stack, mode |-> a.mode, raw |-> a.raw]
    BY <1>3
  <1>6. a = [opens |-> o, stack |-> s.stack, mode |-> "data", raw |-> 0]
    BY <1>4, <1>5
  <1> QED BY <1>6 DEF a

LEMMA ScanPieceTyped ==
    ASSUME NEW V, NEW n, NEW s \in Scan(V, n), NEW piece \in Page(V), NEW at \in 1 .. n
    PROVE  ScanPiece(s, piece, at) \in Scan(V, n)
  <1> DEFINE data    == [s EXCEPT !.mode = "data"]
             comment == [s EXCEPT !.mode = "comment"]
             closed  == [s EXCEPT !.opens[s.raw].close = at, !.mode = "data", !.raw = 0]
  <1>1. data \in Scan(V, n) /\ comment \in Scan(V, n)
    BY DEF Scan
  <1>2. closed \in Scan(V, n)
    <2> DEFINE e == [s.opens[s.raw] EXCEPT !.close = at]
               opens == [s.opens EXCEPT ![s.raw] = e]
    <2>1. /\ s = [opens |-> s.opens, stack |-> s.stack, mode |-> s.mode, raw |-> s.raw]
          /\ s.opens \in Seq(ScanElement(V, n)) /\ s.stack \in Seq(Nat) /\ 0 \in Nat
          /\ "data" \in {"data", "comment", "raw"}
          /\ \A k \in DOMAIN s.stack : s.stack[k] \in DOMAIN s.opens
      BY ScanOf
    <2>2. closed = [s EXCEPT !.opens = opens, !.mode = "data", !.raw = 0]
      OBVIOUS
    <2>3. opens \in Seq(ScanElement(V, n)) /\ DOMAIN opens = DOMAIN s.opens
      <3>1. CASE s.raw \in DOMAIN s.opens
        <4>1. s.opens[s.raw] \in ScanElement(V, n)
          BY <2>1, <3>1
        <4>2. e \in ScanElement(V, n)
          BY <4>1, OtherElement
        <4>3. \A q \in Seq(ScanElement(V, n)) : \A i \in DOMAIN q, x \in ScanElement(V, n) :
                 [q EXCEPT ![i] = x] \in Seq(ScanElement(V, n)) /\ DOMAIN [q EXCEPT ![i] = x] = DOMAIN q
          OBVIOUS
        <4> HIDE DEF e
        <4> QED BY <2>1, <3>1, <4>2, <4>3
      <3>2. CASE s.raw \notin DOMAIN s.opens
        <4>1. \A q \in Seq(ScanElement(V, n)) : \A i, x : i \notin DOMAIN q => [q EXCEPT ![i] = x] = q
          OBVIOUS
        <4> HIDE DEF e
        <4>2. opens = s.opens
          BY <2>1, <3>2, <4>1
        <4> QED BY <2>1, <4>2
      <3> QED BY <3>1, <3>2
    <2> HIDE DEF opens
    <2>4. [s EXCEPT !.opens = opens, !.mode = "data", !.raw = 0] =
              [opens |-> opens, stack |-> s.stack, mode |-> "data", raw |-> 0]
      BY ClosedRaw
    <2>5. [opens |-> opens, stack |-> s.stack, mode |-> "data", raw |-> 0] \in Scan(V, n)
      BY <2>1, <2>3, IsScan
    <2> HIDE DEF closed
    <2> QED BY <2>2, <2>4, <2>5
  <1>3. CloseTag(s, piece.tag, at) \in Scan(V, n)
    BY CloseTagTyped
  <1>4. piece.kind = "open" => OpenElement(s, piece, at) \in Scan(V, n)
    BY OpenElementTyped
  <1>5. \/ ScanPiece(s, piece, at) \in {s, data, comment, closed, CloseTag(s, piece.tag, at)}
        \/ piece.kind = "open" /\ ScanPiece(s, piece, at) = OpenElement(s, piece, at)
    <2> HIDE DEF data, comment, closed
    <2>1. s.mode \in {"data", "comment", "raw"}
      BY ScanOf
    <2>2. CASE s.mode = "comment"
      BY <2>2 DEF ScanPiece, data
    <2>3. CASE s.mode = "raw"
      BY <2>3 DEF ScanPiece, closed
    <2>4. CASE s.mode = "data" /\ piece.kind = "<!--"
      BY <2>4 DEF ScanPiece, comment
    <2>5. CASE s.mode = "data" /\ piece.kind = "open"
      BY <2>5 DEF ScanPiece
    <2>6. CASE s.mode = "data" /\ piece.kind = "close"
      BY <2>6 DEF ScanPiece
    <2>7. CASE s.mode = "data" /\ piece.kind \notin {"<!--", "open", "close"}
      BY <2>7 DEF ScanPiece
    <2> QED BY <2>1, <2>2, <2>3, <2>4, <2>5, <2>6, <2>7
  <1> HIDE DEF data, comment, closed
  <1> QED BY <1>1, <1>2, <1>3, <1>4, <1>5

\* The scan, piece by piece.
ScanRun(u, V, text) ==
    /\ scanOpenTags(text) = u[Len(text)].opens
    /\ u[0] = NewScan
    /\ \A i \in 1 .. Len(text) : u[i] = ScanPiece(u[i - 1], text[i], i)
    /\ \A i \in 0 .. Len(text) : u[i] \in Scan(V, Len(text))

LEMMA ScanRuns ==
    ASSUME NEW V, NEW text \in Seq(Page(V))
    PROVE  \E u : ScanRun(u, V, text)
  <1> DEFINE n == Len(text)
             S == Scan(V, n)
             body(g) == [i \in 0 .. n |-> IF i = 0 THEN NewScan ELSE ScanPiece(g[i - 1], text[i], i)]
             step == [i \in 1 .. n |-> [q \in S |-> ScanPiece(q, text[i], i)]]
             u == CHOOSE g : g = body(g)
  <1>1. n \in Nat /\ n \in 0 .. n /\ \A i \in 1 .. n : text[i] \in Page(V)
    OBVIOUS
  <1>2. NewScan \in S
    <2>1. <<>> \in Seq(ScanElement(V, n)) /\ <<>> \in Seq(Nat) /\ DOMAIN <<>> = {}
      OBVIOUS
    <2> QED BY <2>1, IsScan DEF NewScan
  <1>3. scanOpenTags(text) = u[n].opens
    BY DEF scanOpenTags
  <1> HIDE DEF n
  <1>4. \A i \in 1 .. n : \A q \in S : ScanPiece(q, text[i], i) \in S
    BY <1>1, ScanPieceTyped
  <1> HIDE DEF S
  <1>5. step \in [1 .. n -> [S -> S]] /\ \A i \in 1 .. n : \A q \in S : step[i][q] = ScanPiece(q, text[i], i)
    BY <1>4
  <1> HIDE DEF step
  <1>6. PICK g : IsRun(g, S, n, NewScan, step)
    BY <1>1, <1>2, <1>5, Iterates DEF IsLoop
  <1>7. g \in [0 .. n -> S] /\ g[0] = NewScan /\ \A i \in 1 .. n : g[i] = step[i][g[i - 1]]
    BY <1>6 DEF IsRun
  <1>8. g = body(g)
    <2>1. g = [i \in 0 .. n |-> g[i]]
      BY <1>7
    <2>2. ASSUME NEW i \in 0 .. n, i # 0 PROVE g[i] = ScanPiece(g[i - 1], text[i], i)
      <3>1. i \in 1 .. n /\ i - 1 \in 0 .. n
        BY <1>1, <2>2
      <3>2. g[i - 1] \in S
        BY <1>7, <3>1
      <3> QED BY <1>5, <1>7, <3>1, <3>2
    <2> QED BY <1>7, <2>1, <2>2
  <1>9. u = body(u)
    BY <1>8
  <1> DEFINE T == {k \in Nat : u[k] \in S}
  <1>10. u[0] = NewScan /\ \A i \in 1 .. n : u[i] = ScanPiece(u[i - 1], text[i], i)
    <2> DEFINE e == body(u)
    <2>1. e[0] = NewScan /\ \A i \in 1 .. n : e[i] = ScanPiece(u[i - 1], text[i], i)
      <3>1. 0 \in 0 .. n /\ \A i \in 1 .. n : i \in 0 .. n /\ i # 0
        BY <1>1
      <3>2. e[0] = NewScan
        BY <3>1
      <3>3. \A i \in 1 .. n : e[i] = ScanPiece(u[i - 1], text[i], i)
        BY <3>1
      <3> QED BY <3>2, <3>3
    <2>2. u = e
      BY <1>9
    <2> HIDE DEF e, u
    <2> QED BY <2>1, <2>2
  <1> HIDE DEF u
  <1>11. 0 \in T
    BY <1>2, <1>10
  <1>12. ASSUME NEW k \in 0 .. (n - 1), k \in T PROVE k + 1 \in T
    <2>1. k + 1 \in 1 .. n /\ (k + 1) - 1 = k /\ u[k] \in S /\ k + 1 \in Nat
      BY <1>1, <1>12
    <2>2. u[k + 1] = ScanPiece(u[k], text[k + 1], k + 1)
      BY <1>10, <2>1
    <2> QED BY <1>4, <2>1, <2>2
  <1>13. \A k \in 0 .. n : k \in T
    <2> HIDE DEF T
    <2> QED BY <1>1, <1>11, <1>12, InductUpTo
  <1>14. ScanRun(u, V, text)
    BY <1>3, <1>10, <1>13 DEF ScanRun, S, n
  <1> QED BY <1>14

\* Every element has the text of an open tag of the document.
LEMMA ElementsTyped ==
    ASSUME NEW V, NEW text \in Seq(Page(V))
    PROVE  scanOpenTags(text) \in Seq(ScanElement(V, Len(text)))
  <1>1. PICK u : ScanRun(u, V, text)
    BY ScanRuns
  <1>2. Len(text) \in 0 .. Len(text)
    OBVIOUS
  <1> QED BY <1>1, <1>2, ScanOf DEF ScanRun

\* Rewriting tags with fine texts, one by one.
RewriteRun(u, V, text, elements) ==
    /\ Rewrite(text, elements) = u[Len(elements)]
    /\ u[0] = text
    /\ \A i \in 1 .. Len(elements) :
          u[i] = [u[i - 1] EXCEPT ![elements[i].at].text = elements[i].text]
    /\ \A i \in 0 .. Len(elements) : u[i] \in Seq(Page(V))

LEMMA RewriteRuns ==
    ASSUME NEW V, NEW text \in Seq(Page(V)), NEW E, NEW elements \in Seq(E),
           \A i \in DOMAIN elements :
              elements[i].text \in Seq(V) /\ Fine(elements[i].text)
    PROVE  \E u : RewriteRun(u, V, text, elements)
  <1> DEFINE n == Len(elements)
             S == Seq(Page(V))
             next(i, q) == [q EXCEPT ![elements[i].at].text = elements[i].text]
             body(g) == [i \in 0 .. n |-> IF i = 0 THEN text ELSE next(i, g[i - 1])]
             step == [i \in 1 .. n |-> [q \in S |-> next(i, q)]]
             u == CHOOSE g : g = body(g)
  <1>1. n \in Nat /\ n \in 0 .. n /\ DOMAIN elements = 1 .. n
    OBVIOUS
  <1>2. Rewrite(text, elements) = u[n]
    BY DEF Rewrite
  <1>3. ASSUME NEW i \in 1 .. n, NEW q \in S PROVE next(i, q) \in S
    <2> DEFINE j == elements[i].at
               x == elements[i].text
               piece == [q[j] EXCEPT !.text = x]
    <2>1. x \in Seq(V) /\ Fine(x)
      BY <1>1
    <2>2. next(i, q) = [q EXCEPT ![j] = piece]
      OBVIOUS
    <2>3. j \in DOMAIN q => piece \in Page(V)
      <3> HIDE DEF j, x
      <3> SUFFICES ASSUME j \in DOMAIN q PROVE piece \in Page(V)
        OBVIOUS
      <3>1. q[j] \in Page(V)
        OBVIOUS
      <3> QED BY <2>1, <3>1 DEF Page
    <2>4. \A k, y : k \notin DOMAIN q => [q EXCEPT ![k] = y] = q
      OBVIOUS
    <2>5. \A k \in DOMAIN q, y \in Page(V) : [q EXCEPT ![k] = y] \in Seq(Page(V))
      OBVIOUS
    <2> HIDE DEF next, piece, j
    <2>6. CASE j \in DOMAIN q
      <3>1. piece \in Page(V)
        BY <2>3, <2>6
      <3> QED BY <2>2, <2>5, <2>6, <3>1
    <2>7. CASE j \notin DOMAIN q
      BY <2>2, <2>4, <2>7
    <2> QED BY <2>6, <2>7
  <1> HIDE DEF next
  <1>4. text \in S
    OBVIOUS
  <1> HIDE DEF S, n
  <1>5. step \in [1 .. n -> [S -> S]] /\ \A i \in 1 .. n : \A q \in S : step[i][q] = next(i, q)
    BY <1>3
  <1> HIDE DEF step
  <1>6. PICK g : IsRun(g, S, n, text, step)
    BY <1>1, <1>4, <1>5, Iterates DEF IsLoop
  <1>7. g \in [0 .. n -> S] /\ g[0] = text /\ \A i \in 1 .. n : g[i] = step[i][g[i - 1]]
    BY <1>6 DEF IsRun
  <1>8. g = body(g)
    <2>1. g = [i \in 0 .. n |-> g[i]]
      BY <1>7
    <2>2. ASSUME NEW i \in 0 .. n, i # 0 PROVE g[i] = next(i, g[i - 1])
      <3>1. i \in 1 .. n /\ i - 1 \in 0 .. n
        BY <1>1, <2>2
      <3>2. g[i - 1] \in S
        BY <1>7, <3>1
      <3> QED BY <1>5, <1>7, <3>1, <3>2
    <2> QED BY <1>7, <2>1, <2>2
  <1>9. u = body(u)
    BY <1>8
  <1>10. u[0] = text /\ \A i \in 1 .. n : u[i] = next(i, u[i - 1])
    <2> DEFINE e == body(u)
    <2>1. e[0] = text /\ \A i \in 1 .. n : e[i] = next(i, u[i - 1])
      <3>1. 0 \in 0 .. n /\ \A i \in 1 .. n : i \in 0 .. n /\ i # 0
        BY <1>1
      <3>2. e[0] = text
        BY <3>1
      <3>3. \A i \in 1 .. n : e[i] = next(i, u[i - 1])
        BY <3>1
      <3> QED BY <3>2, <3>3
    <2>2. u = e
      BY <1>9
    <2> HIDE DEF e, u
    <2> QED BY <2>1, <2>2
  <1> HIDE DEF u
  <1> DEFINE T == {k \in Nat : u[k] \in S}
  <1>11. 0 \in T
    BY <1>4, <1>10
  <1>12. ASSUME NEW k \in 0 .. (n - 1), k \in T PROVE k + 1 \in T
    <2>1. k + 1 \in 1 .. n /\ (k + 1) - 1 = k /\ u[k] \in S /\ k + 1 \in Nat
      BY <1>1, <1>12
    <2>2. u[k + 1] = next(k + 1, u[k])
      BY <1>10, <2>1
    <2> QED BY <1>3, <2>1, <2>2
  <1>13. \A k \in 0 .. n : k \in T
    <2> HIDE DEF T
    <2> QED BY <1>1, <1>11, <1>12, InductUpTo
  <1>14. RewriteRun(u, V, text, elements)
    BY <1>2, <1>10, <1>13 DEF RewriteRun, S, n, next
  <1> QED BY <1>14

LEMMA RewrittenPage ==
    ASSUME NEW V, NEW text \in Seq(Page(V)), NEW E, NEW elements \in Seq(E),
           \A i \in DOMAIN elements :
              elements[i].text \in Seq(V) /\ Fine(elements[i].text)
    PROVE  Rewrite(text, elements) \in Seq(Page(V))
  <1>1. PICK u : RewriteRun(u, V, text, elements)
    BY RewriteRuns
  <1>2. Len(elements) \in 0 .. Len(elements)
    OBVIOUS
  <1> QED BY <1>1, <1>2 DEF RewriteRun

LEMMA SeqGrows ==
    ASSUME NEW A, NEW B, A \subseteq B, NEW s \in Seq(A)
    PROVE  s \in Seq(B)
  OBVIOUS

LEMMA PageGrows ==
    ASSUME NEW V, NEW W, V \subseteq W, NEW h \in Seq(Page(V))
    PROVE  h \in Seq(Page(W))
  <1>1. ASSUME NEW piece \in Page(V) PROVE piece \in Page(W)
    <2>1. piece.text \in Seq(V)
      BY DEF Page
    <2>2. piece.text \in Seq(W)
      BY <2>1, SeqGrows
    <2> QED BY <2>2 DEF Page
  <1>2. Page(V) \subseteq Page(W)
    BY <1>1
  <1> QED BY <1>2, SeqGrows

\* The harvested elements are elements of the document.
LEMMA HarvestTyped ==
    ASSUME NEW V, NEW text \in Seq(Page(V)), NEW at
    PROVE  Harvest(text, at) \in Seq(ScanElement(V, Len(text)))
  <1>1. scanOpenTags(text) \in Seq(ScanElement(V, Len(text)))
    BY ElementsTyped
  <1> QED BY <1>1, SubsequencePicks DEF Harvest

\* The tags of a document's elements without their identities.
AreCleaned(clean, opens, V) ==
    /\ \E E : clean \in Seq(E)
    /\ DOMAIN clean = DOMAIN opens
    /\ \A i \in DOMAIN opens : clean[i].at = opens[i].at /\ clean[i].text = Cleaned(opens[i])
    /\ \A i \in DOMAIN clean : clean[i].text \in Seq(V) /\ Fine(clean[i].text)

LEMMA CleanedTagsOf ==
    ASSUME NEW V, TagWords \subseteq V, NEW text \in Seq(Page(V))
    PROVE  AreCleaned(CleanedTags(scanOpenTags(text)), scanOpenTags(text), V)
  <1> DEFINE opens == scanOpenTags(text)
             clean == CleanedTags(opens)
             E == {clean[i] : i \in DOMAIN opens}
  <1>1. opens \in Seq(ScanElement(V, Len(text)))
    BY ElementsTyped
  <1> HIDE DEF opens
  <1>2. ASSUME NEW i \in DOMAIN opens
        PROVE  /\ clean[i].at = opens[i].at /\ clean[i].text = Cleaned(opens[i])
               /\ Cleaned(opens[i]) \in Seq(V) /\ Fine(Cleaned(opens[i]))
    <2> DEFINE e == opens[i]
               x == Cleaned(e)
    <2>1. e \in ScanElement(V, Len(text))
      BY <1>1
    <2>2. e.text \in Seq(V) /\ Fine(e.text) /\ "text" \in DOMAIN e
      BY <2>1 DEF ScanElement
    <2>3. Space \in V
      BY DEF TagWords
    <2>4. clean[i] = [e EXCEPT !.text = x]
      BY DEF CleanedTags
    <2> HIDE DEF e, clean
    <2>5. x \in Seq(V) /\ Stamper(x)
      BY <2>2, <2>3, CleanedIsFine
    <2> HIDE DEF x
    <2>6. clean[i].text = x /\ clean[i].at = e.at
      BY <2>1, <2>2, <2>4 DEF ScanElement
    <2> QED BY <2>5, <2>6 DEF Fine, x, e
  <1>3. DOMAIN opens = 1 .. Len(opens) /\ Len(opens) \in Nat
    BY <1>1
  <1>4. clean = [i \in DOMAIN opens |-> clean[i]]
    BY DEF CleanedTags
  <1> HIDE DEF clean
  <1>5. clean \in Seq(E) /\ DOMAIN clean = DOMAIN opens
    BY <1>3, <1>4
  <1> HIDE DEF E
  <1>6. AreCleaned(clean, opens, V)
    BY <1>2, <1>5 DEF AreCleaned
  <1> QED BY <1>6 DEF opens, clean

\* Taking the identities out leaves a document of fine tags.
LEMMA StrippedPage ==
    ASSUME NEW V, TagWords \subseteq V, NEW text \in Seq(Page(V))
    PROVE  stripAllAIDs(text) \in Seq(Page(V))
  <1> DEFINE clean == CleanedTags(scanOpenTags(text))
  <1>1. AreCleaned(clean, scanOpenTags(text), V)
    BY CleanedTagsOf
  <1> HIDE DEF clean
  <1>2. PICK E : clean \in Seq(E)
    BY <1>1 DEF AreCleaned
  <1>3. Rewrite(text, clean) \in Seq(Page(V))
    BY <1>1, <1>2, RewrittenPage DEF AreCleaned
  <1> QED BY <1>3 DEF stripAllAIDs, clean

\* What an element becomes has an identity, and a fine tag that bears it.
LEMMA ArtifactIsFine ==
    ASSUME NEW V, TagWords \subseteq V, NEW e, e.text \in Seq(V), Fine(e.text),
           NEW text, NEW headings, NEW pinnedAID, NEW at, pinnedAID = NoAID \/ IsAID(pinnedAID)
    PROVE  LET a == Artifact(text, e, headings, pinnedAID, at) IN
           IsAID(a.aid) /\ a.text \in Seq(V \cup {a.aid}) /\ Stamper(a.text)
  <1> DEFINE t == StripAID(e.text)
             aid == IF pinnedAID # NoAID /\ e.at = at THEN pinnedAID
                    ELSE saltAwayFromPinned(e.tag, Inner(text, e), t, pinnedAID)
             c == \/ IsVoid(e) /\ SelfCloses(t)
                  \/ e.ns # "html" /\ CloseEnd(e) = e.at /\ SelfCloses(e.text)
             a == Artifact(text, e, headings, pinnedAID, at)
             W == V \cup {aid}
  <1>1. t \in Seq(V) /\ Stamper(t)
    BY StrippedIsFine
  <1>2. a.aid = aid /\ a.text = StampedOpenTag(t, aid, c)
    BY DEF Artifact
  <1> HIDE DEF a, c, t
  <1>3. IsAID(saltAwayFromPinned(e.tag, Inner(text, e), t, pinnedAID))
    BY HashIsAID DEF saltAwayFromPinned, aidFor
  <1>4. IsAID(aid)
    BY <1>3
  <1> HIDE DEF aid
  <1>5. TagWords \subseteq W /\ V \subseteq W /\ aid \in W
    OBVIOUS
  <1> HIDE DEF W
  <1>6. t \in Seq(W)
    BY <1>1, <1>5, SeqGrows
  <1>7. StampedOpenTag(t, aid, c) \in Seq(W) /\ Stamper(StampedOpenTag(t, aid, c))
    BY <1>1, <1>4, <1>5, <1>6, StampedTagIsFine
  <1> QED BY <1>2, <1>4, <1>7 DEF W, a

\* What the harvested elements become, one by one.
AreArtifacts(artifacts, text, elements, headings, pinnedAID, at) ==
    /\ artifacts \in Seq({Artifact(text, elements[i], headings, pinnedAID, at) : i \in DOMAIN elements})
    /\ Len(artifacts) = Len(elements)
    /\ \A i \in 1 .. Len(elements) :
          artifacts[i] = Artifact(text, elements[i], headings, pinnedAID, at)

LEMMA ArtifactsEach ==
    ASSUME NEW E, NEW elements \in Seq(E), NEW text, NEW headings, NEW pinnedAID, NEW at
    PROVE  AreArtifacts(ArtifactsOf(text, elements, headings, pinnedAID, at),
                        text, elements, headings, pinnedAID, at)
  <1> DEFINE m == Len(elements)
             a(i) == Artifact(text, elements[i], headings, pinnedAID, at)
             R == {a(i) : i \in DOMAIN elements}
             S == Seq(R)
             body(g) == [i \in 0 .. m |-> IF i = 0 THEN <<>> ELSE Append(g[i - 1], a(i))]
             step == [i \in 1 .. m |-> [q \in S |-> Append(q, a(i))]]
             u == CHOOSE g : g = body(g)
  <1>1. m \in Nat /\ m \in 0 .. m /\ DOMAIN elements = 1 .. m
    OBVIOUS
  <1>2. ArtifactsOf(text, elements, headings, pinnedAID, at) = u[m]
    BY DEF ArtifactsOf
  <1>3. R = {Artifact(text, elements[i], headings, pinnedAID, at) : i \in DOMAIN elements}
        /\ \A i : a(i) = Artifact(text, elements[i], headings, pinnedAID, at)
    OBVIOUS
  <1> HIDE DEF a, m
  <1>4. \A i \in 1 .. m : a(i) \in R
    BY <1>1
  <1> HIDE DEF R
  <1>7. ASSUME NEW i \in 1 .. m, NEW q \in S PROVE Append(q, a(i)) \in S
    BY <1>4
  <1>8. <<>> \in S
    OBVIOUS
  <1> HIDE DEF S
  <1>9. step \in [1 .. m -> [S -> S]] /\ \A i \in 1 .. m : \A q \in S : step[i][q] = Append(q, a(i))
    BY <1>7
  <1> HIDE DEF step
  <1>10. PICK g : IsRun(g, S, m, <<>>, step)
    BY <1>1, <1>8, <1>9, Iterates DEF IsLoop
  <1>11. g \in [0 .. m -> S] /\ g[0] = <<>> /\ \A i \in 1 .. m : g[i] = step[i][g[i - 1]]
    BY <1>10 DEF IsRun
  <1>12. g = body(g)
    <2>1. g = [i \in 0 .. m |-> g[i]]
      BY <1>11
    <2>2. ASSUME NEW i \in 0 .. m, i # 0 PROVE g[i] = Append(g[i - 1], a(i))
      <3>1. i \in 1 .. m /\ i - 1 \in 0 .. m
        BY <1>1, <2>2
      <3>2. g[i - 1] \in S
        BY <1>11, <3>1
      <3> QED BY <1>9, <1>11, <3>1, <3>2
    <2> QED BY <1>11, <2>1, <2>2
  <1>13. u = body(u)
    BY <1>12
  <1>14. u[0] = <<>> /\ \A i \in 1 .. m : u[i] = Append(u[i - 1], a(i))
    <2> DEFINE e == body(u)
    <2>1. e[0] = <<>> /\ \A i \in 1 .. m : e[i] = Append(u[i - 1], a(i))
      <3>1. 0 \in 0 .. m /\ \A i \in 1 .. m : i \in 0 .. m /\ i # 0
        BY <1>1
      <3>2. e[0] = <<>>
        BY <3>1
      <3>3. \A i \in 1 .. m : e[i] = Append(u[i - 1], a(i))
        BY <3>1
      <3> QED BY <3>2, <3>3
    <2>2. u = e
      BY <1>13
    <2> HIDE DEF e, u
    <2> QED BY <2>1, <2>2
  <1> HIDE DEF u
  <1> DEFINE T == {k \in Nat : u[k] \in S /\ Len(u[k]) = k /\ \A i \in 1 .. k : u[k][i] = a(i)}
  <1>15. 0 \in T
    BY <1>8, <1>14
  <1>16. ASSUME NEW k \in 0 .. (m - 1), k \in T PROVE k + 1 \in T
    <2> DEFINE j == k + 1
    <2>1. j \in 1 .. m /\ j - 1 = k /\ u[k] \in S /\ j \in Nat /\ Len(u[k]) = k
          /\ \A i \in 1 .. j : i \in 1 .. k \/ i = j
      BY <1>1, <1>16
    <2>2. u[j] = Append(u[k], a(j))
      BY <1>14, <2>1
    <2>3. u[k] \in Seq(R) /\ a(j) \in R
      BY <1>4, <2>1 DEF S
    <2> HIDE DEF j
    <2>4. Len(u[j]) = Len(u[k]) + 1
      BY <2>2, <2>3, OneLonger
    <2>5. Len(u[j]) = j
      BY <1>1, <2>1, <2>4
    <2>6. u[j][j] = a(j) /\ \A i \in 1 .. k : u[j][i] = u[k][i]
      BY <2>1, <2>2, <2>3
    <2>7. \A i \in 1 .. j : u[j][i] = a(i)
      BY <1>16, <2>1, <2>6
    <2>8. u[j] \in S
      BY <1>7, <2>1, <2>2
    <2> QED BY <2>1, <2>5, <2>7, <2>8 DEF j
  <1>17. m \in T
    <2> HIDE DEF T
    <2> QED BY <1>1, <1>15, <1>16, InductUpTo
  <1>18. u[m] \in Seq(R) /\ Len(u[m]) = m /\ \A i \in 1 .. m : u[m][i] = a(i)
    BY <1>17 DEF S
  <1> QED BY <1>2, <1>3, <1>18 DEF AreArtifacts, m

\* All of them have an identity and a fine tag.
AllFine(artifacts, R, W) ==
    /\ artifacts \in Seq(R)
    /\ \A a \in R : IsAID(a.aid) /\ a.text \in Seq(W) /\ Fine(a.text)

LEMMA ArtifactsAreFine ==
    ASSUME NEW V, TagWords \subseteq V, NEW n, NEW elements \in Seq(ScanElement(V, n)),
           NEW text, NEW headings, NEW pinnedAID, NEW at, pinnedAID = NoAID \/ IsAID(pinnedAID)
    PROVE  \E R, W : V \subseteq W /\ AllFine(ArtifactsOf(text, elements, headings, pinnedAID, at), R, W)
  <1> DEFINE m == Len(elements)
             a(i) == Artifact(text, elements[i], headings, pinnedAID, at)
             R == {a(i) : i \in DOMAIN elements}
             W == V \cup {b.aid : b \in R}
             artifacts == ArtifactsOf(text, elements, headings, pinnedAID, at)
  <1>1. m \in Nat /\ DOMAIN elements = 1 .. m
    OBVIOUS
  <1>2. artifacts \in Seq(R)
    BY ArtifactsEach DEF AreArtifacts
  <1>3. ASSUME NEW i \in 1 .. m
        PROVE  IsAID(a(i).aid) /\ a(i).text \in Seq(V \cup {a(i).aid}) /\ Stamper(a(i).text)
    <2> DEFINE e == elements[i]
    <2>1. e \in ScanElement(V, n)
      BY <1>1
    <2> HIDE DEF e
    <2>2. e.text \in Seq(V) /\ Fine(e.text)
      BY <2>1 DEF ScanElement
    <2>3. LET b == Artifact(text, e, headings, pinnedAID, at) IN
          IsAID(b.aid) /\ b.text \in Seq(V \cup {b.aid}) /\ Stamper(b.text)
      BY <2>2, ArtifactIsFine
    <2> QED BY <2>3 DEF e
  <1> HIDE DEF a, m, artifacts
  <1>5. ASSUME NEW b \in R PROVE IsAID(b.aid) /\ b.text \in Seq(W) /\ Fine(b.text)
    <2>1. PICK i \in 1 .. m : b = a(i)
      BY <1>1
    <2>2. IsAID(b.aid) /\ b.text \in Seq(V \cup {b.aid}) /\ Stamper(b.text)
      BY <1>3, <2>1
    <2>3. V \cup {b.aid} \subseteq W
      OBVIOUS
    <2> HIDE DEF W, R
    <2>4. b.text \in Seq(W)
      BY <2>2, <2>3, SeqGrows
    <2> QED BY <2>2, <2>4 DEF Fine
  <1>6. V \subseteq W
    OBVIOUS
  <1> HIDE DEF R, W
  <1>7. AllFine(artifacts, R, W)
    BY <1>2, <1>5 DEF AllFine
  <1> QED BY <1>6, <1>7 DEF artifacts

-------------------------------------------------------------------------------
(* A published version is a document of fine tags, and its index lists        *)
(* identities.                                                               *)

SomePage(text) == \E V : TagWords \subseteq V /\ text \in Seq(Page(V))

ListsAIDs(aids) == \A i \in DOMAIN aids : IsAID(aids[i].aid)

IsFine(stamped) == SomePage(stamped.html) /\ ListsAIDs(stamped.aids)

LEMMA StampedIsFine ==
    ASSUME NEW text, SomePage(text), NEW pinnedAID, NEW at, pinnedAID = NoAID \/ IsAID(pinnedAID)
    PROVE  IsFine(StampAt(text, pinnedAID, at))
  <1>1. PICK V : TagWords \subseteq V /\ text \in Seq(Page(V))
    BY DEF SomePage
  <1> DEFINE elements == Harvest(text, at)
             active == IF \E i \in DOMAIN elements : elements[i].at = at THEN pinnedAID ELSE NoAID
             artifacts == ArtifactsOf(text, elements, collectHeadings(text), active, at)
  <1>2. elements \in Seq(ScanElement(V, Len(text)))
    BY <1>1, HarvestTyped
  <1>3. active = NoAID \/ IsAID(active)
    OBVIOUS
  <1>4. StampAt(text, pinnedAID, at) = Stamped(text, artifacts)
    BY DEF StampAt, StampElements
  <1> HIDE DEF active, elements
  <1>5. PICK R, W : V \subseteq W /\ AllFine(artifacts, R, W)
    BY <1>1, <1>2, <1>3, ArtifactsAreFine
  <1> HIDE DEF artifacts
  <1>6. /\ artifacts \in Seq(R)
        /\ \A i \in DOMAIN artifacts : /\ artifacts[i].text \in Seq(W) /\ Fine(artifacts[i].text)
                                       /\ IsAID(artifacts[i].aid)
    <2>1. artifacts \in Seq(R) /\ \A i \in DOMAIN artifacts : artifacts[i] \in R
      BY <1>5 DEF AllFine
    <2> QED BY <1>5, <2>1 DEF AllFine
  <1>7. TagWords \subseteq W
    BY <1>1, <1>5
  <1>8. text \in Seq(Page(W))
    BY <1>1, <1>5, PageGrows
  <1>9. Rewrite(text, artifacts) \in Seq(Page(W))
    BY <1>6, <1>8, RewrittenPage
  <1>10. SomePage(Rewrite(text, artifacts))
    BY <1>7, <1>9 DEF SomePage
  <1>11. ListsAIDs(Stamped(text, artifacts).aids)
    BY <1>6 DEF ListsAIDs, Stamped
  <1> QED BY <1>4, <1>10, <1>11 DEF IsFine, Stamped

LEMMA StampedAidsAreFine ==
    ASSUME NEW raw, SomePage(raw), NEW pinnedAID, NEW at, pinnedAID = NoAID \/ IsAID(pinnedAID)
    PROVE  IsFine(stampAids(raw, pinnedAID, at))
  <1>1. SomePage(stripAllAIDs(raw))
    BY StrippedPage DEF SomePage
  <1> QED BY <1>1, StampedIsFine DEF stampAids, StampStripped

LEMMA WrittenPage ==
    ASSUME NEW text \in Seq(Written), IsDocument(text)
    PROVE  text \in Seq(Page(Character))
  <1>1. ASSUME NEW i \in DOMAIN text PROVE text[i] \in Page(Character)
    <2>1. text[i] \in Written
      OBVIOUS
    <2>2. text[i].kind = "open" => Author(text[i].text)
      BY <2>1, PiecesAreWritten DEF IsDocument, Author
    <2> QED BY <2>1, <2>2 DEF Written, Page, Fine
  <1> QED BY <1>1

LEMMA WrittenIsFine ==
    ASSUME NEW text \in Seq(Written), IsDocument(text)
    PROVE  SomePage(text)
  <1>1. TagWords \subseteq Character
    BY DEF TagWords, Character
  <1> QED BY <1>1, WrittenPage DEF SomePage

LEMMA FoundElement ==
    ASSUME NEW V, NEW text \in Seq(Page(V)), NEW aid, NEW e \in ElementByAID(text, aid)
    PROVE  e.at \in 1 .. Len(text) /\ CloseEnd(e) \in 1 .. Len(text)
  <1> DEFINE found == Harvest(text, NoPin)
             n == Len(text)
  <1>1. found \in Seq(ScanElement(V, n))
    BY HarvestTyped
  <1> HIDE DEF found, n
  <1>2. PICK i \in DOMAIN found : e = found[i]
    BY DEF ElementByAID, FirstBearer, found
  <1>3. e \in ScanElement(V, n)
    BY <1>1, <1>2
  <1>4. e.at \in 1 .. n /\ e.close \in 1 .. n
    BY <1>3 DEF ScanElement
  <1> QED BY <1>4 DEF CloseEnd, n

\* A text with a fragment, whose root bears an identity, in the place of an element.
LEMMA ReplacedIsFine ==
    ASSUME NEW text, SomePage(text), NEW aid, IsAID(aid), NEW e \in ElementByAID(text, aid),
           NEW fragment \in Fragments, IsHarvestableReplacementRoot(fragment),
           \A i \in DOMAIN fragment : ~HasDataOdoc(fragment[i].text)
    PROVE  SomePage(Replaced(text, e, aid, fragment))
  <1>1. PICK V : TagWords \subseteq V /\ text \in Seq(Page(V))
    BY DEF SomePage
  <1>2. fragment \in Seq(Written) /\ IsDocument(fragment)
    BY FragmentAssumption
  <1>3. fragment # <<>> /\ fragment[1].kind = "open"
    BY DEF IsHarvestableReplacementRoot, SingleTopLevelTag
  <1>4. 1 \in DOMAIN fragment /\ fragment[1] \in Written
    BY <1>2, <1>3
  <1> DEFINE t == fragment[1].text
             W == V \cup Character \cup {aid}
             x == InjectRootAID(t, aid)
             root == [fragment[1] EXCEPT !.text = x]
             injected == [fragment EXCEPT ![1] = root]
             n == Len(text)
             p == e.at - 1
             q == CloseEnd(e) + 1
             before == SubSeq(text, 1, p)
             after == SubSeq(text, q, n)
  <1>5. t \in Seq(Character) /\ Author(t) /\ NamesBeginWithNoEquals(t) /\ ~HasDataOdoc(t)
    BY <1>2, <1>3, <1>4, PiecesAreWritten DEF IsDocument, Author
  <1>6. Stamper(t)
    BY <1>5, PlainIsFine
  <1>7. V \subseteq W /\ Character \subseteq W /\ aid \in W /\ TagWords \subseteq W
    BY <1>1
  <1>8. Replaced(text, e, aid, fragment) = before \o injected \o after
    BY DEF Replaced
  <1> HIDE DEF W, t
  <1>9. t \in Seq(W)
    BY <1>5, <1>7, SeqGrows
  <1>10. x \in Seq(W) /\ Fine(x)
    BY <1>6, <1>7, <1>9, InjectedTagIsFine DEF Fine
  <1> HIDE DEF x
  <1>11. fragment \in Seq(Page(W))
    BY <1>2, <1>7, WrittenPage, PageGrows
  <1>12. root \in Page(W)
    <2>1. fragment[1] \in Page(W)
      BY <1>4, <1>11
    <2> QED BY <1>10, <2>1 DEF Page
  <1> HIDE DEF root
  <1>13. injected \in Seq(Page(W))
    <2>1. \A s \in Seq(Page(W)) : \A k \in DOMAIN s, y \in Page(W) : [s EXCEPT ![k] = y] \in Seq(Page(W))
      OBVIOUS
    <2> QED BY <1>4, <1>11, <1>12, <2>1
  <1> HIDE DEF injected
  <1>14. e.at \in 1 .. n /\ CloseEnd(e) \in 1 .. n /\ n \in Nat
    BY <1>1, FoundElement
  <1>15. p \in 0 .. n /\ q \in 1 .. (n + 1) /\ n \in (q - 1) .. n /\ p \in (1 - 1) .. n /\ 1 \in 1 .. (n + 1)
    BY <1>14
  <1> HIDE DEF p, q
  <1>16. text \in Seq(Page(W))
    BY <1>1, <1>7, PageGrows
  <1>17. before \in Seq(Page(W)) /\ after \in Seq(Page(W))
    BY <1>15, <1>16, Slices DEF n
  <1> HIDE DEF before, after
  <1>18. before \o injected \in Seq(Page(W))
    BY <1>13, <1>17, Joined
  <1>19. (before \o injected) \o after \in Seq(Page(W))
    BY <1>17, <1>18, Joined
  <1> QED BY <1>7, <1>8, <1>19 DEF SomePage

\* Every published version is a document of fine tags with a list of identities.
PublishedIsFine == published => SomePage(html) /\ ListsAIDs(index)

LEMMA PublishedHolds == Spec => []PublishedIsFine
  <1>1. Init => PublishedIsFine
    BY DEF Init, PublishedIsFine
  <1>2. TextIsWritten /\ PublishedIsFine /\ [Next]_vars => PublishedIsFine'
    <2> SUFFICES ASSUME TextIsWritten, PublishedIsFine, [Next]_vars PROVE PublishedIsFine'
      OBVIOUS
    <2>1. ASSUME NEW stamped, Publish(stamped), IsFine(stamped) PROVE PublishedIsFine'
      BY <2>1 DEF Publish, IsFine, PublishedIsFine, SomePage, ListsAIDs
    <2>2. CASE Write
      BY <2>2 DEF Write, PublishedIsFine
    <2>3. CASE FirstPublish
      <3>1. html \in Seq(Written) /\ IsDocument(html) /\ Publish(StampAids(html))
        BY <2>3 DEF FirstPublish, TextIsWritten
      <3>2. IsFine(StampAids(html))
        BY <3>1, WrittenIsFine, StampedAidsAreFine DEF StampAids
      <3> QED BY <2>1, <3>1, <3>2
    <2>4. CASE Republish
      <3>1. SomePage(html) /\ Publish(StampAids(html))
        BY <2>4 DEF Republish, PublishedIsFine
      <3>2. IsFine(StampAids(html))
        BY <3>1, StampedAidsAreFine DEF StampAids
      <3> QED BY <2>1, <3>1, <3>2
    <2>5. ASSUME NEW aid \in {index[i].aid : i \in DOMAIN index}, NEW fragment \in Fragments,
                 ReplaceElement(aid, fragment)
          PROVE  PublishedIsFine'
      <3>1. SomePage(html) /\ IsAID(aid)
        BY <2>5 DEF ReplaceElement, PublishedIsFine, ListsAIDs
      <3> DEFINE canonical == StampAids(fragment).aids[1].aid
      <3>2. PICK e \in ElementByAID(html, aid) :
                PublishReplaced(e.at, Replaced(html, e, aid, fragment), canonical)
        BY <2>5 DEF ReplaceElement
      <3> HIDE DEF canonical
      <3> DEFINE replaced == Replaced(html, e, aid, fragment)
      <3>3. SomePage(replaced)
        BY <2>5, <3>1, ReplacedIsFine DEF ReplaceElement
      <3>4. /\ Cardinality(Matches(StampAids(replaced), canonical)) = 1
            /\ Publish(stampAids(replaced, canonical, e.at))
        BY <3>2 DEF PublishReplaced
      <3> HIDE DEF replaced
      <3>5. IsAID(canonical)
        <4>1. Matches(StampAids(replaced), canonical) # {}
          BY <3>4, FS_EmptySet
        <4>2. PICK i \in DOMAIN StampAids(replaced).aids : StampAids(replaced).aids[i].aid = canonical
          BY <4>1 DEF Matches
        <4>3. IsFine(StampAids(replaced))
          BY <3>3, StampedAidsAreFine DEF StampAids
        <4> QED BY <4>2, <4>3 DEF IsFine, ListsAIDs
      <3>6. IsFine(stampAids(replaced, canonical, e.at))
        BY <3>3, <3>5, StampedAidsAreFine
      <3> QED BY <2>1, <3>4, <3>6
    <2>6. CASE UNCHANGED vars
      BY <2>6 DEF vars, PublishedIsFine, SomePage, ListsAIDs
    <2> QED BY <2>2, <2>3, <2>4, <2>5, <2>6 DEF Next
  <1> QED BY <1>1, <1>2, WrittenHolds, PTL DEF Spec

\* In every text an author can write and in every version that is published, stamped
\* again or edited by replacing an element, the readers of the code agree about every
\* tag that ends and whose names do not begin with `=`: what the stamper writes into a
\* tag is what it reads there (attrAwareOpenTagEnd, forEachAttr, forEachAttrName,
\* terminalSelfCloseSlash).
THEOREM ReadersAgree == Spec => []OneReading
  <1>1. TextIsWritten /\ PublishedIsFine => OneReading
    <2> SUFFICES ASSUME TextIsWritten, PublishedIsFine,
                        NEW i \in DOMAIN html, html[i].kind = "open",
                        NamesBeginWithNoEquals(html[i].text)
                 PROVE  ReadAlike(html[i].text)
      BY DEF OneReading
    <2>1. CASE ~published
      <3>1. html[i] \in Written
        BY <2>1 DEF TextIsWritten
      <3>2. html[i].text \in Seq(Character) /\ IsTagText(html[i].text)
        BY <3>1, PiecesAreWritten
      <3> QED BY <3>2, TagTextsReadAlike
    <2>2. CASE published
      <3>1. PICK V : html \in Seq(Page(V))
        BY <2>2 DEF PublishedIsFine, SomePage
      <3>2. html[i] \in Page(V)
        BY <3>1
      <3>3. html[i].text \in Seq(V) /\ IsTagText(html[i].text)
        BY <3>2 DEF Page, Fine, Stamper, Author
      <3> QED BY <3>3, TagTextsReadAlike
    <2> QED BY <2>1, <2>2
  <1> QED BY <1>1, WrittenHolds, PublishedHolds, PTL

-------------------------------------------------------------------------------
(* What the stamper writes into a tag is what it finds there again and what  *)
(* it takes out.                                                             *)

\* Where an identity goes: among the spaces that end the tag, and before the slash
\* behind them if the tag closes itself; the stamper puts it before the spaces.
Room(t, p, end) ==
    /\ end \in 0 .. Len(t) /\ p \in 0 .. end
    /\ \A k \in (p + 1) .. end : t[k] = Space
    /\ end = Len(t) \/ (end + 1 = Len(t) /\ SelfCloses(t) /\ t[Len(t)] = Slash)

Place(t, p, end) == Room(t, p, end) /\ (p = 0 \/ t[p] # Space)

LEMMA StampingPlace ==
    ASSUME NEW V, NEW t \in Seq(V), NEW aid, NEW c
    PROVE  \E p, end : /\ Place(t, p, end)
                       /\ StampedOpenTag(t, aid, c) = Insert(t, p, AIDText(aid))
                       /\ end = Len(t) <=> ~(c /\ SelfCloses(t))
  <1> DEFINE n == Len(t)
             end == IF c /\ SelfCloses(t) THEN n - 1 ELSE n
             s == SpaceStart(t, end + 1)
             p == s - 1
  <1>1. n \in Nat /\ (SelfCloses(t) => n # 0 /\ t[n] = Slash)
    BY SelfClosingEnds
  <1>2. end \in 0 .. n /\ (end = n \/ (end + 1 = n /\ SelfCloses(t) /\ t[n] = Slash))
        /\ (end = n <=> ~(c /\ SelfCloses(t)))
    BY <1>1
  <1>4. StampedOpenTag(t, aid, c) = Insert(t, p, AIDText(aid))
    BY DEF StampedOpenTag
  <1> HIDE DEF end
  <1>3. s \in 1 .. (end + 1) /\ (\A k \in s .. ((end + 1) - 1) : t[k] = Space)
        /\ (s = 1 \/ t[s - 1] # Space)
    <2>1. end + 1 \in Nat \ {0}
      BY <1>1, <1>2
    <2> QED BY <2>1, SpacesStart
  <1> HIDE DEF s, n
  <1>5. p \in 0 .. end /\ p + 1 = s /\ (end + 1) - 1 = end
    BY <1>1, <1>2, <1>3
  <1>6. p = 0 \/ t[p] # Space
    BY <1>3
  <1> HIDE DEF p
  <1>7. \A k \in (p + 1) .. end : t[k] = Space
    BY <1>3, <1>5
  <1>8. Place(t, p, end)
    BY <1>2, <1>5, <1>6, <1>7 DEF Place, Room, n
  <1> QED BY <1>2, <1>4, <1>8 DEF n

\* The tag with the identity in its place, character by character.
Borne(w, t, p, end, aid) ==
    /\ Len(t) \in Nat /\ Len(w) = Len(t) + 6 /\ DOMAIN w = 1 .. (Len(t) + 6)
    /\ Room(t, p, end) /\ Bears(w, t, p, aid)
    /\ \A i \in 1 .. p : t[i] = AIDName => i < p /\ Longer(w, i)
    /\ \A i \in (p + 7) .. (Len(t) + 6) : w[i] \in {Space, Slash}

\* The slash that closes the tag stays behind the place if the stamper is told so.
BorneAs(w, t, p, end, aid, c) ==
    Borne(w, t, p, end, aid) /\ (end = Len(t) <=> ~(c /\ SelfCloses(t)))

LEMMA InsertedIsBorne ==
    ASSUME NEW V, TagWords \subseteq V, NEW t \in Seq(V), Bare(t), NEW aid \in V,
           NEW p, NEW end, Room(t, p, end), NEW w, w = Insert(t, p, AIDText(aid))
    PROVE  Borne(w, t, p, end, aid)
  <1> DEFINE n == Len(t)
  <1>2. n \in Nat /\ DOMAIN t = 1 .. n /\ p \in 0 .. n /\ end \in 0 .. n /\ p <= end
        /\ (end = n \/ end + 1 = n)
    BY DEF Room
  <1> HIDE DEF n
  <1>3. w \in Seq(V) /\ Bears(w, t, p, aid)
    BY <1>2, InsertedAt DEF n
  <1>4. \A k \in (p + 1) .. n : t[k] \in {Space, Slash}
    <2> TAKE k \in (p + 1) .. n
    <2>1. k \in (p + 1) .. end \/ (k = n /\ end # n)
      BY <1>2
    <2> QED BY <2>1 DEF Room, n
  <1>5. ASSUME NEW i \in 1 .. p, t[i] = AIDName PROVE i < p /\ Longer(w, i)
    <2>1. i < n /\ ClassOf(t[i + 1]) \notin {"space", "slash", "equals"}
      <3>1. i \in DOMAIN t /\ Longer(t, i)
        BY <1>2, <1>5 DEF Bare
      <3> QED BY <3>1 DEF Longer, n
    <2>2. i + 1 \in 1 .. n
      BY <1>2, <2>1
    <2>3. i # p
      <3> SUFFICES ASSUME i = p PROVE FALSE
        OBVIOUS
      <3>1. t[i + 1] \in {Space, Slash}
        BY <1>2, <1>4, <2>2
      <3> QED BY <2>1, <3>1, ColumnOfCharacter
    <2>4. i + 1 \in 1 .. p /\ i < n + 6
      BY <1>2, <2>1, <2>3
    <2>5. w[i + 1] = t[i + 1] /\ Len(w) = n + 6
      BY <1>3, <2>4 DEF Bears, n
    <2>6. i < Len(w) /\ ClassOf(w[i + 1]) \notin {"space", "slash", "equals"}
      BY <2>1, <2>4, <2>5
    <2>7. i < p
      BY <1>2, <2>3
    <2> QED BY <2>6, <2>7 DEF Longer
  <1>6. ASSUME NEW i \in (p + 7) .. (n + 6) PROVE w[i] \in {Space, Slash}
    <2>1. i - 6 \in (p + 1) .. n /\ (i - 6) + 6 = i
      BY <1>2
    <2>2. \A k \in (p + 1) .. n : w[k + 6] = t[k]
      BY <1>3 DEF Bears, n
    <2>3. w[(i - 6) + 6] = t[i - 6]
      BY <2>1, <2>2
    <2> QED BY <1>4, <2>1, <2>3
  <1>7. Len(w) = n + 6 /\ DOMAIN w = 1 .. (n + 6)
    <2>1. Len(w) = n + 6
      BY <1>3 DEF Bears, n
    <2>2. DOMAIN w = 1 .. Len(w)
      BY <1>3
    <2> QED BY <2>1, <2>2
  <1> QED BY <1>2, <1>3, <1>5, <1>6, <1>7 DEF Borne, n

LEMMA StampedIsBorne ==
    ASSUME NEW V, TagWords \subseteq V, NEW t \in Seq(V), Bare(t), NEW aid \in V, NEW c
    PROVE  \E p, end : /\ BorneAs(StampedOpenTag(t, aid, c), t, p, end, aid, c)
                       /\ Place(t, p, end)
  <1> DEFINE w == StampedOpenTag(t, aid, c)
  <1>1. PICK p, end : Place(t, p, end) /\ w = Insert(t, p, AIDText(aid))
                     /\ (end = Len(t) <=> ~(c /\ SelfCloses(t)))
    BY StampingPlace
  <1> HIDE DEF w
  <1>2. Room(t, p, end)
    BY <1>1 DEF Place
  <1>3. Borne(w, t, p, end, aid)
    BY <1>1, <1>2, InsertedIsBorne
  <1>4. BorneAs(w, t, p, end, aid, c)
    BY <1>1, <1>3 DEF BorneAs
  <1> QED BY <1>1, <1>4 DEF w

\* The identity of a replacement's root stands behind the spaces.
LEMMA InjectedIsBorne ==
    ASSUME NEW V, TagWords \subseteq V, NEW t \in Seq(V), Bare(t), NEW aid \in V
    PROVE  \E p, end : /\ Borne(InjectRootAID(t, aid), t, end, end, aid)
                       /\ Place(t, p, end)
                       /\ end = Len(t) <=> ~SelfCloses(t)
  <1> DEFINE w == InjectRootAID(t, aid)
             last == IF SelfCloses(t) THEN Len(t) - 1 ELSE Len(t)
  <1>1. PICK p, end : Place(t, p, end) /\ (end = Len(t) <=> ~SelfCloses(t))
    BY StampingPlace
  <1>2. Room(t, end, end) /\ end = last
    BY <1>1 DEF Place, Room
  <1>3. w = Insert(t, last, AIDText(aid))
    BY DEF InjectRootAID
  <1> HIDE DEF w, last
  <1>4. Borne(w, t, end, end, aid)
    BY <1>2, <1>3, InsertedIsBorne
  <1> QED BY <1>1, <1>4 DEF w

\* The name of the identity is a name of its own there only.
LEMMA OneIsBorne ==
    ASSUME NEW w, NEW t, NEW p, NEW end, NEW aid, IsAID(aid), Borne(w, t, p, end, aid),
           NEW i \in DOMAIN w, w[i] = AIDName, ~Longer(w, i)
    PROVE  i = p + 2
  <1> DEFINE n == Len(t)
  <1>1. n \in Nat /\ i \in 1 .. (n + 6) /\ p \in 0 .. n
    BY DEF Borne, Room
  <1>2. /\ \A k \in 1 .. p : w[k] = t[k]
        /\ w[p + 1] = Space /\ w[p + 3] = Equals
        /\ w[p + 4] = DQuote /\ w[p + 5] = aid /\ w[p + 6] = DQuote
    BY DEF Borne, Bears
  <1>3. i \in 1 .. p \/ i \in {p + 1, p + 2, p + 3, p + 4, p + 5, p + 6} \/ i \in (p + 7) .. (n + 6)
    BY <1>1
  <1>4. i \notin 1 .. p
    BY <1>2 DEF Borne
  <1>5. i \notin (p + 7) .. (n + 6)
    BY WordsDiffer DEF Borne
  <1>6. i \notin {p + 1, p + 3, p + 4, p + 5, p + 6}
    BY <1>2, WordsDiffer DEF IsAID
  <1> QED BY <1>3, <1>4, <1>5, <1>6

\* ElementByAID's pattern finds in a stamped tag the identity that was written, and no
\* other (stampedOpenTag, ElementByAID).
THEOREM StampedIsFound ==
    ASSUME NEW V, TagWords \subseteq V, NEW t \in Seq(V), Bare(t),
           NEW aid \in V, IsAID(aid), NEW c
    PROVE  AidValues(StampedOpenTag(t, aid, c)) = {<<aid>>}
  <1> DEFINE w == StampedOpenTag(t, aid, c)
             n == Len(t)
  <1>0. PICK p, end : BorneAs(w, t, p, end, aid, c)
    BY StampedIsBorne
  <1>1. Borne(w, t, p, end, aid)
    BY <1>0 DEF BorneAs
  <1>9. w \in Seq(V)
    <2>1. Stamper(t)
      BY DEF Bare, Stamper
    <2> QED BY <2>1, StampedTagIsFine
  <1> HIDE DEF w
  <1>2. n \in Nat /\ Len(w) = n + 6 /\ p \in 0 .. n
    BY <1>1 DEF Borne, Room
  <1>3. /\ w[p + 2] = AIDName /\ w[p + 3] = Equals
        /\ w[p + 4] = DQuote /\ w[p + 5] = aid /\ w[p + 6] = DQuote
    BY <1>1 DEF Borne, Bears
  <1> HIDE DEF n
  <1>4. AidMatch(w, p + 2, p + 6)
    <2>1. (p + 2) + 3 <= p + 6 /\ (p + 2) + 1 = p + 3 /\ (p + 2) + 2 = p + 4
          /\ \A k \in ((p + 2) + 3) .. ((p + 6) - 1) : k = p + 5
      BY <1>2
    <2>2. aid # DQuote
      BY WordsDiffer DEF IsAID
    <2> QED BY <1>3, <2>1, <2>2 DEF AidMatch
  <1>5. ASSUME NEW i \in 1 .. Len(w), NEW j \in 1 .. Len(w), AidMatch(w, i, j)
        PROVE  i = p + 2 /\ j = p + 6
    <2>1. i + 3 <= j /\ w[i] = AIDName /\ w[i + 1] = Equals /\ w[j] = DQuote
          /\ \A k \in (i + 3) .. (j - 1) : w[k] # DQuote
      BY <1>5 DEF AidMatch
    <2>2. ~Longer(w, i)
      BY <2>1, WordsDiffer DEF Longer
    <2>3. i \in DOMAIN w
      BY <1>9
    <2>4. i = p + 2
      BY <1>1, <2>1, <2>2, <2>3, OneIsBorne
    <2>5. j >= p + 5 /\ j \in Nat
      BY <1>2, <2>1, <2>4
    <2>6. j # p + 5
      BY <1>3, <2>1, WordsDiffer DEF IsAID
    <2>7. ~(j > p + 6)
      <3> SUFFICES ASSUME j > p + 6 PROVE FALSE
        OBVIOUS
      <3>1. p + 6 \in (i + 3) .. (j - 1)
        BY <1>2, <2>4, <2>5
      <3> QED BY <1>3, <2>1, <3>1
    <2> QED BY <1>2, <2>4, <2>5, <2>6, <2>7
  <1> DEFINE found == {v \in (1 .. Len(w)) \X (1 .. Len(w)) : AidMatch(w, v[1], v[2])}
             z == <<p + 2, p + 6>>
  <1>6. found = {z}
    <2>1. p + 2 \in 1 .. Len(w) /\ p + 6 \in 1 .. Len(w)
      BY <1>2
    <2>2. z \in found
      BY <1>4, <2>1
    <2>3. ASSUME NEW v \in found PROVE v = z
      <3>1. v[1] \in 1 .. Len(w) /\ v[2] \in 1 .. Len(w) /\ AidMatch(w, v[1], v[2]) /\ v = <<v[1], v[2]>>
        OBVIOUS
      <3> QED BY <1>5, <3>1
    <2> HIDE DEF found, z
    <2> QED BY <2>2, <2>3
  <1>7. AidValues(w) = {SubSeq(w, v[1] + 3, v[2] - 1) : v \in {v \in found : \A u \in found : v[1] <= u[1]}}
    BY DEF AidValues
  <1> HIDE DEF found
  <1>8. AidValues(w) = {SubSeq(w, (p + 2) + 3, (p + 6) - 1)}
    <2>1. {v \in found : \A u \in found : v[1] <= u[1]} = {z}
      BY <1>2, <1>6
    <2>2. z[1] = p + 2 /\ z[2] = p + 6
      OBVIOUS
    <2> HIDE DEF z
    <2>3. {SubSeq(w, v[1] + 3, v[2] - 1) : v \in {z}} = {SubSeq(w, z[1] + 3, z[2] - 1)}
      OBVIOUS
    <2> QED BY <1>7, <2>1, <2>2, <2>3
  <1>10. SubSeq(w, (p + 2) + 3, (p + 6) - 1) = <<aid>>
    <2> DEFINE i == p + 5
    <2>1. (p + 2) + 3 = i /\ (p + 6) - 1 = i /\ i \in 1 .. (Len(w) + 1) /\ i \in (i - 1) .. Len(w)
          /\ i - i + 1 = 1 /\ 1 \in 1 .. (i - i + 1) /\ i + 1 - 1 = i
      BY <1>2
    <2>2. w[i] = aid
      BY <1>3
    <2> HIDE DEF i
    <2> DEFINE q == SubSeq(w, i, i)
    <2>3. q \in Seq(V) /\ Len(q) = 1 /\ q[1] = aid
      BY <1>9, <2>1, <2>2, Slices
    <2> HIDE DEF q
    <2>4. q = <<aid>>
      BY <2>3
    <2> QED BY <2>1, <2>4 DEF q
  <1> QED BY <1>8, <1>10 DEF w

\* The states in which a character is part of a value, spaces and slashes as well.
Quoted == {"beforeValue", "double", "single"}

LEMMA WalkerRows ==
    \A c \in Columns :
        /\ Skipping["sep"][c] = IF c \in {"space", "slash", "equals"} THEN "sep" ELSE "name"
        /\ \A s \in {"name", "afterName"} :
              Skipping[s][c] = IF c = "space" THEN "afterName" ELSE IF c = "slash" THEN "sep"
                               ELSE IF c = "equals" THEN "beforeValue" ELSE "name"
        /\ Skipping["beforeValue"][c] = IF c = "space" THEN "beforeValue"
                                        ELSE IF c = "dquote" THEN "double"
                                        ELSE IF c = "squote" THEN "single" ELSE "unquoted"
        /\ Skipping["double"][c] = IF c = "dquote" THEN "sep" ELSE "double"
        /\ Skipping["single"][c] = IF c = "squote" THEN "sep" ELSE "single"
        /\ Skipping["unquoted"][c] = IF c = "space" THEN "sep" ELSE "unquoted"
  BY WalkRows, TokenizerRows DEF Skipping

LEMMA WalkerStep ==
    ASSUME NEW st, NEW t, Len(t) \in Nat, Walks(st, t), NEW k \in 1 .. Len(t)
    PROVE  st[k] = Skipping[st[k - 1]][ClassOf(t[k])] /\ st[k - 1] \in WalkStates
  <1>1. k - 1 \in 0 .. Len(t)
    OBVIOUS
  <1> QED BY <1>1 DEF Walks, Passes

\* A tag that ends, and not where a value is expected, ends outside a value for the
\* walker, and so does what stands before a slash that closes it.
LEMMA EndsOutside ==
    ASSUME NEW V, NEW t \in Seq(V), IsTagText(t), NamesBeginWithNoEquals(t),
           Terminated(t), EndsOutsideValue(t)
    PROVE  LET b == States(Skipping, "sep", t) IN
           /\ b[Len(t)] \notin Quoted
           /\ SelfCloses(t) => b[Len(t) - 1] \notin ValueStates
  <1> DEFINE n == Len(t)
             a == Tokenized(t)
             b == States(Skipping, "sep", t)
  <1>0. n \in Nat
    OBVIOUS
  <1>1. Passes(a, Tokenizer, "tagName", t, n) /\ NoLoneEquals(a, t, n)
    BY <1>0, TokenizerPasses
  <1>2. Passes(b, Skipping, "sep", t, n)
    BY StripperWalks DEF Walks
  <1>3. n > 0 => t[1] \in {Space, Slash}
    BY DEF IsTagText
  <1>4. Coupled(Walking, Skipping, "sep")
    BY WalkersCoupled DEF Skipping
  <1>5. a[n] \notin Quoted /\ TokenizerEnd(t) = a[n]
    BY DEF Terminated, EndsOutsideValue, TokenizerEnd, Quoted
  <1>6. SelfCloses(t) => n \in Nat \ {0} /\ t[n] = Slash /\ a[n] = "selfClosing"
    BY <1>5, SlashReadAlike, SelfClosingEnds
  <1> HIDE DEF a, b, n
  <1>7. \A k \in 0 .. n : <<a[k], b[k]>> \in Walking
    BY <1>0, <1>1, <1>2, <1>3, <1>4, InStep
  <1>8. \A k \in 0 .. n : b[k] \in ValueStates => a[k] = b[k]
    BY <1>7 DEF Walking, ValueStates
  <1>9. n \in 0 .. n
    BY <1>0
  <1>10. ASSUME SelfCloses(t) PROVE b[n - 1] \notin ValueStates
    <2>1. n \in 1 .. n /\ n - 1 \in 0 .. n
      BY <1>0, <1>6, <1>10
    <2>2. a[n] = Tokenizer[a[n - 1]][ClassOf(t[n])] /\ ClassOf(t[n]) \in Columns
      BY <1>1, <2>1, ColumnOfCharacter DEF Passes
    <2>3. ClassOf(t[n]) = "slash"
      BY <1>6, <1>10, ColumnOfCharacter
    <2>4. a[n - 1] \notin ValueStates
      BY <1>6, <1>10, <2>2, <2>3, TokenizerRows DEF ValueStates
    <2> QED BY <1>8, <2>1, <2>4
  <1>11. b[n] \notin Quoted
    BY <1>5, <1>8, <1>9 DEF Quoted, ValueStates
  <1> QED BY <1>10, <1>11 DEF b, n

\* Behind the place of an identity there are only spaces, so it is outside a value.
LEMMA PlaceIsOutside ==
    ASSUME NEW V, NEW t \in Seq(V), IsTagText(t), NamesBeginWithNoEquals(t),
           Terminated(t), EndsOutsideValue(t), NEW p, NEW end, Room(t, p, end)
    PROVE  States(Skipping, "sep", t)[p] \notin Quoted
  <1> DEFINE b == States(Skipping, "sep", t)
             n == Len(t)
             T == {k \in Nat : b[p + k] \in Quoted}
  <1>1. n \in Nat /\ end \in 0 .. n /\ p \in 0 .. end
    BY DEF Room
  <1>2. b[end] \notin Quoted
    <2>1. end = n \/ (end = n - 1 /\ SelfCloses(t))
      BY <1>1 DEF Room
    <2> QED BY <2>1, EndsOutside DEF Quoted, ValueStates
  <1>3. Walks(b, t)
    BY StripperWalks
  <1> HIDE DEF b
  <1> SUFFICES ASSUME b[p] \in Quoted PROVE FALSE
    BY DEF b
  <1>4. 0 \in T
    BY <1>1
  <1>5. ASSUME NEW k \in 0 .. ((end - p) - 1), k \in T PROVE k + 1 \in T
    <2>1. p + (k + 1) \in 1 .. n /\ p + (k + 1) \in (p + 1) .. end /\ (p + (k + 1)) - 1 = p + k
      BY <1>1
    <2>2. t[p + (k + 1)] = Space
      BY <2>1 DEF Room
    <2>3. b[p + (k + 1)] = Skipping[b[p + k]]["space"]
      BY <1>1, <1>3, <2>1, <2>2, WalkerStep, WordsDiffer
    <2>4. b[p + k] \in Quoted
      BY <1>5
    <2>5. b[p + (k + 1)] \in Quoted
      BY <2>3, <2>4, WalkerRows DEF Quoted, Columns
    <2> QED BY <2>5
  <1>6. end - p \in Nat /\ end - p \in 0 .. (end - p)
    BY <1>1
  <1>7. end - p \in T
    <2> HIDE DEF T
    <2> QED BY <1>4, <1>5, <1>6, InductUpTo
  <1>8. p + (end - p) = end
    BY <1>1
  <1> QED BY <1>2, <1>7, <1>8

\* Two texts that begin alike are walked alike as far as that.
LEMMA WalkedAlike ==
    ASSUME NEW st, NEW w, NEW b, NEW t, Len(w) \in Nat, Len(t) \in Nat, Walks(st, w), Walks(b, t),
           NEW p \in Nat, p <= Len(w), p <= Len(t), \A k \in 1 .. p : w[k] = t[k]
    PROVE  st[p] = b[p]
  <1> DEFINE T == {k \in Nat : st[k] = b[k]}
  <1>1. 0 \in T
    BY DEF Walks, Passes
  <1>2. ASSUME NEW k \in 0 .. (p - 1), k \in T PROVE k + 1 \in T
    <2>1. k + 1 \in 1 .. p /\ k + 1 \in 1 .. Len(w) /\ k + 1 \in 1 .. Len(t) /\ (k + 1) - 1 = k
          /\ k + 1 \in Nat
      OBVIOUS
    <2>2. st[k + 1] = Skipping[st[k]][ClassOf(w[k + 1])]
      BY <2>1, WalkerStep
    <2>3. b[k + 1] = Skipping[b[k]][ClassOf(t[k + 1])]
      BY <2>1, WalkerStep
    <2> QED BY <1>2, <2>1, <2>2, <2>3
  <1>3. p \in 0 .. p
    OBVIOUS
  <1>4. p \in T
    <2> HIDE DEF T
    <2> QED BY <1>1, <1>2, <1>3, InductUpTo
  <1> QED BY <1>4

\* The walker goes through the identity and is between attributes behind it.
LEMMA BorneIsWalked ==
    ASSUME NEW V, NEW w \in Seq(V), NEW t \in Seq(V), NEW p, NEW end, NEW aid, IsAID(aid),
           Borne(w, t, p, end, aid), States(Skipping, "sep", t)[p] \notin Quoted,
           NEW st, st = States(Skipping, "sep", w), NEW b, b = States(Skipping, "sep", t)
    PROVE  /\ \A k \in 0 .. p : st[k] = b[k]
           /\ st[p + 1] \in {"sep", "afterName"} /\ st[p + 2] = "name" /\ st[p + 3] = "beforeValue"
           /\ st[p + 4] = "double" /\ st[p + 5] = "double" /\ st[p + 6] = "sep"
           /\ \A k \in (p + 7) .. Len(w) : st[k] = "sep"
  <1> DEFINE n == Len(t)
  <1>1. n \in Nat /\ Len(w) = n + 6 /\ DOMAIN w = 1 .. (n + 6) /\ p \in 0 .. n
    BY DEF Borne, Room
  <1>2. /\ \A k \in 1 .. p : w[k] = t[k]
        /\ w[p + 1] = Space /\ w[p + 2] = AIDName /\ w[p + 3] = Equals
        /\ w[p + 4] = DQuote /\ w[p + 5] = aid /\ w[p + 6] = DQuote
    BY DEF Borne, Bears
  <1>3. Walks(st, w) /\ Walks(b, t)
    BY StripperWalks
  <1>4. b[p] \notin Quoted
    OBVIOUS
  <1> HIDE DEF n
  <1>5. \A k \in 0 .. p : st[k] = b[k]
    <2> TAKE k \in 0 .. p
    <2>1. k \in Nat /\ k <= Len(w) /\ k <= Len(t) /\ Len(w) \in Nat /\ Len(t) \in Nat
          /\ \A j \in 1 .. k : j \in 1 .. p
      BY <1>1 DEF n
    <2>2. \A j \in 1 .. k : w[j] = t[j]
      BY <1>2, <2>1
    <2> QED BY <1>3, <2>1, <2>2, WalkedAlike
  <1>6. st[p] = b[p] /\ st[p] \in WalkStates
    <2>1. p \in 0 .. p /\ p \in 0 .. Len(w)
      BY <1>1
    <2> QED BY <1>3, <1>5, <2>1 DEF Walks
  <1>7. Len(w) \in Nat
    BY <1>1
  <1>8. \A j \in 1 .. 6 : st[p + j] = Skipping[st[p + (j - 1)]][ClassOf(w[p + j])]
    <2> TAKE j \in 1 .. 6
    <2> DEFINE k == p + j
    <2>1. k \in 1 .. Len(w) /\ k - 1 = p + (j - 1)
      BY <1>1
    <2> HIDE DEF k
    <2>2. st[k] = Skipping[st[k - 1]][ClassOf(w[k])]
      BY <1>3, <1>7, <2>1, WalkerStep
    <2> QED BY <2>1, <2>2 DEF k
  <1>9. p + (1 - 1) = p /\ p + (2 - 1) = p + 1 /\ p + (3 - 1) = p + 2
        /\ p + (4 - 1) = p + 3 /\ p + (5 - 1) = p + 4 /\ p + (6 - 1) = p + 5
    BY <1>1
  <1>10. ClassOf(aid) = "other"
    BY DEF IsAID
  <1>11. st[p + 1] = Skipping[st[p]]["space"] /\ st[p + 2] = Skipping[st[p + 1]]["other"]
         /\ st[p + 3] = Skipping[st[p + 2]]["equals"]
    BY <1>2, <1>8, <1>9, WordsDiffer
  <1>12. st[p + 4] = Skipping[st[p + 3]]["dquote"] /\ st[p + 5] = Skipping[st[p + 4]]["other"]
         /\ st[p + 6] = Skipping[st[p + 5]]["dquote"]
    BY <1>2, <1>8, <1>9, <1>10, WordsDiffer
  <1>13. st[p + 1] \in {"sep", "afterName"}
    <2> DEFINE q == st[p]
    <2>1. q \in {"sep", "name", "afterName", "unquoted"}
      BY <1>4, <1>6 DEF WalkStates, ValueStates, Quoted
    <2>2. st[p + 1] = Skipping[q]["space"]
      BY <1>11
    <2> HIDE DEF q
    <2>3. \A c \in {"sep", "name", "afterName", "unquoted"} :
              Skipping[c]["space"] \in {"sep", "afterName"}
      BY WalkerRows DEF Columns
    <2> QED BY <2>1, <2>2, <2>3
  <1>14. st[p + 2] = "name"
    BY <1>11, <1>13, WalkerRows DEF Columns
  <1>15. st[p + 3] = "beforeValue"
    BY <1>11, <1>14, WalkerRows DEF Columns
  <1>16. st[p + 4] = "double" /\ st[p + 5] = "double" /\ st[p + 6] = "sep"
    BY <1>12, <1>15, WalkerRows DEF Columns
  <1>17. \A k \in (p + 7) .. Len(w) : st[k] = "sep"
    <2> DEFINE T == {k \in Nat : st[p + 6 + k] = "sep"}
    <2>1. 0 \in T /\ n - p \in Nat
      BY <1>1, <1>16
    <2>2. ASSUME NEW k \in 0 .. ((n - p) - 1), k \in T PROVE k + 1 \in T
      <3> DEFINE l == p + 6 + (k + 1)
      <3>1. l \in 1 .. Len(w) /\ l - 1 = p + 6 + k /\ l \in (p + 7) .. (Len(t) + 6) /\ k + 1 \in Nat
        BY <1>1 DEF n
      <3>2. st[l - 1] = "sep"
        BY <2>2, <3>1
      <3> HIDE DEF l
      <3>3. st[l] = Skipping["sep"][ClassOf(w[l])]
        BY <1>3, <1>7, <3>1, <3>2, WalkerStep
      <3>4. w[l] \in {Space, Slash}
        BY <3>1 DEF Borne
      <3>5. st[l] = "sep"
        BY <3>3, <3>4, WalkerRows, ColumnOfCharacter DEF Columns
      <3> QED BY <3>1, <3>5 DEF l
    <2>3. \A k \in 0 .. (n - p) : k \in T
      <3> HIDE DEF T
      <3> QED BY <2>1, <2>2, InductUpTo
    <2> TAKE k \in (p + 7) .. Len(w)
    <2>4. k - (p + 6) \in 0 .. (n - p) /\ p + 6 + (k - (p + 6)) = k
      BY <1>1
    <2> QED BY <2>3, <2>4
  <1> QED BY <1>5, <1>13, <1>14, <1>15, <1>16, <1>17

\* The stamper's own reader finds the identity in its place and nothing else.
LEMMA BorneIsIdentity ==
    ASSUME NEW V, NEW w \in Seq(V), NEW t \in Seq(V), NEW p, NEW end, NEW aid, IsAID(aid),
           Borne(w, t, p, end, aid), States(Skipping, "sep", t)[p] \notin Quoted,
           NEW q \in 0 .. p, Place(t, q, end)
    PROVE  /\ Identities(w) # {}
           /\ \A a \in Identities(w) : Dropped(w, a) = (q + 1) .. (p + 6)
  <1> DEFINE n == Len(t)
             st == States(Skipping, "sep", w)
             b == States(Skipping, "sep", t)
  <1>1. n \in Nat /\ Len(w) = n + 6 /\ DOMAIN w = 1 .. (n + 6) /\ p \in 0 .. n
    BY DEF Borne, Room
  <1>2. /\ \A k \in 1 .. p : w[k] = t[k]
        /\ w[p + 1] = Space /\ w[p + 2] = AIDName /\ w[p + 3] = Equals
        /\ w[p + 4] = DQuote /\ w[p + 5] = aid /\ w[p + 6] = DQuote
    BY DEF Borne, Bears
  <1>3. Walks(st, w) /\ Walks(b, t)
    BY StripperWalks
  <1>4. b[p] \notin Quoted
    OBVIOUS
  <1>5. Identities(w) = {a \in {Attribute(w, st, i) :
             i \in {i \in DOMAIN w : w[i] = AIDName}
                     \cap NameStarts(st, Len(w), "name", {"sep", "afterName"})} : a.name = <<AIDName>>}
    BY DEF Identities, Named, AttributesAt
  <1> HIDE DEF st, b, n
  <1>7. st[p + 1] \in {"sep", "afterName"} /\ st[p + 2] = "name" /\ st[p + 3] = "beforeValue"
    BY <1>4, BorneIsWalked DEF st, b
  <1> DEFINE o == Attribute(w, st, p + 2)
  <1>8. o \in Identities(w)
    <2>1. p + 2 \in 1 .. Len(w) /\ (p + 2) - 1 = p + 1 /\ (p + 2) + 1 = p + 3
      BY <1>1
    <2>2. st[(p + 2) - 1] \in {"sep", "afterName"} /\ st[p + 2] = "name" /\ st[(p + 2) + 1] # "name"
      BY <1>7, <2>1
    <2>3. o.name = <<AIDName>>
      <3> DEFINE i == p + 2
      <3>1. i \in 1 .. Len(w) /\ st[i] = "name" /\ w[i] = AIDName /\ st[i + 1] # "name"
        BY <1>2, <2>1, <2>2
      <3>2. o = Attribute(w, st, i)
        OBVIOUS
      <3> HIDE DEF i, o
      <3>3. o.name = <<AIDName>>
        BY <1>3, <3>1, <3>2, AttributeAt
      <3> QED BY <3>3
    <2>4. p + 2 \in NameStarts(st, Len(w), "name", {"sep", "afterName"})
      BY <2>1, <2>2 DEF NameStarts
    <2>5. p + 2 \in {i \in DOMAIN w : w[i] = AIDName}
      BY <1>1, <1>2, <2>1
    <2>6. p + 2 \in {i \in DOMAIN w : w[i] = AIDName}
                     \cap NameStarts(st, Len(w), "name", {"sep", "afterName"})
      BY <2>4, <2>5
    <2>7. o \in {Attribute(w, st, i) :
                 i \in {i \in DOMAIN w : w[i] = AIDName}
                         \cap NameStarts(st, Len(w), "name", {"sep", "afterName"})}
      BY <2>6
    <2> HIDE DEF o
    <2> QED BY <1>5, <2>3, <2>7
  <1> HIDE DEF o
  <1>9. ASSUME NEW a \in Identities(w) PROVE Dropped(w, a) = (q + 1) .. (p + 6)
    <2>1. /\ a.from \in 1 .. Len(w) /\ w[a.from] = AIDName /\ ~Longer(w, a.from)
          /\ Shaped(w, a.from) => a.end = a.from + 4
      BY IdentityAt
    <2>2. a.from \in DOMAIN w
      BY <1>1, <2>1
    <2>3. a.from = p + 2
      BY <2>1, <2>2, OneIsBorne
    <2>4. Shaped(w, p + 2)
      <3>1. (p + 2) + 4 = p + 6 /\ (p + 2) + 1 = p + 3 /\ (p + 2) + 2 = p + 4 /\ (p + 2) + 3 = p + 5
            /\ (p + 2) + 5 = p + 7 /\ p + 6 <= Len(w)
        BY <1>1
      <3>2. p + 6 < Len(w) => p + 7 \in (p + 7) .. (Len(t) + 6)
        BY <1>1 DEF n
      <3>3. p + 6 < Len(w) => w[p + 7] \in {Space, Slash}
        BY <3>2 DEF Borne
      <3> QED BY <1>2, <3>1, <3>3 DEF Shaped, IsAID
    <2>5. a.end = p + 6
      BY <1>1, <2>1, <2>3, <2>4
    <2> DEFINE s == SpaceStart(w, p + 2)
    <2>6. s \in 1 .. (p + 2) /\ (\A k \in s .. ((p + 2) - 1) : w[k] = Space) /\ (s = 1 \/ w[s - 1] # Space)
      <3>1. p + 2 \in Nat \ {0}
        BY <1>1
      <3> QED BY <3>1, SpacesStart
    <2>7. Dropped(w, a) = s .. (p + 6)
      BY <2>3, <2>5 DEF Dropped
    <2> HIDE DEF s
    <2>8. (\A k \in (q + 1) .. p : t[k] = Space) /\ (q = 0 \/ t[q] # Space)
      <3>1. p <= end
        BY DEF Borne, Room
      <3> QED BY <1>1, <3>1 DEF Place, Room
    <2>9. ~(s < q + 1)
      <3> SUFFICES ASSUME s < q + 1 PROVE FALSE
        OBVIOUS
      <3>1. q \in s .. ((p + 2) - 1) /\ q \in 1 .. p /\ q # 0
        BY <1>1, <2>6
      <3>2. t[q] = Space
        BY <1>2, <2>6, <3>1
      <3> QED BY <2>8, <3>1, <3>2
    <2>10. ~(s > q + 1)
      <3> SUFFICES ASSUME s > q + 1 PROVE FALSE
        OBVIOUS
      <3>1. s # 1 /\ (s - 1 = p + 1 \/ (s - 1 \in (q + 1) .. p /\ s - 1 \in 1 .. p))
        BY <1>1, <2>6
      <3>2. w[s - 1] = Space
        BY <1>2, <2>8, <3>1
      <3> QED BY <2>6, <3>1, <3>2
    <2>11. s = q + 1
      BY <1>1, <2>6, <2>9, <2>10
    <2> QED BY <2>7, <2>11
  <1> QED BY <1>8, <1>9

\* y is t without the spaces between the characters q and p.
Squeezed(y, t, q, p) ==
    /\ Len(t) \in Nat /\ p \in 0 .. Len(t) /\ q \in 0 .. p
    /\ Len(y) = q + (Len(t) - p)
    /\ \A k \in 1 .. q : y[k] = t[k]
    /\ \A k \in 1 .. (Len(t) - p) : y[q + k] = t[p + k]

LEMMA SqueezedText ==
    ASSUME NEW V, NEW t \in Seq(V), NEW p \in 0 .. Len(t), NEW q \in 0 .. p
    PROVE  \E y \in Seq(V) : Squeezed(y, t, q, p)
  <1> DEFINE n == Len(t)
             a == SubSeq(t, 1, q)
             c == SubSeq(t, p + 1, n)
             y == a \o c
  <1>1. a \in Seq(V) /\ Len(a) = q /\ \A k \in 1 .. q : a[k] = t[k]
    <2>1. 1 \in 1 .. (Len(t) + 1) /\ q \in (1 - 1) .. Len(t) /\ q - 1 + 1 = q
          /\ \A k \in 1 .. q : 1 + k - 1 = k
      OBVIOUS
    <2>2. /\ SubSeq(t, 1, q) \in Seq(V) /\ Len(SubSeq(t, 1, q)) = q - 1 + 1
          /\ \A k \in 1 .. (q - 1 + 1) : SubSeq(t, 1, q)[k] = t[1 + k - 1]
      BY <2>1, Slices
    <2> HIDE DEF a
    <2> QED BY <2>1, <2>2 DEF a
  <1>2. c \in Seq(V) /\ Len(c) = n - p /\ \A k \in 1 .. (n - p) : c[k] = t[p + k]
    <2> DEFINE i == p + 1
    <2>1. i \in 1 .. (Len(t) + 1) /\ n \in (i - 1) .. Len(t) /\ n - i + 1 = n - p
          /\ \A k \in 1 .. (n - p) : i + k - 1 = p + k
      OBVIOUS
    <2> HIDE DEF i
    <2>2. /\ SubSeq(t, i, n) \in Seq(V) /\ Len(SubSeq(t, i, n)) = n - i + 1
          /\ \A k \in 1 .. (n - i + 1) : SubSeq(t, i, n)[k] = t[i + k - 1]
      BY <2>1, Slices
    <2>3. c = SubSeq(t, i, n)
      BY DEF i
    <2> HIDE DEF c
    <2> QED BY <2>1, <2>2, <2>3
  <1> HIDE DEF a, c
  <1>3. y \in Seq(V) /\ Joins(y, a, c)
    BY <1>1, <1>2, Joined
  <1> HIDE DEF y
  <1>4. Squeezed(y, t, q, p)
    BY <1>1, <1>2, <1>3 DEF Squeezed, Joins
  <1> QED BY <1>3, <1>4

\* A tag that bears an identity is without it the tag that it was put into, without the
\* spaces that stood before it.
LEMMA BorneIsUndone ==
    ASSUME NEW V, NEW w \in Seq(V), NEW t \in Seq(V), NEW p, NEW end, NEW aid, IsAID(aid),
           Borne(w, t, p, end, aid), States(Skipping, "sep", t)[p] \notin Quoted,
           NEW q \in 0 .. p, Place(t, q, end)
    PROVE  StripAID(w) \in Seq(V) /\ Squeezed(StripAID(w), t, q, p)
  <1> DEFINE n == Len(t)
             K == Staying(w)
  <1>3. StripAID(w) = Subsequence(w, K)
    BY DEF StripAID, Staying, Identities
  <1>4. Identities(w) # {} /\ \A a \in Identities(w) : Dropped(w, a) = (q + 1) .. (p + 6)
    BY BorneIsIdentity
  <1>5. n \in Nat /\ Len(w) = n + 6 /\ DOMAIN w = 1 .. (n + 6) /\ p \in 0 .. n
        /\ (\A k \in 1 .. p : w[k] = t[k]) /\ (\A k \in (p + 1) .. n : w[k + 6] = t[k])
    BY DEF Borne, Bears, Room
  <1>6. K = (1 .. (n + 6)) \ ((q + 1) .. (p + 6))
    BY <1>4, <1>5 DEF Staying
  <1>a. PICK y \in Seq(V) : Squeezed(y, t, q, p)
    BY <1>5, SqueezedText
  <1> HIDE DEF K, n
  <1> DEFINE m == q + (n - p)
             by == [k \in 1 .. m |-> IF k <= q THEN k ELSE (k - q) + (p + 6)]
  <1>b. /\ m \in Nat /\ Len(y) = m /\ \A k \in 1 .. q : y[k] = t[k]
        /\ \A k \in 1 .. (n - p) : y[q + k] = t[p + k]
    BY <1>a, <1>5 DEF Squeezed, n
  <1>7. Picks(by, w, K, y)
    <2>1. by \in [1 .. m -> K]
      BY <1>5, <1>6
    <2>2. \A k \in 1 .. m : y[k] = w[by[k]]
      <3> TAKE k \in 1 .. m
      <3>1. CASE k <= q
        <4>1. k \in 1 .. q /\ k \in 1 .. p /\ by[k] = k
          BY <1>5, <3>1
        <4> QED BY <1>5, <1>b, <4>1
      <3>2. CASE ~(k <= q)
        <4>1. k - q \in 1 .. (n - p) /\ q + (k - q) = k /\ p + (k - q) \in (p + 1) .. n
              /\ by[k] = (p + (k - q)) + 6
          BY <1>5, <3>2
        <4>2. y[q + (k - q)] = t[p + (k - q)]
          BY <1>b, <4>1
        <4>3. w[(p + (k - q)) + 6] = t[p + (k - q)]
          BY <1>5, <4>1
        <4> QED BY <4>1, <4>2, <4>3
      <3> QED BY <3>1, <3>2
    <2>3. \A j, k \in 1 .. m : j < k => by[j] < by[k]
      BY <1>5
    <2>4. ASSUME NEW i \in K PROVE \E k \in 1 .. m : by[k] = i
      <3>1. CASE i <= q
        <4>1. i \in 1 .. m /\ by[i] = i
          BY <1>5, <1>6, <3>1
        <4> QED BY <4>1
      <3>2. CASE ~(i <= q)
        <4> DEFINE k == (i - (p + 6)) + q
        <4>1. k \in 1 .. m /\ by[k] = i
          BY <1>5, <1>6, <3>2
        <4> HIDE DEF k
        <4> QED BY <4>1
      <3> QED BY <3>1, <3>2
    <2> HIDE DEF by, m
    <2> QED BY <1>b, <2>1, <2>2, <2>3, <2>4 DEF Picks
  <1> HIDE DEF by, m
  <1>8. Subsequence(w, K) \in Seq(V) /\ \E at : Picks(at, w, K \cap (1 .. Len(w)), Subsequence(w, K))
    BY SubsequencePicks
  <1>9. K \cap (1 .. Len(w)) = K /\ K \in SUBSET Nat
    BY <1>5, <1>6
  <1>10. Subsequence(w, K) = y
    <2> DEFINE r == Subsequence(w, K)
    <2> HIDE DEF r
    <2>1. r \in Seq(V) /\ y \in Seq(V)
      BY <1>8 DEF r
    <2>2. PICK at : Picks(at, w, K, r)
      BY <1>8, <1>9 DEF r
    <2>3. r = y
      BY <1>7, <1>9, <2>1, <2>2, PickedIsUnique
    <2> QED BY <2>3 DEF r
  <1> QED BY <1>3, <1>a, <1>10

\* A stamped tag without its identity is the tag that was stamped, byte for byte:
\* stripAIDAttribute undoes stampedOpenTag in every tag that ends, not where a value is
\* expected, and whose names do not begin with `=`.
THEOREM StampIsUndone ==
    ASSUME NEW V, TagWords \subseteq V, NEW t \in Seq(V), Bare(t),
           NamesBeginWithNoEquals(t), Terminated(t), EndsOutsideValue(t),
           NEW aid \in V, IsAID(aid), NEW c
    PROVE  StripAID(StampedOpenTag(t, aid, c)) = t
  <1> DEFINE w == StampedOpenTag(t, aid, c)
             y == StripAID(w)
  <1>0. PICK p, end : BorneAs(w, t, p, end, aid, c) /\ Place(t, p, end)
    BY StampedIsBorne
  <1>1. Borne(w, t, p, end, aid)
    BY <1>0 DEF BorneAs
  <1>2. w \in Seq(V)
    <2>1. Stamper(t)
      BY DEF Bare, Stamper
    <2> QED BY <2>1, StampedTagIsFine
  <1> HIDE DEF w
  <1>3. IsTagText(t) /\ Room(t, p, end) /\ p \in 0 .. p
    BY <1>1 DEF Bare, Borne, Room
  <1>4. States(Skipping, "sep", t)[p] \notin Quoted
    BY <1>3, PlaceIsOutside
  <1>5. y \in Seq(V) /\ Squeezed(y, t, p, p)
    BY <1>0, <1>1, <1>2, <1>3, <1>4, BorneIsUndone
  <1> HIDE DEF y
  <1>6. /\ Len(t) \in Nat /\ p \in 0 .. Len(t) /\ Len(y) = p + (Len(t) - p)
        /\ \A k \in 1 .. p : y[k] = t[k]
        /\ \A k \in 1 .. (Len(t) - p) : y[p + k] = t[p + k]
    BY <1>5 DEF Squeezed
  <1>7. Len(y) = Len(t)
    BY <1>6
  <1>8. ASSUME NEW k \in 1 .. Len(t) PROVE y[k] = t[k]
    <2>1. k \in 1 .. p \/ (k - p \in 1 .. (Len(t) - p) /\ p + (k - p) = k)
      BY <1>6
    <2>2. k - p \in 1 .. (Len(t) - p) => y[p + (k - p)] = t[p + (k - p)]
      BY <1>6
    <2> QED BY <1>6, <2>1, <2>2
  <1>9. y = t
    BY <1>5, <1>7, <1>8
  <1> QED BY <1>9 DEF w, y

-------------------------------------------------------------------------------
(* A stamped tag is read like the bare one, the identity apart.              *)

\* What the readers of the code agree about (what IsDocument asks of a tag without
\* identities).
Sound(t) ==
    IsTagText(t) /\ NamesBeginWithNoEquals(t) /\ Terminated(t) /\ EndsOutsideValue(t)

\* Where no name begins with `=` the walkers go through the same states.
LEMMA WalkersAreOne ==
    ASSUME NEW V, NEW t \in Seq(V), IsTagText(t), NamesBeginWithNoEquals(t)
    PROVE  States(Nameless, "sep", t) = States(Skipping, "sep", t)
  <1> DEFINE n == Len(t)
             a == Tokenized(t)
             b == States(Skipping, "sep", t)
             d == States(Nameless, "sep", t)
  <1>0. n \in Nat
    OBVIOUS
  <1>1. Passes(a, Tokenizer, "tagName", t, n) /\ NoLoneEquals(a, t, n)
    BY <1>0, TokenizerPasses
  <1>2. Passes(b, Skipping, "sep", t, n)
    BY StripperWalks DEF Walks
  <1>3. Passes(d, Nameless, "sep", t, n)
    <2>1. "sep" \in WalkStates /\ IsTable(WalkTable("beforeValue"), WalkStates)
      BY Tables DEF WalkStates
    <2> QED BY <1>0, <2>1, StatesPass DEF Nameless
  <1>4. n > 0 => t[1] \in {Space, Slash}
    BY DEF IsTagText
  <1>5. Coupled(Walking, Skipping, "sep") /\ Coupled(Walking, Nameless, "sep")
    BY WalkersCoupled DEF Skipping, Nameless
  <1>6. b = [k \in 0 .. n |-> b[k]] /\ d = [k \in 0 .. n |-> d[k]]
    BY DEF States
  <1> HIDE DEF a, b, d, n
  <1>7. \A k \in 0 .. n : <<a[k], b[k]>> \in Walking
    BY <1>0, <1>1, <1>2, <1>4, <1>5, InStep
  <1>8. \A k \in 0 .. n : <<a[k], d[k]>> \in Walking
    BY <1>0, <1>1, <1>3, <1>4, <1>5, InStep
  <1>9. \A k \in 0 .. n : b[k] = d[k]
    <2>1. \A x, y, z : <<x, y>> \in Walking /\ <<x, z>> \in Walking => y = z
      BY DEF Walking, ValueStates
    <2> QED BY <1>7, <1>8, <2>1
  <1>10. b = d
    BY <1>6, <1>9
  <1> QED BY <1>10 DEF b, d

\* Two walks that go alike as far as p, and whose runs of states in S end there at the
\* latest.
RunsMeet(st, b, m, n, p, S) ==
    /\ m \in Nat /\ n \in Nat /\ p \in Nat /\ p <= m /\ p <= n
    /\ \A k \in 1 .. p : st[k] = b[k]
    /\ p = m \/ st[p + 1] \notin S
    /\ p = n \/ b[p + 1] \notin S

LEMMA RunsAlike ==
    ASSUME NEW st, NEW b, NEW m, NEW n, NEW p, NEW S, RunsMeet(st, b, m, n, p, S),
           NEW i \in 1 .. (p + 1)
    PROVE  RunEnd(st, i, m, S) = RunEnd(b, i, n, S) /\ RunEnd(b, i, n, S) \in (i - 1) .. p
  <1> USE DEF RunsMeet
  <1> DEFINE e == RunEnd(b, i, n, S)
  <1>1. /\ e \in (i - 1) .. n
        /\ \A k \in i .. e : b[k] \in S
        /\ e = n \/ b[e + 1] \notin S
    <2>1. i \in 1 .. (n + 1)
      OBVIOUS
    <2> QED BY <2>1, RunEnds
  <1> HIDE DEF e
  <1>2. ~(e > p)
    <2> SUFFICES ASSUME e > p PROVE FALSE
      OBVIOUS
    <2>1. p + 1 \in i .. e /\ p # n
      BY <1>1
    <2> QED BY <1>1, <2>1
  <1>3. e \in (i - 1) .. p /\ e \in (i - 1) .. m
    BY <1>1, <1>2
  <1>4. \A k \in i .. e : st[k] \in S
    BY <1>1, <1>3
  <1>5. e = m \/ st[e + 1] \notin S
    <2>1. CASE e = p
      BY <2>1
    <2>2. CASE e # p
      <3>1. e + 1 \in 1 .. p /\ e # n
        BY <1>3, <2>2
      <3> QED BY <1>1, <3>1
    <2> QED BY <2>1, <2>2
  <1>6. RunEnd(st, i, m, S) = e
    <2>1. i \in 1 .. (m + 1)
      OBVIOUS
    <2> DEFINE r == RunEnd(st, i, m, S)
    <2>2. r \in (i - 1) .. m /\ (\A k \in i .. r : st[k] \in S) /\ (r = m \/ st[r + 1] \notin S)
      BY <2>1, RunEnds
    <2> HIDE DEF r
    <2>3. ~(r < e)
      <3> SUFFICES ASSUME r < e PROVE FALSE
        OBVIOUS
      <3>1. r + 1 \in i .. e /\ r # m
        BY <1>3, <2>2
      <3> QED BY <1>4, <2>2, <3>1
    <2>4. ~(e < r)
      <3> SUFFICES ASSUME e < r PROVE FALSE
        OBVIOUS
      <3>1. e + 1 \in i .. r /\ e # m
        BY <1>3, <2>2
      <3> QED BY <1>5, <2>2, <3>1
    <2> QED BY <1>3, <2>2, <2>3, <2>4 DEF r
  <1> QED BY <1>3, <1>6 DEF e

SameStart(w, t, p) == p \in Nat /\ p <= Len(w) /\ p <= Len(t) /\ \A k \in 1 .. p : w[k] = t[k]

LEMMA SlicesAlike ==
    ASSUME NEW V, NEW w \in Seq(V), NEW t \in Seq(V), NEW p, SameStart(w, t, p),
           NEW i \in 1 .. (p + 1), NEW j \in (i - 1) .. p
    PROVE  SubSeq(w, i, j) = SubSeq(t, i, j)
  <1> USE DEF SameStart
  <1> DEFINE x == SubSeq(w, i, j)
             y == SubSeq(t, i, j)
             l == j - i + 1
  <1>1. x \in Seq(V) /\ Len(x) = l /\ \A k \in 1 .. l : x[k] = w[i + k - 1]
    <2>1. i \in 1 .. (Len(w) + 1) /\ j \in (i - 1) .. Len(w)
      OBVIOUS
    <2> QED BY <2>1, Slices
  <1>2. y \in Seq(V) /\ Len(y) = l /\ \A k \in 1 .. l : y[k] = t[i + k - 1]
    <2>1. i \in 1 .. (Len(t) + 1) /\ j \in (i - 1) .. Len(t)
      OBVIOUS
    <2> QED BY <2>1, Slices
  <1>3. \A k \in 1 .. l : i + k - 1 \in 1 .. p
    OBVIOUS
  <1> HIDE DEF x, y
  <1>4. \A k \in 1 .. l : x[k] = y[k]
    BY <1>1, <1>2, <1>3
  <1> HIDE DEF l
  <1>5. x = y
    BY <1>1, <1>2, <1>4
  <1> QED BY <1>5 DEF x, y

\* Behind the place of an identity the walker stays between attributes; before it, no
\* run of spaces behind a name reaches it.
LEMMA BehindPlace ==
    ASSUME NEW V, NEW t \in Seq(V), Sound(t), NEW p, NEW end, Place(t, p, end),
           NEW b, b = States(Skipping, "sep", t)
    PROVE  /\ b[p] \notin Quoted
           /\ p > 0 => b[p] # "afterName"
           /\ \A k \in (p + 1) .. Len(t) : b[k] \in {"sep", "afterName"}
  <1> DEFINE n == Len(t)
  <1>1. n \in Nat /\ end \in 0 .. n /\ p \in 0 .. end /\ (p = 0 \/ t[p] # Space)
    BY DEF Place, Room
  <1>2. Walks(b, t)
    BY StripperWalks
  <1>3. b[p] \notin Quoted
    BY PlaceIsOutside DEF Sound, Place
  <1>4. ASSUME end # n PROVE end + 1 = n /\ t[n] = Slash /\ b[end] \notin ValueStates
    <2>1. end + 1 = n /\ SelfCloses(t) /\ t[n] = Slash /\ n - 1 = end
      BY <1>1, <1>4 DEF Place, Room
    <2>2. b[n - 1] \notin ValueStates
      BY <2>1, EndsOutside DEF Sound
    <2> QED BY <2>1, <2>2
  <1>5. \A k \in (p + 1) .. end : t[k] = Space
    BY DEF Place, Room
  <1>6. \A k \in 1 .. n : b[k] = Skipping[b[k - 1]][ClassOf(t[k])] /\ b[k - 1] \in WalkStates
    BY <1>1, <1>2, WalkerStep
  <1> HIDE DEF n
  <1>7. p > 0 => b[p] # "afterName"
    <2> SUFFICES ASSUME p > 0 PROVE b[p] # "afterName"
      OBVIOUS
    <2>1. p \in 1 .. n /\ t[p] # Space
      BY <1>1
    <2>2. b[p] = Skipping[b[p - 1]][ClassOf(t[p])] /\ b[p - 1] \in WalkStates
      BY <1>6, <2>1
    <2>3. ClassOf(t[p]) \in Columns /\ ClassOf(t[p]) # "space"
      BY <2>1, ColumnOfCharacter
    <2> QED BY <2>2, <2>3, WalkerRows DEF WalkStates, ValueStates
  <1> DEFINE T == {k \in Nat : k > 0 => b[p + k] \in {"sep", "afterName"}}
  <1>8. 0 \in T /\ n - p \in Nat
    BY <1>1
  <1>9. ASSUME NEW k \in 0 .. ((n - p) - 1), k \in T PROVE k + 1 \in T
    <2> DEFINE l == p + (k + 1)
    <2>1. l \in 1 .. n /\ l - 1 = p + k /\ k + 1 \in Nat /\ k \in Nat /\ l \in (p + 1) .. n
      BY <1>1
    <2> HIDE DEF l
    <2>2. b[l] = Skipping[b[l - 1]][ClassOf(t[l])] /\ b[l - 1] \in WalkStates
      BY <1>6, <2>1
    <2>3. b[l - 1] \notin Quoted
      <3>1. CASE k = 0
        BY <1>1, <1>3, <2>1, <3>1
      <3>2. CASE k # 0
        BY <1>9, <2>1, <3>2 DEF Quoted
      <3> QED BY <3>1, <3>2
    <2>4. CASE l <= end
      <3>1. t[l] = Space
        BY <1>1, <1>5, <2>1, <2>4
      <3>2. b[l] = Skipping[b[l - 1]]["space"]
        BY <2>2, <3>1, WordsDiffer
      <3>3. b[l] \in {"sep", "afterName"}
        BY <2>2, <2>3, <3>2, WalkerRows DEF WalkStates, ValueStates, Quoted, Columns
      <3> QED BY <2>1, <3>3 DEF l
    <2>5. CASE ~(l <= end)
      <3>1. end # n
        BY <1>1, <2>1, <2>5
      <3>2. l = n /\ l - 1 = end /\ t[l] = Slash /\ b[l - 1] \notin ValueStates
        BY <1>1, <1>4, <2>1, <2>5, <3>1
      <3>3. b[l] = Skipping[b[l - 1]]["slash"]
        BY <2>2, <3>2, ColumnOfCharacter
      <3>4. b[l] = "sep"
        BY <2>2, <3>2, <3>3, WalkerRows DEF WalkStates, Columns
      <3> QED BY <2>1, <3>4 DEF l
    <2> QED BY <2>4, <2>5
  <1>10. \A k \in 0 .. (n - p) : k \in T
    <2> HIDE DEF T
    <2> QED BY <1>8, <1>9, InductUpTo
  <1>11. ASSUME NEW k \in (p + 1) .. n PROVE b[k] \in {"sep", "afterName"}
    <2>1. k - p \in 0 .. (n - p) /\ k - p > 0 /\ p + (k - p) = k
      BY <1>1
    <2> QED BY <1>10, <2>1
  <1> QED BY <1>3, <1>7, <1>11 DEF n

\* No attribute whose name reaches p has a value behind it, and no other reaches over it.
Leaves(st, m, p) ==
    /\ p = m \/ st[p + 1] \in {"sep", "afterName"}
    /\ st[p] = "name" =>
          \A k \in (p + 1) .. m : (\A j \in (p + 1) .. (k - 1) : st[j] = "afterName") => st[k] \notin InValue

\* The value that follows the name that ends at p: from v to e, and from s to e without what
\* leads to it.
ValueBehind(st, m, p, v, e, s) ==
    /\ v = RunEnd(st, p + 1, m, {"afterName"}) + 1
    /\ e = RunEnd(st, v, m, InValue)
    /\ s = RunEnd(st, v, e, {"beforeValue"}) + 1

LEMMA NoValueBehind ==
    ASSUME NEW st, NEW m \in Nat, NEW p \in 0 .. m, Leaves(st, m, p), st[p] = "name",
           NEW v, NEW e, NEW s, ValueBehind(st, m, p, v, e, s)
    PROVE  v \in (p + 1) .. (m + 1) /\ e = v - 1 /\ s = v
  <1> DEFINE r == RunEnd(st, p + 1, m, {"afterName"})
             x == RunEnd(st, v, e, {"beforeValue"})
  <1>1. v = r + 1 /\ e = RunEnd(st, v, m, InValue) /\ s = x + 1
    BY DEF ValueBehind
  <1>2. r \in p .. m /\ \A k \in (p + 1) .. r : st[k] \in {"afterName"}
    <2>1. p + 1 \in 1 .. (m + 1) /\ (p + 1) - 1 = p
      OBVIOUS
    <2> QED BY <2>1, RunEnds
  <1> HIDE DEF r, x
  <1>3. v \in (p + 1) .. (m + 1) /\ v - 1 = r /\ v \in 1 .. (m + 1)
    BY <1>1, <1>2
  <1>4. e \in (v - 1) .. m /\ \A k \in v .. e : st[k] \in InValue
    BY <1>1, <1>3, RunEnds
  <1>5. ~(e >= v)
    <2> SUFFICES ASSUME e >= v PROVE FALSE
      OBVIOUS
    <2>1. v \in v .. e /\ v \in (p + 1) .. m
      BY <1>3, <1>4
    <2>2. \A j \in (p + 1) .. (v - 1) : st[j] = "afterName"
      BY <1>2, <1>3
    <2>3. st[v] \notin InValue
      BY <2>1, <2>2 DEF Leaves
    <2> QED BY <1>4, <2>1, <2>3
  <1>6. e = v - 1
    BY <1>3, <1>4, <1>5
  <1>7. x \in (v - 1) .. e
    <2>1. v \in 1 .. (e + 1) /\ e \in Nat
      BY <1>3, <1>6
    <2>2. RunEnd(st, v, e, {"beforeValue"}) \in (v - 1) .. e
      BY <2>1, RunEnds
    <2> QED BY <2>2 DEF x
  <1>8. s = v
    BY <1>1, <1>3, <1>6, <1>7
  <1> QED BY <1>3, <1>6, <1>8

\* An attribute whose name begins before p is read alike in two tags that begin alike as
\* far as p, where each of them leaves its attributes.
AlikeUpTo(w, t, st, b, p) ==
    /\ Len(w) \in Nat /\ Len(t) \in Nat /\ p \in Nat /\ p <= Len(w) /\ p <= Len(t)
    /\ \A k \in 1 .. p : w[k] = t[k] /\ st[k] = b[k]
    /\ b[p] # "afterName" /\ b[p] \notin Quoted
    /\ Leaves(st, Len(w), p) /\ Leaves(b, Len(t), p)

LEMMA SameAttribute ==
    ASSUME NEW V, NEW w \in Seq(V), NEW t \in Seq(V), NEW st, NEW b, NEW p, AlikeUpTo(w, t, st, b, p),
           NEW i \in 1 .. p, b[i] = "name"
    PROVE  Attribute(w, st, i) = Attribute(t, b, i)
  <1> DEFINE m   == Len(w)
             n   == Len(t)
             new == RunEnd(st, i, m, {"name"})
             vw  == RunEnd(st, new + 1, m, {"afterName"}) + 1
             vew == RunEnd(st, vw, m, InValue)
             qw  == vew >= vw /\ st[vew] \in {"double", "single"}
             vsw == RunEnd(st, vw, vew, {"beforeValue"}) + 1
             ne  == RunEnd(b, i, n, {"name"})
             v   == RunEnd(b, ne + 1, n, {"afterName"}) + 1
             ve  == RunEnd(b, v, n, InValue)
             q   == ve >= v /\ b[ve] \in {"double", "single"}
             vs  == RunEnd(b, v, ve, {"beforeValue"}) + 1
  <1>1. Attribute(w, st, i) =
            [from  |-> i, name |-> SubSeq(w, i, new),
             end   |-> IF vew < vw THEN new ELSE IF qw /\ vew < m THEN vew + 1 ELSE vew,
             value |-> IF qw THEN SubSeq(w, vsw + 1, vew) ELSE SubSeq(w, vsw, vew)]
    BY DEF Attribute
  <1>2. Attribute(t, b, i) =
            [from  |-> i, name |-> SubSeq(t, i, ne),
             end   |-> IF ve < v THEN ne ELSE IF q /\ ve < n THEN ve + 1 ELSE ve,
             value |-> IF q THEN SubSeq(t, vs + 1, ve) ELSE SubSeq(t, vs, ve)]
    BY DEF Attribute
  <1>3. /\ m \in Nat /\ n \in Nat /\ p \in Nat /\ p <= m /\ p <= n /\ i \in 1 .. (p + 1)
        /\ (\A k \in 1 .. p : w[k] = t[k]) /\ (\A k \in 1 .. p : st[k] = b[k])
        /\ b[p] # "afterName" /\ b[p] \notin Quoted
        /\ Leaves(st, m, p) /\ Leaves(b, n, p)
    BY DEF AlikeUpTo
  <1>4. /\ p = n \/ (b[p + 1] # "name" /\ b[p + 1] \notin InValue)
        /\ p = m \/ (st[p + 1] # "name" /\ st[p + 1] \notin InValue)
    BY <1>3 DEF Leaves, InValue
  <1> HIDE DEF m, n
  <1>a. SameStart(w, t, p)
    BY <1>3 DEF SameStart, m, n
  <1>5. new = ne /\ ne \in (i - 1) .. p
    <2>1. (p = m \/ st[p + 1] \notin {"name"}) /\ (p = n \/ b[p + 1] \notin {"name"})
      BY <1>3, <1>4
    <2>2. RunsMeet(st, b, m, n, p, {"name"})
      BY <1>3, <2>1 DEF RunsMeet
    <2> QED BY <1>3, <2>2, RunsAlike
  <1>6. /\ \A k \in i .. ne : b[k] = "name"
        /\ ne # i - 1
    <2>1. i \in 1 .. (n + 1)
      BY <1>3
    <2>2. (\A k \in i .. ne : b[k] \in {"name"}) /\ (ne = n \/ b[ne + 1] \notin {"name"})
      BY <1>3, <2>1, RunEnds
    <2> HIDE DEF ne
    <2>3. ne # i - 1
      BY <1>3, <2>2
    <2> QED BY <2>2, <2>3
  <1>7. SubSeq(w, i, new) = SubSeq(t, i, ne)
    <2> HIDE DEF new, ne
    <2>1. i \in 1 .. (p + 1) /\ ne \in (i - 1) .. p /\ new = ne
      BY <1>3, <1>5
    <2> QED BY <1>a, <2>1, SlicesAlike
  <1>8. CASE ne = p
    <2>1. b[p] = "name" /\ new = p
      <3>1. p \in i .. ne
        BY <1>3, <1>8
      <3> QED BY <1>5, <1>6, <1>8, <3>1
    <2>2. st[p] = "name" /\ p \in 0 .. m /\ p \in 0 .. n
      <3>1. p \in 1 .. p
        BY <1>3
      <3> QED BY <1>3, <2>1, <3>1
    <2>3. ValueBehind(st, m, p, vw, vew, vsw) /\ ValueBehind(b, n, p, v, ve, vs)
      BY <1>8, <2>1 DEF ValueBehind
    <2> HIDE DEF ne, new, vw, vew, vsw, v, ve, vs
    <2>4. vw \in (p + 1) .. (m + 1) /\ vew = vw - 1 /\ vsw = vw
      BY <1>3, <2>2, <2>3, NoValueBehind
    <2>5. v \in (p + 1) .. (n + 1) /\ ve = v - 1 /\ vs = v
      BY <1>3, <2>1, <2>2, <2>3, NoValueBehind
    <2>9. ~qw /\ ~q /\ vew < vw /\ ve < v
      BY <1>3, <2>4, <2>5
    <2>10. \A x \in Seq(V) : \A k \in 1 .. (Len(x) + 1) : SubSeq(x, k, k - 1) = <<>>
      OBVIOUS
    <2>11. SubSeq(w, vsw, vew) = <<>>
      <3>1. vw \in 1 .. (Len(w) + 1)
        BY <1>3, <2>4 DEF m
      <3> QED BY <2>4, <2>10, <3>1
    <2>12. SubSeq(t, vs, ve) = <<>>
      <3>1. v \in 1 .. (Len(t) + 1)
        BY <1>3, <2>5 DEF n
      <3> QED BY <2>5, <2>10, <3>1
    <2> QED BY <1>1, <1>2, <1>5, <1>7, <2>9, <2>11, <2>12
  <1>9. CASE ne # p
    <2>1. ne \in i .. (p - 1) /\ ne + 1 \in 1 .. p
      BY <1>3, <1>5, <1>6, <1>9
    <2>2. vw = v /\ v \in 1 .. p
      <3> DEFINE l == p - 1
      <3>1. l \in Nat /\ l <= m /\ l <= n /\ ne + 1 \in 1 .. (l + 1) /\ l + 1 = p
            /\ \A k \in 1 .. l : k \in 1 .. p
        BY <1>3, <2>1
      <3>2. st[p] = b[p]
        BY <1>3, <2>1
      <3> HIDE DEF l
      <3>3. st[l + 1] \notin {"afterName"} /\ b[l + 1] \notin {"afterName"} /\ \A k \in 1 .. l : st[k] = b[k]
        BY <1>3, <3>1, <3>2
      <3> DEFINE j == ne + 1
      <3>4. j \in 1 .. (l + 1) /\ vw = RunEnd(st, j, m, {"afterName"}) + 1
            /\ v = RunEnd(b, j, n, {"afterName"}) + 1
        BY <1>5, <3>1
      <3> HIDE DEF j, vw, v, ne, new
      <3>5. RunEnd(st, j, m, {"afterName"}) = RunEnd(b, j, n, {"afterName"})
            /\ RunEnd(b, j, n, {"afterName"}) \in (j - 1) .. l
        <4>1. RunsMeet(st, b, m, n, l, {"afterName"})
          BY <1>3, <3>1, <3>3 DEF RunsMeet
        <4> QED BY <3>4, <4>1, RunsAlike
      <3>6. vw = v
        BY <3>4, <3>5
      <3>7. v \in j .. (l + 1)
        <4>1. j \in Nat /\ l \in Nat /\ v - 1 \in (j - 1) .. l /\ v \in Int
          <5> DEFINE x == RunEnd(b, j, n, {"afterName"})
          <5>1. x \in (j - 1) .. l /\ v = x + 1
            BY <3>4, <3>5
          <5> HIDE DEF x
          <5> QED BY <3>1, <3>4, <5>1
        <4> QED BY <4>1
      <3>8. v \in 1 .. p
        BY <3>1, <3>4, <3>7
      <3> QED BY <3>6, <3>8
    <2> HIDE DEF ne, new, vw, v
    <2>3. vew = ve /\ ve \in (v - 1) .. p
      <3>1. (p = m \/ st[p + 1] \notin InValue) /\ (p = n \/ b[p + 1] \notin InValue) /\ v \in 1 .. (p + 1)
        BY <1>3, <1>4, <2>2 DEF InValue
      <3>2. RunsMeet(st, b, m, n, p, InValue)
        BY <1>3, <3>1 DEF RunsMeet
      <3>3. RunEnd(st, v, m, InValue) = RunEnd(b, v, n, InValue)
            /\ RunEnd(b, v, n, InValue) \in (v - 1) .. p
        BY <3>1, <3>2, RunsAlike
      <3> QED BY <2>2, <3>3
    <2> HIDE DEF vew, ve
    <2>4. vsw = vs /\ vs \in v .. (ve + 1)
      <3>1. ve \in Nat /\ v \in 1 .. (ve + 1) /\ \A k \in 1 .. ve : k \in 1 .. p
        BY <1>3, <2>2, <2>3
      <3>2. \A k \in 1 .. ve : st[k] = b[k]
        BY <1>3, <3>1
      <3>3. RunEnd(st, v, ve, {"beforeValue"}) = RunEnd(b, v, ve, {"beforeValue"})
            /\ RunEnd(b, v, ve, {"beforeValue"}) \in (v - 1) .. ve
        <4>1. RunsMeet(st, b, ve, ve, ve, {"beforeValue"})
          BY <3>1, <3>2 DEF RunsMeet
        <4> QED BY <3>1, <4>1, RunsAlike
      <3> QED BY <2>2, <2>3, <3>3
    <2>5. ASSUME q PROVE vs <= ve
      <3>1. v \in 1 .. (ve + 1) /\ ve \in Nat /\ ve >= v
        BY <2>2, <2>3, <2>5
      <3> DEFINE r == RunEnd(b, v, ve, {"beforeValue"})
      <3>2. r \in (v - 1) .. ve /\ \A k \in v .. r : b[k] \in {"beforeValue"}
        BY <3>1, RunEnds
      <3> HIDE DEF r
      <3>3. r # ve
        <4> SUFFICES ASSUME r = ve PROVE FALSE
          OBVIOUS
        <4>1. ve \in v .. r
          BY <2>2, <3>1
        <4> QED BY <2>5, <3>2, <4>1
      <3>4. vs = r + 1
        BY DEF r
      <3> QED BY <2>2, <3>1, <3>2, <3>3, <3>4
    <2> HIDE DEF vs, vsw
    <2>6. qw = q
      <3>1. ve >= v => ve \in 1 .. p
        BY <2>2, <2>3
      <3> QED BY <1>3, <2>2, <2>3, <3>1
    <2>7. q => ve < n /\ ve < m
      <3>1. q => ve # p
        BY <1>3 DEF Quoted
      <3> HIDE DEF q
      <3> QED BY <1>3, <2>2, <2>3, <3>1
    <2>8. q => SubSeq(w, vsw + 1, vew) = SubSeq(t, vs + 1, ve)
      <3> SUFFICES ASSUME q PROVE SubSeq(w, vs + 1, ve) = SubSeq(t, vs + 1, ve)
        BY <2>3, <2>4
      <3> DEFINE k == vs + 1
      <3>1. k \in 1 .. (p + 1) /\ ve \in (k - 1) .. p
        BY <1>3, <2>2, <2>3, <2>4, <2>5
      <3> HIDE DEF k, q
      <3>2. SubSeq(w, k, ve) = SubSeq(t, k, ve)
        BY <1>a, <3>1, SlicesAlike
      <3> QED BY <3>2 DEF k
    <2>9. SubSeq(w, vsw, vew) = SubSeq(t, vs, ve)
      <3>1. vs \in 1 .. (p + 1) /\ ve \in (vs - 1) .. p
        BY <1>3, <2>2, <2>3, <2>4
      <3> HIDE DEF q
      <3>2. SubSeq(w, vs, ve) = SubSeq(t, vs, ve)
        BY <1>a, <3>1, SlicesAlike
      <3> QED BY <2>3, <2>4, <3>2
    <2> HIDE DEF q, qw
    <2> QED BY <1>1, <1>2, <1>5, <1>7, <2>2, <2>3, <2>6, <2>7, <2>8, <2>9
  <1> QED BY <1>8, <1>9

\* The tokenizer goes through the identity and ends outside a value behind it.
LEMMA BorneIsTokenized ==
    ASSUME NEW V, NEW w \in Seq(V), NEW t \in Seq(V), NEW p, NEW end, NEW aid, IsAID(aid),
           Borne(w, t, p, end, aid), Sound(t), IsTagText(w),
           NEW a, a = Tokenized(t), NEW d, d = Tokenized(w)
    PROVE  /\ \A k \in 0 .. p : d[k] = a[k]
           /\ d[p + 1] # "attrName"
           /\ \A k \in (p + 3) .. Len(w) : d[k] # "attrName"
           /\ d[Len(w)] \in {"afterQuoted", "beforeAttr", "selfClosing"}
           /\ d[Len(w)] = "selfClosing" <=> end # Len(t)
  <1> DEFINE n == Len(t)
             m == Len(w)
             b == States(Skipping, "sep", t)
  <1>1. n \in Nat /\ m = n + 6 /\ p \in 0 .. n /\ end \in p .. n /\ m \in Nat
        /\ (end = n \/ (end + 1 = n /\ t[n] = Slash)) /\ \A k \in (p + 1) .. end : t[k] = Space
    BY DEF Borne, Room
  <1>2. /\ \A k \in 1 .. p : w[k] = t[k]
        /\ w[p + 1] = Space /\ w[p + 2] = AIDName /\ w[p + 3] = Equals
        /\ w[p + 4] = DQuote /\ w[p + 5] = aid /\ w[p + 6] = DQuote
        /\ \A k \in (p + 1) .. n : w[k + 6] = t[k]
        /\ \A k \in (p + 7) .. m : w[k] \in {Space, Slash}
    BY <1>1 DEF Borne, Bears
  <1>3. /\ \A k \in 1 .. n : a[k] = Tokenizer[a[k - 1]][ClassOf(t[k])]
        /\ a[0] = "tagName" /\ \A k \in 0 .. n : a[k] \in TokenStates
    <2>1. "tagName" \in TokenStates
      BY DEF TokenStates
    <2> QED BY <1>1, <2>1, Tables, StatesPass DEF Tokenized, Passes
  <1>4. /\ \A k \in 1 .. m : d[k] = Tokenizer[d[k - 1]][ClassOf(w[k])]
        /\ d[0] = "tagName" /\ \A k \in 0 .. m : d[k] \in TokenStates
    <2>1. "tagName" \in TokenStates
      BY DEF TokenStates
    <2> QED BY <1>1, <2>1, Tables, StatesPass DEF Tokenized, Passes
  <1>5. a[p] \notin Quoted
    <2>1. Passes(a, Tokenizer, "tagName", t, n) /\ NoLoneEquals(a, t, n)
      BY <1>1, TokenizerPasses DEF Sound
    <2>2. Passes(b, Skipping, "sep", t, n)
      BY StripperWalks DEF Walks
    <2>3. Coupled(Walking, Skipping, "sep")
      BY WalkersCoupled DEF Skipping
    <2>4. n > 0 => t[1] \in {Space, Slash}
      BY DEF Sound, IsTagText
    <2>5. b[p] \notin Quoted
      <3>1. Room(t, p, end)
        BY DEF Borne
      <3> QED BY <3>1, PlaceIsOutside DEF Sound
    <2> HIDE DEF b, n
    <2>6. <<a[p], b[p]>> \in Walking
      <3>1. \A k \in 0 .. n : <<a[k], b[k]>> \in Walking
        BY <1>1, <2>1, <2>2, <2>3, <2>4, InStep
      <3>2. p \in 0 .. n
        BY <1>1
      <3> QED BY <3>1, <3>2
    <2> QED BY <2>5, <2>6 DEF Walking, Quoted, ValueStates
  <1> HIDE DEF n, m, b
  <1> DEFINE T == {k \in Nat : d[k] = a[k]}
  <1>6. \A k \in 0 .. p : k \in T
    <2>1. 0 \in T /\ p \in Nat
      BY <1>1, <1>3, <1>4
    <2>2. ASSUME NEW k \in 0 .. (p - 1), k \in T PROVE k + 1 \in T
      <3>1. k + 1 \in 1 .. p /\ k + 1 \in 1 .. n /\ k + 1 \in 1 .. m /\ (k + 1) - 1 = k /\ k + 1 \in Nat
        BY <1>1
      <3>2. d[k + 1] = Tokenizer[d[k]][ClassOf(w[k + 1])] /\ a[k + 1] = Tokenizer[a[k]][ClassOf(t[k + 1])]
        BY <1>3, <1>4, <3>1
      <3>3. d[k] = a[k] /\ w[k + 1] = t[k + 1]
        BY <1>2, <2>2, <3>1
      <3> QED BY <3>1, <3>2, <3>3
    <2> HIDE DEF T
    <2> QED BY <2>1, <2>2, InductUpTo
  <1>7. \A k \in 0 .. p : d[k] = a[k]
    BY <1>6
  <1>8. d[p] = a[p] /\ a[p] \in TokenStates
    BY <1>1, <1>3, <1>7
  <1>9. \A j \in 1 .. 6 : d[p + j] = Tokenizer[d[p + (j - 1)]][ClassOf(w[p + j])]
    <2> TAKE j \in 1 .. 6
    <2> DEFINE k == p + j
    <2>1. k \in 1 .. m /\ k - 1 = p + (j - 1)
      BY <1>1
    <2> HIDE DEF k
    <2>2. d[k] = Tokenizer[d[k - 1]][ClassOf(w[k])]
      BY <1>4, <2>1
    <2> QED BY <2>1, <2>2 DEF k
  <1>10. p + (1 - 1) = p /\ p + (2 - 1) = p + 1 /\ p + (3 - 1) = p + 2
        /\ p + (4 - 1) = p + 3 /\ p + (5 - 1) = p + 4 /\ p + (6 - 1) = p + 5
    BY <1>1
  <1>11. ClassOf(aid) = "other"
    BY DEF IsAID
  <1>12. d[p + 1] = Tokenizer[d[p]]["space"] /\ d[p + 2] = Tokenizer[d[p + 1]]["other"]
         /\ d[p + 3] = Tokenizer[d[p + 2]]["equals"]
    <2>1. d[p + 1] = Tokenizer[d[p]]["space"]
      BY <1>2, <1>9, <1>10, WordsDiffer
    <2>2. d[p + 2] = Tokenizer[d[p + 1]]["other"]
      BY <1>2, <1>9, <1>10, WordsDiffer
    <2>3. d[p + 3] = Tokenizer[d[p + 2]]["equals"]
      BY <1>2, <1>9, <1>10, WordsDiffer
    <2> QED BY <2>1, <2>2, <2>3
  <1>13. d[p + 4] = Tokenizer[d[p + 3]]["dquote"] /\ d[p + 5] = Tokenizer[d[p + 4]]["other"]
         /\ d[p + 6] = Tokenizer[d[p + 5]]["dquote"]
    <2>1. d[p + 4] = Tokenizer[d[p + 3]]["dquote"]
      BY <1>2, <1>9, <1>10, WordsDiffer
    <2>2. d[p + 5] = Tokenizer[d[p + 4]]["other"]
      BY <1>2, <1>9, <1>10, <1>11
    <2>3. d[p + 6] = Tokenizer[d[p + 5]]["dquote"]
      BY <1>2, <1>9, <1>10, WordsDiffer
    <2> QED BY <2>1, <2>2, <2>3
  <1>14. d[p + 1] \in {"beforeAttr", "afterName"}
    BY <1>5, <1>8, <1>12, TokenizerRows DEF TokenStates, ValueStates, Quoted, Columns
  <1>15. d[p + 2] = "attrName"
    BY <1>12, <1>14, TokenizerRows DEF Columns
  <1>16. d[p + 3] = "beforeValue"
    BY <1>12, <1>15, TokenizerRows DEF Columns
  <1>17. d[p + 4] = "double" /\ d[p + 5] = "double" /\ d[p + 6] = "afterQuoted"
    BY <1>13, <1>16, TokenizerRows DEF Columns
  <1> DEFINE Ended == {"afterQuoted", "beforeAttr", "selfClosing"}
             U == {k \in Nat : d[p + 6 + k] \in Ended}
  <1>18. \A k \in 0 .. (n - p) : k \in U
    <2>1. 0 \in U /\ n - p \in Nat
      BY <1>1, <1>17
    <2>2. ASSUME NEW k \in 0 .. ((n - p) - 1), k \in U PROVE k + 1 \in U
      <3> DEFINE l == p + 6 + (k + 1)
      <3>1. l \in 1 .. m /\ l - 1 = p + 6 + k /\ l \in (p + 7) .. m /\ k + 1 \in Nat
        BY <1>1
      <3>2. d[l - 1] \in Ended
        BY <2>2, <3>1
      <3> HIDE DEF l
      <3>3. d[l] = Tokenizer[d[l - 1]][ClassOf(w[l])] /\ w[l] \in {Space, Slash}
        BY <1>2, <1>4, <3>1
      <3>4. ClassOf(w[l]) \in {"space", "slash"}
        BY <3>3, ColumnOfCharacter
      <3>5. d[l] \in Ended
        BY <3>2, <3>3, <3>4, TokenizerRows DEF Columns
      <3> QED BY <3>1, <3>5 DEF l
    <2> HIDE DEF U
    <2> QED BY <2>1, <2>2, InductUpTo
  <1>19. \A k \in (p + 6) .. m : d[k] \in Ended
    <2> TAKE k \in (p + 6) .. m
    <2>1. k - (p + 6) \in 0 .. (n - p) /\ p + 6 + (k - (p + 6)) = k
      BY <1>1
    <2> QED BY <1>18, <2>1
  <1>20. ASSUME NEW k \in (p + 3) .. m PROVE d[k] # "attrName"
    <2>1. k \in {p + 3, p + 4, p + 5} \/ k \in (p + 6) .. m
      BY <1>1
    <2> QED BY <1>16, <1>17, <1>19, <2>1
  <1>21. m \in (p + 6) .. m
    BY <1>1
  <1>22. d[m] = "selfClosing" <=> end # n
    <2>1. CASE n = p
      <3>1. m = p + 6 /\ end = n
        BY <1>1, <2>1
      <3> QED BY <1>17, <3>1
    <2>2. CASE n # p
      <3>1. n \in (p + 1) .. n /\ m \in 1 .. m /\ m - 1 \in (p + 6) .. m
        BY <1>1, <2>2
      <3>2. d[m] = Tokenizer[d[m - 1]][ClassOf(t[n])] /\ d[m - 1] \in Ended
        BY <1>1, <1>2, <1>4, <1>19, <3>1
      <3>3. CASE end = n
        <4>1. t[n] = Space
          BY <1>1, <3>1, <3>3
        <4>2. d[m] = Tokenizer[d[m - 1]]["space"]
          BY <3>2, <4>1, WordsDiffer
        <4> QED BY <3>2, <3>3, <4>2, TokenizerRows DEF Columns
      <3>4. CASE end # n
        <4>1. ClassOf(t[n]) = "slash"
          BY <1>1, <3>4, ColumnOfCharacter
        <4> QED BY <3>2, <3>4, <4>1, TokenizerRows DEF Columns
      <3> QED BY <3>3, <3>4
    <2> QED BY <2>1, <2>2
  <1> QED BY <1>7, <1>14, <1>19, <1>20, <1>21, <1>22 DEF n, m

\* The tokenizer reads a stamped tag to its end, and its slash closes it exactly if the
\* stamper left it for that (stampedOpenTag, terminalSelfCloseSlash).
LEMMA BorneIsSound ==
    ASSUME NEW V, NEW w \in Seq(V), NEW t \in Seq(V), NEW p, NEW end, NEW aid, IsAID(aid),
           Borne(w, t, p, end, aid), Sound(t), IsTagText(w)
    PROVE  /\ Sound(w)
           /\ SelfCloses(w) <=> end # Len(t)
  <1> DEFINE d == Tokenized(w)
             a == Tokenized(t)
             m == Len(w)
  <1>3. /\ \A k \in 0 .. p : d[k] = a[k]
        /\ d[p + 1] # "attrName"
        /\ \A k \in (p + 3) .. m : d[k] # "attrName"
        /\ d[m] \in {"afterQuoted", "beforeAttr", "selfClosing"}
        /\ d[m] = "selfClosing" <=> end # Len(t)
    BY BorneIsTokenized
  <1>4. /\ m = Len(t) + 6 /\ Len(t) \in Nat /\ p \in 0 .. Len(t) /\ w[p + 2] = AIDName
        /\ \A k \in 1 .. p : w[k] = t[k]
    BY DEF Borne, Bears, Room
  <1>5. TokenizerEnd(w) = d[m]
    BY DEF TokenizerEnd
  <1>6. Terminated(w) /\ EndsOutsideValue(w)
    BY <1>3, <1>5 DEF Terminated, EndsOutsideValue
  <1>7. NamesBeginWithNoEquals(w)
    <2>1. \A i \in 1 .. Len(t) : a[i] = "attrName" /\ a[i - 1] \in DOMAIN Tokenizer \ {"attrName"}
                                 => t[i] # Equals
      BY DEF Sound, NamesBeginWithNoEquals, NameStarts
    <2> HIDE DEF a, d, m
    <2>2. ASSUME NEW i \in 1 .. m, d[i] = "attrName", d[i - 1] \in DOMAIN Tokenizer \ {"attrName"}
          PROVE  w[i] # Equals
      <3>1. i \in 1 .. p \/ i = p + 1 \/ i = p + 2 \/ i \in (p + 3) .. m
        BY <1>4
      <3>2. i \in 1 .. p => w[i] # Equals
        <4> SUFFICES ASSUME i \in 1 .. p PROVE w[i] # Equals
          OBVIOUS
        <4>1. i \in 0 .. p /\ i - 1 \in 0 .. p /\ i \in 1 .. Len(t)
          BY <1>4
        <4>2. a[i] = "attrName" /\ a[i - 1] \in DOMAIN Tokenizer \ {"attrName"}
          BY <1>3, <2>2, <4>1
        <4> QED BY <1>4, <2>1, <4>1, <4>2
      <3>3. i = p + 2 => w[i] # Equals
        BY <1>4, WordsDiffer
      <3> QED BY <1>3, <2>2, <3>1, <3>2, <3>3
    <2> QED BY <2>2 DEF NamesBeginWithNoEquals, NameStarts, d, m
  <1>8. Sound(w)
    BY <1>6, <1>7 DEF Sound
  <1>9. SelfCloses(w) <=> TokenizerEnd(w) = "selfClosing"
    BY <1>7, SlashReadAlike
  <1> HIDE DEF d, m, a
  <1>10. SelfCloses(w) <=> end # Len(t)
    BY <1>3, <1>5, <1>9
  <1> QED BY <1>8, <1>10

LEMMA StampedIsSound ==
    ASSUME NEW V, TagWords \subseteq V, NEW t \in Seq(V), Bare(t), Sound(t),
           NEW aid \in V, IsAID(aid), NEW c
    PROVE  /\ Sound(StampedOpenTag(t, aid, c))
           /\ SelfCloses(StampedOpenTag(t, aid, c)) <=> c /\ SelfCloses(t)
  <1> DEFINE w == StampedOpenTag(t, aid, c)
  <1>0. PICK p, end : BorneAs(w, t, p, end, aid, c)
    BY StampedIsBorne
  <1>1. Borne(w, t, p, end, aid) /\ (end = Len(t) <=> ~(c /\ SelfCloses(t)))
    BY <1>0 DEF BorneAs
  <1>2. w \in Seq(V) /\ IsTagText(w)
    <2>1. Stamper(t)
      BY DEF Bare, Stamper
    <2>2. w \in Seq(V) /\ Stamper(w)
      BY <2>1, StampedTagIsFine
    <2> QED BY <2>2 DEF Stamper
  <1> HIDE DEF w
  <1>3. Sound(w) /\ (SelfCloses(w) <=> end # Len(t))
    BY <1>1, <1>2, BorneIsSound
  <1> QED BY <1>1, <1>3 DEF w

\* The walkers find in a tag that bears an identity what they find in the bare one, and
\* the identity at q.
WalkedAs(w, t, st, b, p, q) ==
    /\ AlikeUpTo(w, t, st, b, p)
    /\ q \in (p + 1) .. (Len(w) - 1) /\ w[q] = AIDName /\ st[q] = "name" /\ st[q + 1] # "name"
    /\ NameStarts(b, Len(t), "name", {"sep", "afterName"}) \subseteq 1 .. p
    /\ NameStarts(st, Len(w), "name", {"sep", "afterName"}) =
           NameStarts(b, Len(t), "name", {"sep", "afterName"}) \cup {q}

LEMMA BorneIsRead ==
    ASSUME NEW V, NEW w \in Seq(V), NEW t \in Seq(V), NEW r, NEW end, NEW aid, IsAID(aid),
           Borne(w, t, r, end, aid), Sound(t), Sound(w), NEW p \in 0 .. r, Place(t, p, end)
    PROVE  WalkedAs(w, t, States(Nameless, "sep", w), States(Nameless, "sep", t), p, r + 2)
  <1> DEFINE n == Len(t)
             m == Len(w)
             st == States(Skipping, "sep", w)
             b == States(Skipping, "sep", t)
             q == r + 2
  <1>3. States(Nameless, "sep", w) = st /\ States(Nameless, "sep", t) = b
    BY WalkersAreOne DEF Sound
  <1>4. /\ m = n + 6 /\ n \in Nat /\ r \in 0 .. n /\ w[r + 2] = AIDName
        /\ \A k \in 1 .. r : w[k] = t[k]
    BY DEF Borne, Bears, Room
  <1>5. /\ b[p] \notin Quoted
        /\ p > 0 => b[p] # "afterName"
        /\ \A k \in (p + 1) .. n : b[k] \in {"sep", "afterName"}
    BY BehindPlace
  <1>a. b[r] \notin Quoted
    <2>1. r = p \/ r \in (p + 1) .. n
      BY <1>4
    <2> QED BY <1>5, <2>1 DEF Quoted
  <1>6. /\ \A k \in 0 .. r : st[k] = b[k]
        /\ st[r + 1] \in {"sep", "afterName"} /\ st[r + 2] = "name" /\ st[r + 3] = "beforeValue"
        /\ st[r + 4] = "double" /\ st[r + 5] = "double" /\ st[r + 6] = "sep"
        /\ \A k \in (r + 7) .. m : st[k] = "sep"
    BY <1>a, BorneIsWalked
  <1>7. Walks(b, t)
    BY StripperWalks
  <1>8. b[0] = "sep"
    BY <1>7 DEF Walks, Passes
  <1> HIDE DEF n, m, st, b
  <1>9. \A k \in (p + 1) .. (r + 1) : st[k] \in {"sep", "afterName"}
    <2> TAKE k \in (p + 1) .. (r + 1)
    <2>1. k = r + 1 \/ (k \in 0 .. r /\ k \in (p + 1) .. n)
      BY <1>4
    <2> QED BY <1>5, <1>6, <2>1
  <1>10. AlikeUpTo(w, t, st, b, p)
    <2>1. /\ m \in Nat /\ p \in Nat /\ p <= m /\ p <= n /\ p + 1 \in (p + 1) .. (r + 1)
          /\ \A k \in 1 .. p : k \in 0 .. r /\ k \in 1 .. r
      BY <1>4
    <2>2. b[p] # "afterName"
      BY <1>4, <1>5, <1>8
    <2>3. Leaves(b, n, p)
      <3>1. p = n \/ p + 1 \in (p + 1) .. n
        BY <1>4
      <3> QED BY <1>5, <3>1 DEF Leaves, InValue
    <2>4. Leaves(st, m, p)
      <3>1. st[p + 1] \in {"sep", "afterName"}
        BY <1>9, <2>1
      <3>2. ASSUME NEW k \in (p + 1) .. m, \A j \in (p + 1) .. (k - 1) : st[j] = "afterName"
            PROVE  st[k] \notin InValue
        <4>1. CASE k \in (p + 1) .. (r + 1)
          BY <1>9, <4>1 DEF InValue
        <4>2. CASE k = r + 2
          BY <1>6, <4>2 DEF InValue
        <4>3. ~(k > r + 2)
          <5> SUFFICES ASSUME k > r + 2 PROVE FALSE
            OBVIOUS
          <5>1. r + 2 \in (p + 1) .. (k - 1)
            BY <1>4
          <5> QED BY <1>6, <3>2, <5>1
        <4> QED BY <1>4, <4>1, <4>2, <4>3
      <3> QED BY <3>1, <3>2 DEF Leaves
    <2> QED BY <1>4, <1>5, <1>6, <2>1, <2>2, <2>3, <2>4 DEF AlikeUpTo, n, m
  <1> DEFINE N == NameStarts(b, n, "name", {"sep", "afterName"})
             M == NameStarts(st, m, "name", {"sep", "afterName"})
  <1>11. N = {i \in 1 .. n : b[i] = "name" /\ b[i - 1] \in {"sep", "afterName"}}
         /\ M = {i \in 1 .. m : st[i] = "name" /\ st[i - 1] \in {"sep", "afterName"}}
    BY DEF NameStarts
  <1> HIDE DEF N, M
  <1>12. N \subseteq 1 .. p
    <2>1. \A i \in 1 .. n : i \in 1 .. p \/ i \in (p + 1) .. n
      BY <1>4
    <2>2. \A i \in 1 .. n : b[i] = "name" => i \in 1 .. p
      BY <1>5, <2>1
    <2> QED BY <1>11, <2>2
  <1>13. \A i \in 1 .. p : i \in M <=> i \in N
    <2> TAKE i \in 1 .. p
    <2>1. i \in 0 .. r /\ i - 1 \in 0 .. r /\ i \in 1 .. n /\ i \in 1 .. m
      BY <1>4
    <2> QED BY <1>6, <1>11, <2>1
  <1>14. r + 2 \in M
    <2>1. r + 2 \in 1 .. m /\ (r + 2) - 1 = r + 1
      BY <1>4
    <2> QED BY <1>6, <1>11, <2>1
  <1>15. ASSUME NEW i \in M PROVE i \in 1 .. p \/ i = r + 2
    <2>1. i \in 1 .. m /\ st[i] = "name"
      BY <1>11
    <2>2. \/ i \in 1 .. p \/ i \in (p + 1) .. (r + 1)
          \/ i \in {r + 2, r + 3, r + 4, r + 5, r + 6} \/ i \in (r + 7) .. m
      BY <1>4, <2>1
    <2> QED BY <1>6, <1>9, <2>1, <2>2
  <1>16. M = N \cup {r + 2}
    BY <1>12, <1>13, <1>14, <1>15
  <1>17. q \in (p + 1) .. (m - 1) /\ q = r + 2 /\ q + 1 = r + 3
    BY <1>4
  <1> HIDE DEF q
  <1>18. WalkedAs(w, t, st, b, p, q)
    BY <1>4, <1>6, <1>10, <1>12, <1>16, <1>17 DEF WalkedAs, N, M, n, m
  <1> QED BY <1>3, <1>18 DEF q

\* One tag has the attributes of the other and the identity.
Gains(w, t) ==
    /\ \A word : word # AIDName => Named(w, Nameless, word) = Named(t, Nameless, word)
    /\ \E own : /\ own.name = <<AIDName>>
                /\ Attributes(w, Nameless) = Attributes(t, Nameless) \cup {own}

LEMMA WalkedGains ==
    ASSUME NEW V, NEW w \in Seq(V), NEW t \in Seq(V), NEW st, NEW b, NEW p, NEW q,
           WalkedAs(w, t, st, b, p, q),
           st = States(Nameless, "sep", w), b = States(Nameless, "sep", t)
    PROVE  Gains(w, t)
  <1> DEFINE n == Len(t)
             m == Len(w)
             N == NameStarts(b, n, "name", {"sep", "afterName"})
             M == NameStarts(st, m, "name", {"sep", "afterName"})
             own == Attribute(w, st, q)
  <1>1. /\ \A P : AttributesAt(t, Nameless, P) = {Attribute(t, b, i) : i \in P \cap N}
        /\ \A P : AttributesAt(w, Nameless, P) = {Attribute(w, st, i) : i \in P \cap M}
    BY DEF AttributesAt
  <1>2. /\ n \in Nat /\ m \in Nat /\ p \in Nat /\ p <= n /\ q \in (p + 1) .. (m - 1)
        /\ DOMAIN t = 1 .. n /\ DOMAIN w = 1 .. m
        /\ \A k \in 1 .. p : w[k] = t[k]
        /\ N \subseteq 1 .. p /\ M = N \cup {q}
        /\ w[q] = AIDName /\ st[q] = "name" /\ st[q + 1] # "name"
    BY DEF WalkedAs, AlikeUpTo
  <1>3. ASSUME NEW i \in N PROVE Attribute(w, st, i) = Attribute(t, b, i)
    <2>1. b[i] = "name" /\ i \in 1 .. p
      BY <1>2 DEF NameStarts
    <2>2. AlikeUpTo(w, t, st, b, p)
      BY DEF WalkedAs
    <2> QED BY <2>1, <2>2, SameAttribute
  <1>4. own.name = <<AIDName>>
    <2> DEFINE j == q
    <2>1. j \in 1 .. Len(w) /\ j + 1 = q + 1
      BY <1>2
    <2>2. w[j] = AIDName /\ st[j] = "name" /\ st[j + 1] # "name"
      BY <1>2, <2>1
    <2> HIDE DEF j
    <2>3. Attribute(w, st, j).name = <<AIDName>>
      BY <2>1, <2>2, AttributeAt
    <2> QED BY <2>3 DEF j
  <1> HIDE DEF n, m, N, M, own
  <1>5. ASSUME NEW word, word # AIDName
        PROVE  Named(w, Nameless, word) = Named(t, Nameless, word)
    <2> DEFINE F == {i \in DOMAIN t : t[i] = word}
               G == {i \in DOMAIN w : w[i] = word}
    <2>1. \A i \in N : i \in 1 .. n /\ i \in 1 .. m /\ i \in 1 .. p
      BY <1>2
    <2>2. \A i : i \in G \cap M <=> i \in F \cap N
      <3> TAKE i
      <3>1. CASE i \in N
        BY <1>2, <2>1, <3>1
      <3>2. CASE i = q
        BY <1>2, <1>5, <2>1, <3>2
      <3> QED BY <1>2, <3>1, <3>2
    <2> HIDE DEF F, G
    <2>5. G \cap M = F \cap N
      BY <2>2
    <2>3. {Attribute(w, st, i) : i \in F \cap N} = {Attribute(t, b, i) : i \in F \cap N}
      BY <1>3
    <2>4. AttributesAt(w, Nameless, G) = AttributesAt(t, Nameless, F)
      BY <1>1, <2>3, <2>5
    <2> QED BY <2>4 DEF Named, F, G
  <1>6. Attributes(w, Nameless) = Attributes(t, Nameless) \cup {own}
    <2>1. DOMAIN t \cap N = N /\ DOMAIN w \cap M = N \cup {q}
      <3>1. N \subseteq DOMAIN t
        BY <1>2
      <3>2. N \cup {q} \subseteq DOMAIN w
        BY <1>2
      <3>3. \A A, B : B \subseteq A => A \cap B = B
        OBVIOUS
      <3> QED BY <1>2, <3>1, <3>2, <3>3
    <2>2. Attributes(t, Nameless) = {Attribute(t, b, i) : i \in N}
      BY <1>1, <2>1 DEF Attributes
    <2>3. Attributes(w, Nameless) = {Attribute(w, st, i) : i \in N \cup {q}}
      BY <1>1, <2>1 DEF Attributes
    <2> QED BY <1>3, <2>2, <2>3 DEF own
  <1> QED BY <1>4, <1>5, <1>6 DEF Gains

\* What the code reads in a tag besides the identity is the same after stamping: its
\* attributes, the marker that opts it in, the encoding of an annotation, and whether it
\* closes itself, unless the stamper was told that its slash does not count
\* (stampedOpenTag; forEachAttrName, hasOptInMarker, attrValue, terminalSelfCloseSlash).
THEOREM StampedReadsAsBare ==
    ASSUME NEW V, TagWords \subseteq V, NEW t \in Seq(V), Bare(t), Sound(t),
           NEW aid \in V, IsAID(aid), NEW c
    PROVE  LET w == StampedOpenTag(t, aid, c) IN
           /\ Sound(w)
           /\ SelfCloses(w) <=> c /\ SelfCloses(t)
           /\ HasOptInMarker(w) <=> HasOptInMarker(t)
           /\ AttrValue(w, Encoding) = AttrValue(t, Encoding)
           /\ \E own : /\ own.name = <<AIDName>>
                       /\ Attributes(w, Nameless) = Attributes(t, Nameless) \cup {own}
  <1> DEFINE w == StampedOpenTag(t, aid, c)
  <1>1. Sound(w) /\ (SelfCloses(w) <=> c /\ SelfCloses(t))
    BY StampedIsSound
  <1>2. w \in Seq(V)
    <2>1. Stamper(t)
      BY DEF Bare, Stamper
    <2> QED BY <2>1, StampedTagIsFine
  <1>3. PICK p, end : BorneAs(w, t, p, end, aid, c) /\ Place(t, p, end)
    BY StampedIsBorne
  <1> HIDE DEF w
  <1>4. Gains(w, t)
    <2>1. Borne(w, t, p, end, aid) /\ p \in 0 .. p
      BY <1>3 DEF BorneAs, Borne, Room
    <2>2. WalkedAs(w, t, States(Nameless, "sep", w), States(Nameless, "sep", t), p, p + 2)
      BY <1>1, <1>2, <1>3, <2>1, BorneIsRead
    <2> QED BY <1>2, <2>2, WalkedGains
  <1>5. Class # AIDName /\ Marker # AIDName /\ Encoding # AIDName
    <2>1. \A x, y : <<x>> = <<y>> => x = y
      <3> TAKE x, y
      <3> HAVE <<x>> = <<y>>
      <3>1. <<x>>[1] = <<y>>[1]
        OBVIOUS
      <3> QED BY <3>1
    <2>2. /\ "class" # "data-odoc-aid" /\ "data-odoc-artifact" # "data-odoc-aid"
          /\ "encoding" # "data-odoc-aid"
      OBVIOUS
    <2> QED BY <2>1, <2>2 DEF Class, Marker, Encoding, AIDName
  <1>6. /\ Named(w, Nameless, Class) = Named(t, Nameless, Class)
        /\ Named(w, Nameless, Marker) = Named(t, Nameless, Marker)
        /\ Named(w, Nameless, Encoding) = Named(t, Nameless, Encoding)
    BY <1>4, <1>5 DEF Gains
  <1>7. HasOptInMarker(w) <=> HasOptInMarker(t)
    BY <1>6 DEF HasOptInMarker, ClassTokenMatch
  <1>8. AttrValue(w, Encoding) = AttrValue(t, Encoding)
    BY <1>6 DEF AttrValue
  <1> QED BY <1>1, <1>4, <1>7, <1>8 DEF w, Gains

-------------------------------------------------------------------------------
(* The identity that is put into the root of a replacement stands behind the *)
(* spaces of the tag, and takes them along when it is taken out.             *)

LEMMA TokenizedAlike ==
    ASSUME NEW V, NEW w \in Seq(V), NEW t \in Seq(V), NEW p, SameStart(w, t, p)
    PROVE  \A k \in 0 .. p : Tokenized(w)[k] = Tokenized(t)[k] /\ Tokenized(w)[k] \in TokenStates
  <1> DEFINE a == Tokenized(t)
             d == Tokenized(w)
             n == Len(t)
             m == Len(w)
  <1>1. n \in Nat /\ m \in Nat /\ p \in Nat /\ p <= m /\ p <= n /\ \A k \in 1 .. p : w[k] = t[k]
    BY DEF SameStart
  <1>2. "tagName" \in TokenStates
    BY DEF TokenStates
  <1>3. a[0] = "tagName" /\ \A k \in 1 .. n : a[k] = Tokenizer[a[k - 1]][ClassOf(t[k])]
    BY <1>1, <1>2, Tables, StatesPass DEF Tokenized, Passes
  <1>4. /\ d[0] = "tagName" /\ \A k \in 1 .. m : d[k] = Tokenizer[d[k - 1]][ClassOf(w[k])]
        /\ \A k \in 0 .. m : d[k] \in TokenStates
    BY <1>1, <1>2, Tables, StatesPass DEF Tokenized, Passes
  <1> HIDE DEF a, d, n, m
  <1> DEFINE T == {k \in Nat : d[k] = a[k]}
  <1>5. 0 \in T
    BY <1>3, <1>4
  <1>6. ASSUME NEW k \in 0 .. (p - 1), k \in T PROVE k + 1 \in T
    <2>1. k + 1 \in 1 .. p /\ k + 1 \in 1 .. n /\ k + 1 \in 1 .. m /\ (k + 1) - 1 = k /\ k + 1 \in Nat
      BY <1>1
    <2>2. d[k + 1] = Tokenizer[d[k]][ClassOf(w[k + 1])] /\ a[k + 1] = Tokenizer[a[k]][ClassOf(t[k + 1])]
      BY <1>3, <1>4, <2>1
    <2>3. d[k] = a[k] /\ w[k + 1] = t[k + 1]
      BY <1>1, <1>6, <2>1
    <2> QED BY <2>1, <2>2, <2>3
  <1>7. \A k \in 0 .. p : k \in T
    <2> HIDE DEF T
    <2> QED BY <1>1, <1>5, <1>6, InductUpTo
  <1>8. \A k \in 0 .. p : k \in 0 .. m
    BY <1>1
  <1> QED BY <1>4, <1>7, <1>8 DEF a, d

\* For the tokenizer, too, the place of an identity is outside a value.
LEMMA PlaceIsTokenized ==
    ASSUME NEW V, NEW t \in Seq(V), Sound(t), NEW p, NEW end, Room(t, p, end)
    PROVE  Tokenized(t)[p] \notin Quoted
  <1> DEFINE a == Tokenized(t)
             b == States(Skipping, "sep", t)
             n == Len(t)
  <1>1. n \in Nat /\ p \in 0 .. n
    BY DEF Room
  <1>2. Passes(a, Tokenizer, "tagName", t, n) /\ NoLoneEquals(a, t, n)
    BY <1>1, TokenizerPasses DEF Sound
  <1>3. Passes(b, Skipping, "sep", t, n)
    BY StripperWalks DEF Walks
  <1>4. Coupled(Walking, Skipping, "sep")
    BY WalkersCoupled DEF Skipping
  <1>5. n > 0 => t[1] \in {Space, Slash}
    BY DEF Sound, IsTagText
  <1>6. b[p] \notin Quoted
    BY PlaceIsOutside DEF Sound
  <1> HIDE DEF a, b, n
  <1>7. \A k \in 0 .. n : <<a[k], b[k]>> \in Walking
    BY <1>1, <1>2, <1>3, <1>4, <1>5, InStep
  <1>8. <<a[p], b[p]>> \in Walking
    BY <1>1, <1>7
  <1>9. a[p] \notin Quoted
    BY <1>6, <1>8 DEF Walking, Quoted, ValueStates
  <1> QED BY <1>9 DEF a

\* What stands before the place of an identity can be read, also with a slash behind it.
LEMMA BeforePlaceIsSound ==
    ASSUME NEW V, NEW t \in Seq(V), Sound(t), NEW p, NEW end, Room(t, p, end),
           NEW y \in Seq(V), SameStart(y, t, p),
           Len(y) = p \/ (Len(y) = p + 1 /\ y[p + 1] = Slash)
    PROVE  Sound(y)
  <1> DEFINE a == Tokenized(t)
             d == Tokenized(y)
             m == Len(y)
  <1>1. /\ p \in Nat /\ p <= Len(t) /\ Len(t) \in Nat /\ m \in Nat /\ p <= m
        /\ \A k \in 1 .. p : y[k] = t[k]
    BY DEF SameStart
  <1>2. \A k \in 0 .. p : d[k] = a[k] /\ d[k] \in TokenStates
    BY TokenizedAlike
  <1>3. a[p] \notin Quoted
    BY PlaceIsTokenized
  <1>4. \A k \in 1 .. m : d[k] = Tokenizer[d[k - 1]][ClassOf(y[k])]
    <2>1. "tagName" \in TokenStates
      BY DEF TokenStates
    <2> QED BY <1>1, <2>1, Tables, StatesPass DEF Tokenized, Passes
  <1>5. m = p \/ (m = p + 1 /\ y[p + 1] = Slash)
    OBVIOUS
  <1>6. \A i \in 1 .. Len(t) : a[i] = "attrName" /\ a[i - 1] \in DOMAIN Tokenizer \ {"attrName"}
                               => t[i] # Equals
    BY DEF Sound, NamesBeginWithNoEquals, NameStarts
  <1> HIDE DEF a, d, m
  <1>7. ASSUME NEW i \in 1 .. m, d[i] = "attrName", d[i - 1] \in DOMAIN Tokenizer \ {"attrName"}
        PROVE  y[i] # Equals
    <2>1. CASE i \in 1 .. p
      <3>1. i \in 0 .. p /\ i - 1 \in 0 .. p /\ i \in 1 .. Len(t)
        BY <1>1, <2>1
      <3>2. a[i] = "attrName" /\ a[i - 1] \in DOMAIN Tokenizer \ {"attrName"}
        BY <1>2, <1>7, <3>1
      <3> QED BY <1>1, <1>6, <2>1, <3>1, <3>2
    <2>2. CASE i \notin 1 .. p
      <3>1. i = p + 1 /\ y[i] = Slash
        BY <1>1, <1>5, <2>2
      <3> QED BY <3>1, WordsDiffer
    <2> QED BY <2>1, <2>2
  <1>8. NamesBeginWithNoEquals(y)
    BY <1>7 DEF NamesBeginWithNoEquals, NameStarts, d, m
  <1>9. d[p] \in TokenStates /\ d[p] \notin Quoted
    <2>1. p \in 0 .. p
      BY <1>1
    <2> QED BY <1>2, <1>3, <2>1
  <1>10. d[m] \notin Quoted
    <2>1. CASE m = p
      BY <1>9, <2>1
    <2>2. CASE m = p + 1 /\ y[p + 1] = Slash
      <3>1. m \in 1 .. m /\ m - 1 = p
        BY <1>1, <2>2
      <3>2. d[m] = Tokenizer[d[p]][ClassOf(y[m])]
        BY <1>4, <3>1
      <3>3. ClassOf(y[m]) = "slash"
        BY <2>2, ColumnOfCharacter
      <3>4. d[m] = Tokenizer[d[p]]["slash"]
        BY <3>2, <3>3
      <3> QED BY <1>9, <3>4, TokenizerRows DEF TokenStates, ValueStates, Quoted, Columns
    <2> QED BY <1>5, <2>1, <2>2
  <1>11. IsTagText(y)
    <2> SUFFICES ASSUME y # <<>> PROVE y[1] \in {Space, Slash}
      BY DEF IsTagText
    <2>1. m # 0
      BY DEF m
    <2>2. CASE p = 0
      BY <1>5, <2>1, <2>2
    <2>3. CASE p # 0
      <3>1. 1 \in 1 .. p /\ Len(t) # 0
        BY <1>1, <2>3
      <3>2. t # <<>>
        BY <3>1
      <3> QED BY <1>1, <3>1, <3>2 DEF Sound, IsTagText
    <2> QED BY <2>2, <2>3
  <1>12. TokenizerEnd(y) = d[m]
    BY DEF TokenizerEnd, d, m
  <1>13. Terminated(y) /\ EndsOutsideValue(y)
    BY <1>10, <1>12 DEF Terminated, EndsOutsideValue, Quoted
  <1> QED BY <1>8, <1>11, <1>13 DEF Sound

\* Two tags that are alike as far as the place of an identity have the same attributes.
LEMMA AttributesAlike ==
    ASSUME NEW V, NEW y \in Seq(V), NEW t \in Seq(V), Sound(y), Sound(t),
           NEW p, NEW e, NEW f, Place(y, p, e), Place(t, p, f), \A k \in 1 .. p : y[k] = t[k]
    PROVE  Attributes(y, Nameless) = Attributes(t, Nameless)
  <1> DEFINE n == Len(t)
             m == Len(y)
             st == States(Skipping, "sep", y)
             b == States(Skipping, "sep", t)
  <1>1. /\ n \in Nat /\ m \in Nat /\ p \in Nat /\ p <= n /\ p <= m
        /\ DOMAIN t = 1 .. n /\ DOMAIN y = 1 .. m
    BY DEF Place, Room
  <1>2. States(Nameless, "sep", y) = st /\ States(Nameless, "sep", t) = b
    BY WalkersAreOne DEF Sound
  <1>3. /\ b[p] \notin Quoted
        /\ p > 0 => b[p] # "afterName"
        /\ \A k \in (p + 1) .. n : b[k] \in {"sep", "afterName"}
    BY BehindPlace
  <1>4. \A k \in (p + 1) .. m : st[k] \in {"sep", "afterName"}
    BY BehindPlace
  <1>5. Walks(st, y) /\ Walks(b, t)
    BY StripperWalks
  <1>6. \A k \in 0 .. p : st[k] = b[k]
    <2> TAKE k \in 0 .. p
    <2>1. k \in Nat /\ k <= Len(y) /\ k <= Len(t) /\ \A j \in 1 .. k : y[j] = t[j]
      BY <1>1
    <2> HIDE DEF st, b
    <2> QED BY <1>1, <1>5, <2>1, WalkedAlike
  <1>7. b[0] = "sep"
    BY <1>5 DEF Walks, Passes
  <1> HIDE DEF n, m, st, b
  <1>8. AlikeUpTo(y, t, st, b, p)
    <2>1. Leaves(b, n, p)
      <3>1. p = n \/ p + 1 \in (p + 1) .. n
        BY <1>1
      <3> QED BY <1>3, <3>1 DEF Leaves, InValue
    <2>2. Leaves(st, m, p)
      <3>1. p = m \/ p + 1 \in (p + 1) .. m
        BY <1>1
      <3> QED BY <1>4, <3>1 DEF Leaves, InValue
    <2>3. b[p] # "afterName" /\ \A k \in 1 .. p : k \in 0 .. p
      BY <1>1, <1>3, <1>7
    <2> QED BY <1>1, <1>3, <1>6, <2>1, <2>2, <2>3 DEF AlikeUpTo, n, m
  <1> DEFINE N == NameStarts(b, n, "name", {"sep", "afterName"})
             M == NameStarts(st, m, "name", {"sep", "afterName"})
  <1>9. N = {i \in 1 .. n : b[i] = "name" /\ b[i - 1] \in {"sep", "afterName"}}
        /\ M = {i \in 1 .. m : st[i] = "name" /\ st[i - 1] \in {"sep", "afterName"}}
    BY DEF NameStarts
  <1> HIDE DEF N, M
  <1>10. \A i \in N : i \in 1 .. p
    <2>1. \A i \in 1 .. n : i \in 1 .. p \/ i \in (p + 1) .. n
      BY <1>1
    <2> QED BY <1>3, <1>9, <2>1
  <1>11. \A i \in M : i \in 1 .. p
    <2>1. \A i \in 1 .. m : i \in 1 .. p \/ i \in (p + 1) .. m
      BY <1>1
    <2> QED BY <1>4, <1>9, <2>1
  <1>12. \A i \in 1 .. p : i \in M <=> i \in N
    <2> TAKE i \in 1 .. p
    <2>1. i \in 0 .. p /\ i - 1 \in 0 .. p /\ i \in 1 .. n /\ i \in 1 .. m
      BY <1>1
    <2> QED BY <1>6, <1>9, <2>1
  <1>13. M = N
    BY <1>10, <1>11, <1>12
  <1>14. ASSUME NEW i \in N PROVE Attribute(y, st, i) = Attribute(t, b, i)
    <2>1. b[i] = "name" /\ i \in 1 .. p
      BY <1>9, <1>10, <1>14
    <2> QED BY <1>8, <2>1, SameAttribute
  <1>15. Attributes(t, Nameless) = {Attribute(t, b, i) : i \in N}
    <2>1. DOMAIN t \cap N = N
      BY <1>1, <1>9
    <2> QED BY <1>2, <2>1 DEF Attributes, AttributesAt, N, n
  <1>16. Attributes(y, Nameless) = {Attribute(y, st, i) : i \in M}
    <2>1. DOMAIN y \cap M = M
      BY <1>1, <1>9
    <2> QED BY <1>2, <2>1 DEF Attributes, AttributesAt, M, m
  <1> QED BY <1>13, <1>14, <1>15, <1>16

\* The space that keeps a slash from closing a tag adds no attribute.
LEMMA SpacedReadsAlike ==
    ASSUME NEW V, NEW y \in Seq(V), SelfCloses(y), Sound(Append(y, Space)), Append(y, Space) \in Seq(V)
    PROVE  Attributes(Append(y, Space), Nameless) = Attributes(y, Nameless)
  <1> DEFINE z == Append(y, Space)
             p == Len(y)
  <1>1. p \in Nat \ {0} /\ y[p] = Slash
    BY SelfClosingEnds
  <1>2. Len(z) = p + 1 /\ z[p + 1] = Space /\ \A k \in 1 .. p : z[k] = y[k]
    OBVIOUS
  <1>3. z \in Seq(V) /\ Sound(z)
    OBVIOUS
  <1> HIDE DEF z, p
  <1>4. z[p] # Space /\ y[p] # Space
    <2>1. p \in 1 .. p
      BY <1>1
    <2> QED BY <1>1, <1>2, <2>1, WordsDiffer
  <1>5. Place(z, p, p + 1)
    <2>1. p + 1 \in 0 .. Len(z) /\ p \in 0 .. (p + 1) /\ \A k \in (p + 1) .. (p + 1) : k = p + 1
      BY <1>1, <1>2
    <2> QED BY <1>2, <1>4, <2>1 DEF Place, Room
  <1>6. Place(y, p, p)
    <2>1. p \in 0 .. p /\ \A k : k \notin (p + 1) .. p
      BY <1>1
    <2> QED BY <1>4, <2>1 DEF Place, Room, p
  <1>7. Sound(y)
    <2>1. SameStart(y, z, p)
      BY <1>1, <1>2 DEF SameStart, p
    <2>2. Room(z, p, p + 1)
      BY <1>5 DEF Place
    <2>3. Len(y) = p
      BY DEF p
    <2> QED BY <1>3, <2>1, <2>2, <2>3, BeforePlaceIsSound
  <1>8. Attributes(z, Nameless) = Attributes(y, Nameless)
    BY <1>2, <1>3, <1>5, <1>6, <1>7, AttributesAlike
  <1> QED BY <1>8 DEF z

\* The root of a replacement with its identity is read like the one that the client sent,
\* and without the identity it means the same (InjectRootAIDAt, stripAIDAttribute).
Injected(w, t) ==
    /\ Sound(w) /\ (SelfCloses(w) <=> SelfCloses(t))
    /\ AttrValue(w, Encoding) = AttrValue(t, Encoding)
    /\ Attributes(StripAID(w), Nameless) = Attributes(t, Nameless)

LEMMA InjectedReadsAlike ==
    ASSUME NEW V, TagWords \subseteq V, NEW t \in Seq(V), Bare(t), Sound(t),
           NEW aid \in V, IsAID(aid), NEW w, w = InjectRootAID(t, aid), SlashIsApart(w)
    PROVE  Injected(w, t)
  <1>1. PICK p, end : Borne(w, t, end, end, aid) /\ Place(t, p, end)
                      /\ (end = Len(t) <=> ~SelfCloses(t))
    BY InjectedIsBorne
  <1>2. w \in Seq(V) /\ IsTagText(w)
    <2>1. Stamper(t)
      BY DEF Bare, Stamper
    <2>2. w \in Seq(V) /\ Stamper(w)
      BY <2>1, InjectedTagIsFine
    <2> QED BY <2>2 DEF Stamper
  <1>3. Sound(w) /\ (SelfCloses(w) <=> SelfCloses(t))
    BY <1>1, <1>2, BorneIsSound
  <1>4. p \in 0 .. end /\ end \in 0 .. Len(t) /\ Len(t) \in Nat /\ Room(t, end, end)
        /\ (end = Len(t) \/ (end + 1 = Len(t) /\ SelfCloses(t) /\ t[Len(t)] = Slash))
    BY <1>1 DEF Borne, Place, Room
  <1>5. Gains(w, t)
    <2>1. WalkedAs(w, t, States(Nameless, "sep", w), States(Nameless, "sep", t), p, end + 2)
      BY <1>1, <1>2, <1>3, <1>4, BorneIsRead
    <2> QED BY <1>2, <2>1, WalkedGains
  <1>6. AttrValue(w, Encoding) = AttrValue(t, Encoding)
    <2>1. Encoding # AIDName
      <3>1. Encoding[1] # AIDName[1]
        BY DEF Encoding, AIDName
      <3> QED BY <3>1
    <2> QED BY <1>5, <2>1 DEF Gains, AttrValue
  <1> DEFINE y == StripAID(w)
             n == Len(t)
  <1>7. y \in Seq(V) /\ Squeezed(y, t, p, end)
    <2>1. States(Skipping, "sep", t)[end] \notin Quoted
      BY <1>4, PlaceIsOutside DEF Sound
    <2> QED BY <1>1, <1>2, <1>4, <2>1, BorneIsUndone
  <1>8. SelfCloses(w) => SelfCloses(y)
    BY DEF SlashIsApart
  <1> HIDE DEF y, n
  <1>9. /\ Len(y) = p + (n - end) /\ p \in Nat
        /\ \A k \in 1 .. p : y[k] = t[k]
        /\ \A k \in 1 .. (n - end) : y[p + k] = t[end + k]
    <2>1. p \in Nat
      BY <1>4
    <2> QED BY <1>7, <2>1 DEF Squeezed, n
  <1>10. \/ end = n /\ Len(y) = p
         \/ end # n /\ Len(y) = p + 1 /\ y[p + 1] = Slash /\ SelfCloses(y)
    <2>1. CASE end = n
      BY <1>4, <1>9, <2>1 DEF n
    <2>2. CASE end # n
      <3>1. n - end = 1 /\ 1 \in 1 .. (n - end) /\ end + 1 = n /\ t[end + 1] = Slash
        BY <1>4, <2>2 DEF n
      <3>2. SelfCloses(y)
        BY <1>1, <1>3, <1>8, <2>2 DEF n
      <3> QED BY <1>9, <2>2, <3>1, <3>2
    <2> QED BY <2>1, <2>2
  <1>11. Sound(y)
    <2>1. Room(t, p, end)
      BY <1>1 DEF Place
    <2>2. SameStart(y, t, p)
      BY <1>4, <1>9, <1>10 DEF SameStart
    <2>3. Len(y) = p \/ (Len(y) = p + 1 /\ y[p + 1] = Slash)
      BY <1>10
    <2> QED BY <1>7, <2>1, <2>2, <2>3, BeforePlaceIsSound
  <1>12. Place(y, p, p)
    <2>1. p \in 0 .. p /\ p \in 0 .. Len(y) /\ \A k : k \notin (p + 1) .. p
      BY <1>9, <1>10
    <2>2. p = 0 \/ (p \in 1 .. p /\ t[p] # Space)
      BY <1>1, <1>9 DEF Place
    <2> QED BY <1>9, <1>10, <2>1, <2>2 DEF Place, Room
  <1>13. Attributes(y, Nameless) = Attributes(t, Nameless)
    BY <1>1, <1>7, <1>9, <1>11, <1>12, AttributesAlike
  <1> QED BY <1>3, <1>6, <1>13 DEF Injected, y

===============================================================================
