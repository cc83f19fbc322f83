---------------------------- MODULE ArtifactProofs ----------------------------
(***************************************************************************)
(* Whole documents, on what TagProofs shows of each tag: the scan finds    *)
(* the same elements with and without identities, and a published version  *)
(* is what stamping makes of a text without them.  Last, the replacement   *)
(* of an element: what is published of it, and what it leaves of the       *)
(* elements around it.                                                     *)
(***************************************************************************)
EXTENDS TagProofs

-------------------------------------------------------------------------------
(* What a step of the scan changes of the elements it has found.             *)

Popped(e) == [e EXCEPT !.popped = TRUE]
Closed(e, at) == [e EXCEPT !.close = at]

\* What an element is from the piece that opens it on.
Keeps(e, f) ==
    /\ f.at = e.at /\ f.tag = e.tag /\ f.text = e.text /\ f.ns = e.ns
    /\ f.annotationHTML = e.annotationHTML

LEMMA PoppedElement ==
    ASSUME NEW V, NEW n, NEW e \in ScanElement(V, n)
    PROVE  /\ Keeps(e, Popped(e)) /\ Popped(e).popped = TRUE /\ Popped(e).close = e.close
           /\ Popped(e) = e <=> e.popped = TRUE
  <1>1. e \in [at : 1 .. n, close : 1 .. n, tag : STRING, text : Seq(V), ns : Namespaces,
               popped : BOOLEAN, annotationHTML : BOOLEAN]
    BY DEF ScanElement
  <1>2. Keeps(e, Popped(e)) /\ Popped(e).popped = TRUE /\ Popped(e).close = e.close
    BY <1>1 DEF Keeps, Popped
  <1>3. e.popped = TRUE => Popped(e) = e
    BY <1>1 DEF Popped
  <1>4. Popped(e) = e => e.popped = TRUE
    BY <1>2
  <1> QED BY <1>2, <1>3, <1>4

\* f is e with another end.
Ends(e, at, f) == Keeps(e, f) /\ f.popped = e.popped /\ f.close = at

LEMMA ClosedElement ==
    ASSUME NEW V, NEW n, NEW e \in ScanElement(V, n), NEW at
    PROVE  Ends(e, at, Closed(e, at))
  <1>1. e \in [at : 1 .. n, close : 1 .. n, tag : STRING, text : Seq(V), ns : Namespaces,
               popped : BOOLEAN, annotationHTML : BOOLEAN]
    BY DEF ScanElement
  <1> QED BY <1>1 DEF Keeps, Closed, Ends

Left(s, tag) == {s.stack[k] : k \in Foreign(s, tag)}

\* popForeign marks the elements it leaves.
PopsForeign(s, tag, r) ==
    /\ r.stack = s.stack /\ r.mode = s.mode /\ r.raw = s.raw /\ DOMAIN r.opens = DOMAIN s.opens
    /\ \A i \in DOMAIN s.opens :
          r.opens[i] = IF i \in Left(s, tag) THEN Popped(s.opens[i]) ELSE s.opens[i]
    /\ r = s <=> \A i \in DOMAIN s.opens : i \in Left(s, tag) => s.opens[i].popped = TRUE

LEMMA PopForeignEffect ==
    ASSUME NEW V, NEW n, NEW s \in Scan(V, n), NEW tag
    PROVE  PopsForeign(s, tag, PopForeign(s, tag))
  <1> DEFINE L == Left(s, tag)
             o == [i \in DOMAIN s.opens |-> IF i \in L THEN Popped(s.opens[i]) ELSE s.opens[i]]
             r == PopForeign(s, tag)
  <1>1. r = [s EXCEPT !.opens = o]
    BY DEF PopForeign, Left, Popped
  <1>2. s = [opens |-> s.opens, stack |-> s.stack, mode |-> s.mode, raw |-> s.raw]
        /\ s.opens \in Seq(ScanElement(V, n))
    BY ScanOf
  <1>3. \A i \in DOMAIN s.opens : s.opens[i] \in ScanElement(V, n)
    BY <1>2
  <1> HIDE DEF L
  <1>4. DOMAIN o = DOMAIN s.opens
        /\ \A i \in DOMAIN s.opens : o[i] = IF i \in L THEN Popped(s.opens[i]) ELSE s.opens[i]
    OBVIOUS
  <1>5. o = s.opens <=> \A i \in DOMAIN s.opens : i \in L => s.opens[i].popped = TRUE
    <2>1. ASSUME o = s.opens, NEW i \in DOMAIN s.opens, i \in L PROVE s.opens[i].popped = TRUE
      <3>1. Popped(s.opens[i]) = s.opens[i]
        BY <1>4, <2>1
      <3> QED BY <1>3, <3>1, PoppedElement
    <2>2. ASSUME \A i \in DOMAIN s.opens : i \in L => s.opens[i].popped = TRUE PROVE o = s.opens
      <3>1. ASSUME NEW i \in DOMAIN s.opens PROVE o[i] = s.opens[i]
        <4>1. i \in L => s.opens[i].popped = TRUE
          BY <2>2
        <4>2. s.opens[i] \in ScanElement(V, n)
          BY <1>3
        <4>3. s.opens[i].popped = TRUE => Popped(s.opens[i]) = s.opens[i]
          <5> DEFINE e == s.opens[i]
          <5>1. e \in ScanElement(V, n)
            BY <4>2
          <5> HIDE DEF e
          <5>2. e.popped = TRUE => Popped(e) = e
            BY <5>1, PoppedElement
          <5> QED BY <5>2 DEF e
        <4> QED BY <1>4, <4>1, <4>3
      <3>2. s.opens = [i \in DOMAIN s.opens |-> s.opens[i]] /\ o = [i \in DOMAIN s.opens |-> o[i]]
        BY <1>2
      <3> HIDE DEF o
      <3> QED BY <3>1, <3>2
    <2> QED BY <2>1, <2>2
  <1> HIDE DEF o, r
  <1>6. r.opens = o /\ r.stack = s.stack /\ r.mode = s.mode /\ r.raw = s.raw /\ (r = s <=> o = s.opens)
    BY <1>1, <1>2
  <1> QED BY <1>4, <1>5, <1>6 DEF PopsForeign, L, r

\* A close tag gives its element an end.
ClosesAt(s, k, at, r) ==
    /\ r.stack = SubSeq(s.stack, 1, k - 1) /\ r.mode = s.mode /\ r.raw = s.raw
    /\ DOMAIN r.opens = DOMAIN s.opens
    /\ \A i \in DOMAIN s.opens :
          r.opens[i] = IF i = s.stack[k] THEN Closed(s.opens[i], at) ELSE s.opens[i]

LEMMA CloseAtEffect ==
    ASSUME NEW V, NEW n, NEW s \in Scan(V, n), NEW at, NEW k \in DOMAIN s.stack
    PROVE  ClosesAt(s, k, at, CloseAt(s, k, at))
  <1> DEFINE j == s.stack[k]
             e == Closed(s.opens[j], at)
             o == [s.opens EXCEPT ![j] = e]
             stack == SubSeq(s.stack, 1, k - 1)
             r == CloseAt(s, k, at)
  <1>1. s = [opens |-> s.opens, stack |-> s.stack, mode |-> s.mode, raw |-> s.raw]
        /\ s.opens \in Seq(ScanElement(V, n)) /\ j \in DOMAIN s.opens
    BY ScanOf
  <1>2. r = [s EXCEPT !.opens = o, !.stack = stack]
    BY DEF CloseAt, Closed
  <1>3. DOMAIN o = DOMAIN s.opens
        /\ \A i \in DOMAIN s.opens : o[i] = IF i = j THEN Closed(s.opens[i], at) ELSE s.opens[i]
    <2> HIDE DEF j
    <2> QED BY <1>1
  <1> HIDE DEF o, stack, r
  <1>4. r.opens = o /\ r.stack = stack /\ r.mode = s.mode /\ r.raw = s.raw
    BY <1>1, <1>2
  <1> QED BY <1>3, <1>4 DEF ClosesAt, r, stack

\* An open tag adds an element.
Pushes(s, piece, at, ns, r) ==
    LET n      == Len(s.opens) + 1
        raw    == ns = "html" /\ piece.tag \in rawTextTags
        pushed == /\ ~raw
                  /\ ~(ns # "html" /\ SelfCloses(piece.text))
                  /\ ~(ns = "html" /\ piece.tag \in voidTags)
    IN  /\ DOMAIN s.opens = 1 .. Len(s.opens) /\ Len(s.opens) \in Nat /\ DOMAIN r.opens = 1 .. n
        /\ \A i \in DOMAIN s.opens : r.opens[i] = s.opens[i]
        /\ r.opens[n] = NewElement(piece, at, ns)
        /\ r.stack = IF pushed THEN Append(s.stack, n) ELSE s.stack
        /\ r.mode = IF raw THEN "raw" ELSE "data"
        /\ r.raw = IF raw THEN n ELSE 0

LEMMA PushEffect ==
    ASSUME NEW V, NEW n, NEW s \in Scan(V, n), NEW piece \in Page(V), piece.kind = "open",
           NEW at \in 1 .. n, NEW ns \in Namespaces
    PROVE  Pushes(s, piece, at, ns, PushElement(s, piece, at, ns))
  <1> DEFINE m      == Len(s.opens) + 1
             raw    == ns = "html" /\ piece.tag \in rawTextTags
             pushed == /\ ~raw
                       /\ ~(ns # "html" /\ SelfCloses(piece.text))
                       /\ ~(ns = "html" /\ piece.tag \in voidTags)
             e      == NewElement(piece, at, ns)
             o      == Append(s.opens, e)
             stack  == IF pushed THEN Append(s.stack, m) ELSE s.stack
             mode   == IF raw THEN "raw" ELSE "data"
             rawAt  == IF raw THEN m ELSE 0
             r      == PushElement(s, piece, at, ns)
  <1>1. s.opens \in Seq(ScanElement(V, n))
        /\ s = [opens |-> s.opens, stack |-> s.stack, mode |-> s.mode, raw |-> s.raw]
    BY ScanOf
  <1>2. e \in ScanElement(V, n)
    BY NewElementTyped
  <1>3. r = [s EXCEPT !.opens = o, !.stack = stack, !.mode = mode, !.raw = rawAt]
    BY DEF PushElement
  <1> HIDE DEF e
  <1>4. /\ DOMAIN s.opens = 1 .. Len(s.opens) /\ Len(s.opens) \in Nat /\ DOMAIN o = 1 .. m
        /\ \A i \in DOMAIN s.opens : o[i] = s.opens[i]
        /\ o[m] = e
    BY <1>1, <1>2
  <1> HIDE DEF o, stack, mode, rawAt, r
  <1>5. r.opens = o /\ r.stack = stack /\ r.mode = mode /\ r.raw = rawAt
    BY <1>1, <1>3
  <1> QED BY <1>4, <1>5 DEF Pushes, e, stack, mode, rawAt, r

-------------------------------------------------------------------------------
(* Two scans in step: the tags of the two texts differ, and the scan does not *)
(* notice.                                                                   *)

Twins(e, f) ==
    /\ f.at = e.at /\ f.close = e.close /\ f.tag = e.tag /\ f.ns = e.ns
    /\ f.popped = e.popped /\ f.annotationHTML = e.annotationHTML

Like(q, r) ==
    /\ r.stack = q.stack /\ r.mode = q.mode /\ r.raw = q.raw /\ DOMAIN r.opens = DOMAIN q.opens
    /\ \A i \in DOMAIN q.opens : Twins(q.opens[i], r.opens[i])

LEMMA NamespaceAlike ==
    ASSUME NEW e, NEW f, Twins(e, f), NEW tag
    PROVE  NamespaceForChild(e, tag) = NamespaceForChild(f, tag)
  BY DEF Twins, NamespaceForChild, IntegrationPoint

LEMMA LeftAlike ==
    ASSUME NEW V, NEW n, NEW q \in Scan(V, n), NEW r \in Scan(V, n), Like(q, r), NEW tag
    PROVE  Left(q, tag) = Left(r, tag)
  <1>1. q.stack \in Seq(Nat) /\ \A k \in DOMAIN q.stack : q.stack[k] \in DOMAIN q.opens
    BY ScanOf
  <1>2. r.stack = q.stack /\ \A i \in DOMAIN q.opens : Twins(q.opens[i], r.opens[i])
    BY DEF Like
  <1>3. ASSUME NEW j \in DOMAIN q.stack
        PROVE  NamespaceForChild(q.opens[q.stack[j]], tag) = NamespaceForChild(r.opens[q.stack[j]], tag)
    <2> DEFINE i == q.stack[j]
    <2>1. i \in DOMAIN q.opens
      BY <1>1
    <2> HIDE DEF i
    <2>2. Twins(q.opens[i], r.opens[i])
      BY <1>2, <2>1
    <2>3. NamespaceForChild(q.opens[i], tag) = NamespaceForChild(r.opens[i], tag)
      BY <2>2, NamespaceAlike
    <2> QED BY <2>3 DEF i
  <1>4. \A k \in DOMAIN q.stack : \A j \in k .. Len(q.stack) : j \in DOMAIN q.stack
    BY <1>1
  <1>5. Foreign(q, tag) = Foreign(r, tag)
    BY <1>2, <1>3, <1>4 DEF Foreign
  <1> QED BY <1>2, <1>5 DEF Left

LEMMA PopAlike ==
    ASSUME NEW V, NEW n, NEW q \in Scan(V, n), NEW r \in Scan(V, n), Like(q, r), NEW tag
    PROVE  /\ Like(PopForeign(q, tag), PopForeign(r, tag))
           /\ PopForeign(q, tag) = q <=> PopForeign(r, tag) = r
  <1> DEFINE x == PopForeign(q, tag)
             y == PopForeign(r, tag)
             L == Left(q, tag)
  <1>1. PopsForeign(q, tag, x) /\ PopsForeign(r, tag, y) /\ Left(r, tag) = L
    BY PopForeignEffect, LeftAlike
  <1>2. /\ r.stack = q.stack /\ r.mode = q.mode /\ r.raw = q.raw /\ DOMAIN r.opens = DOMAIN q.opens
        /\ \A i \in DOMAIN q.opens : Twins(q.opens[i], r.opens[i])
    BY DEF Like
  <1>3. /\ \A i \in DOMAIN q.opens : q.opens[i] \in ScanElement(V, n)
        /\ \A i \in DOMAIN r.opens : r.opens[i] \in ScanElement(V, n)
    BY ScanOf
  <1> HIDE DEF x, y, L
  <1>4. ASSUME NEW i \in DOMAIN q.opens PROVE Twins(x.opens[i], y.opens[i])
    <2> DEFINE e == q.opens[i]
               f == r.opens[i]
    <2>1. e \in ScanElement(V, n) /\ f \in ScanElement(V, n) /\ Twins(e, f)
      BY <1>2, <1>3
    <2>2. /\ x.opens[i] = IF i \in L THEN Popped(e) ELSE e
          /\ y.opens[i] = IF i \in L THEN Popped(f) ELSE f
      BY <1>1, <1>2 DEF PopsForeign, L
    <2> HIDE DEF e, f
    <2>3. Keeps(e, Popped(e)) /\ Popped(e).popped = TRUE /\ Popped(e).close = e.close
      BY <2>1, PoppedElement
    <2>4. Keeps(f, Popped(f)) /\ Popped(f).popped = TRUE /\ Popped(f).close = f.close
      BY <2>1, PoppedElement
    <2>5. Twins(Popped(e), Popped(f))
      BY <2>1, <2>3, <2>4 DEF Twins, Keeps
    <2> QED BY <2>1, <2>2, <2>5
  <1>5. Like(x, y)
    BY <1>1, <1>2, <1>4 DEF PopsForeign, Like
  <1>6. x = q <=> y = r
    <2>1. \A i \in DOMAIN q.opens : r.opens[i].popped = q.opens[i].popped
      BY <1>2 DEF Twins
    <2>2. x = q <=> \A i \in DOMAIN q.opens : i \in L => q.opens[i].popped = TRUE
      BY <1>1 DEF PopsForeign, L
    <2>3. y = r <=> \A i \in DOMAIN r.opens : i \in L => r.opens[i].popped = TRUE
      BY <1>1 DEF PopsForeign, L
    <2> QED BY <1>2, <2>1, <2>2, <2>3
  <1> QED BY <1>5, <1>6 DEF x, y

LEMMA CloseAtAlike ==
    ASSUME NEW V, NEW n, NEW q \in Scan(V, n), NEW r \in Scan(V, n), Like(q, r), NEW at,
           NEW k \in DOMAIN q.stack
    PROVE  Like(CloseAt(q, k, at), CloseAt(r, k, at))
  <1> DEFINE x == CloseAt(q, k, at)
             y == CloseAt(r, k, at)
             j == q.stack[k]
  <1>1. /\ r.stack = q.stack /\ r.mode = q.mode /\ r.raw = q.raw /\ DOMAIN r.opens = DOMAIN q.opens
        /\ \A i \in DOMAIN q.opens : Twins(q.opens[i], r.opens[i])
    BY DEF Like
  <1>2. ClosesAt(q, k, at, x) /\ ClosesAt(r, k, at, y) /\ r.stack[k] = j
    BY <1>1, CloseAtEffect
  <1>3. /\ \A i \in DOMAIN q.opens : q.opens[i] \in ScanElement(V, n)
        /\ \A i \in DOMAIN r.opens : r.opens[i] \in ScanElement(V, n)
    BY ScanOf
  <1> HIDE DEF x, y, j
  <1>4. ASSUME NEW i \in DOMAIN q.opens PROVE Twins(x.opens[i], y.opens[i])
    <2> DEFINE e == q.opens[i]
               f == r.opens[i]
    <2>1. e \in ScanElement(V, n) /\ f \in ScanElement(V, n) /\ Twins(e, f)
      BY <1>1, <1>3
    <2>2. /\ x.opens[i] = IF i = j THEN Closed(e, at) ELSE e
          /\ y.opens[i] = IF i = j THEN Closed(f, at) ELSE f
      BY <1>1, <1>2 DEF ClosesAt, j
    <2> HIDE DEF e, f
    <2>3. Ends(e, at, Closed(e, at))
      BY <2>1, ClosedElement
    <2>4. Ends(f, at, Closed(f, at))
      BY <2>1, ClosedElement
    <2>5. Twins(Closed(e, at), Closed(f, at))
      BY <2>1, <2>3, <2>4 DEF Twins, Keeps, Ends
    <2> QED BY <2>1, <2>2, <2>5
  <1>5. Like(x, y)
    BY <1>1, <1>2, <1>4 DEF ClosesAt, Like
  <1> QED BY <1>5 DEF x, y

LEMMA CloseTagAlike ==
    ASSUME NEW V, NEW n, NEW q \in Scan(V, n), NEW r \in Scan(V, n), Like(q, r), NEW at, NEW tag
    PROVE  Like(CloseTag(q, tag, at), CloseTag(r, tag, at))
  <1> DEFINE same == {k \in DOMAIN q.stack : q.opens[q.stack[k]].tag = tag}
             Popping(s) == IF ~(Len(q.stack) \in same) /\ tag \in {"p", "br"}
                           THEN PopForeign(s, tag) ELSE s
             k == CHOOSE i \in same : \A j \in same : j <= i
             x == Popping(q)
             y == Popping(r)
  <1>1. q.stack \in Seq(Nat) /\ \A i \in DOMAIN q.stack : q.stack[i] \in DOMAIN q.opens
    BY ScanOf
  <1>2. /\ r.stack = q.stack
        /\ \A i \in DOMAIN q.opens : Twins(q.opens[i], r.opens[i])
    BY DEF Like
  <1>3. {i \in DOMAIN r.stack : r.opens[r.stack[i]].tag = tag} = same
    BY <1>1, <1>2 DEF Twins
  <1>4. CloseTag(q, tag, at) = IF (x # q /\ tag = "br") \/ same = {} THEN x ELSE CloseAt(x, k, at)
    BY DEF CloseTag
  <1>5. CloseTag(r, tag, at) = IF (y # r /\ tag = "br") \/ same = {} THEN y ELSE CloseAt(y, k, at)
    <2> DEFINE found == {i \in DOMAIN r.stack : r.opens[r.stack[i]].tag = tag}
               pop == IF ~(Len(r.stack) \in found) /\ tag \in {"p", "br"} THEN PopForeign(r, tag) ELSE r
    <2>1. CloseTag(r, tag, at) = IF (pop # r /\ tag = "br") \/ found = {} THEN pop
                                 ELSE CloseAt(pop, CHOOSE i \in found : \A j \in found : j <= i, at)
      BY DEF CloseTag
    <2>2. found = same
      BY <1>3
    <2> HIDE DEF found, same
    <2>3. pop = y
      BY <1>2, <2>2
    <2> HIDE DEF pop, y
    <2> QED BY <2>1, <2>2, <2>3
  <1>6. ASSUME same # {} PROVE k \in same
    <2>2. same \in SUBSET Nat /\ Len(q.stack) \in Nat /\ \A i \in same : i <= Len(q.stack)
      BY <1>1
    <2> HIDE DEF same
    <2>3. \E i \in same : \A j \in same : j <= i
      BY <1>6, <2>2, GreatestOf
    <2> QED BY <2>3
  <1>7. Like(x, y) /\ (x = q <=> y = r)
    BY PopAlike
  <1>8. x \in Scan(V, n) /\ y \in Scan(V, n) /\ x.stack = q.stack
    BY PopForeignTyped
  <1>9. same # {} => k \in DOMAIN x.stack
    BY <1>6, <1>8
  <1> HIDE DEF x, y, k, same
  <1>10. same # {} => Like(CloseAt(x, k, at), CloseAt(y, k, at))
    BY <1>7, <1>8, <1>9, CloseAtAlike
  <1> QED BY <1>4, <1>5, <1>7, <1>10

\* Two pieces that the scan takes alike.
PiecesAlike(a, b) ==
    /\ b.kind = a.kind
    /\ a.kind # "open" => b = a
    /\ a.kind = "open" => b.tag = a.tag /\ AttrValue(b.text, Encoding) = AttrValue(a.text, Encoding)

LEMMA PushAlike ==
    ASSUME NEW V, NEW n, NEW q \in Scan(V, n), NEW r \in Scan(V, n), Like(q, r),
           NEW a \in Page(V), NEW b \in Page(V), PiecesAlike(a, b), a.kind = "open",
           NEW at \in 1 .. n, NEW ns \in Namespaces,
           ns # "html" => (SelfCloses(a.text) <=> SelfCloses(b.text))
    PROVE  Like(PushElement(q, a, at, ns), PushElement(r, b, at, ns))
  <1> DEFINE x == PushElement(q, a, at, ns)
             y == PushElement(r, b, at, ns)
             m == Len(q.opens) + 1
             e == NewElement(a, at, ns)
             f == NewElement(b, at, ns)
  <1>1. /\ r.stack = q.stack /\ r.mode = q.mode /\ r.raw = q.raw /\ DOMAIN r.opens = DOMAIN q.opens
        /\ \A i \in DOMAIN q.opens : Twins(q.opens[i], r.opens[i])
    BY DEF Like
  <1>2. b.kind = "open" /\ b.tag = a.tag /\ AttrValue(b.text, Encoding) = AttrValue(a.text, Encoding)
    BY DEF PiecesAlike
  <1>3. Pushes(q, a, at, ns, x) /\ Pushes(r, b, at, ns, y)
    BY <1>2, PushEffect
  <1>4. Twins(e, f)
    BY <1>2 DEF NewElement, Twins
  <1> HIDE DEF x, y, e, f
  <1>5. Len(r.opens) = Len(q.opens)
    <2>1. q.opens \in Seq(ScanElement(V, n)) /\ r.opens \in Seq(ScanElement(V, n))
      BY ScanOf
    <2> QED BY <1>1, <2>1
  <1>6. /\ DOMAIN q.opens = 1 .. (m - 1) /\ m \in Nat /\ DOMAIN x.opens = 1 .. m
        /\ \A i \in DOMAIN q.opens : x.opens[i] = q.opens[i]
        /\ x.opens[m] = e
    BY <1>3 DEF Pushes, e
  <1>7. /\ DOMAIN y.opens = 1 .. m
        /\ \A i \in DOMAIN r.opens : y.opens[i] = r.opens[i]
        /\ y.opens[m] = f
    BY <1>3, <1>5 DEF Pushes, f
  <1>8. x.stack = y.stack /\ x.mode = y.mode /\ x.raw = y.raw
    BY <1>1, <1>2, <1>3, <1>5 DEF Pushes
  <1> HIDE DEF m
  <1>9. ASSUME NEW i \in 1 .. m PROVE Twins(x.opens[i], y.opens[i])
    <2>1. CASE i = m
      BY <1>4, <1>6, <1>7, <2>1
    <2>2. CASE i # m
      <3>1. i \in DOMAIN q.opens
        BY <1>6, <2>2
      <3> QED BY <1>1, <1>6, <1>7, <3>1
    <2> QED BY <2>1, <2>2
  <1>10. Like(x, y)
    BY <1>6, <1>7, <1>8, <1>9 DEF Like
  <1> QED BY <1>10 DEF x, y

LEMMA OpenAlike ==
    ASSUME NEW V, NEW n, NEW q \in Scan(V, n), NEW r \in Scan(V, n), Like(q, r),
           NEW a \in Page(V), NEW b \in Page(V), PiecesAlike(a, b), a.kind = "open",
           NEW at \in 1 .. n,
           Entered(q, a.tag) # "html" => (SelfCloses(a.text) <=> SelfCloses(b.text))
    PROVE  Like(OpenElement(q, a, at), OpenElement(r, b, at))
  <1> DEFINE tag == a.tag
  <1>1. r.stack = q.stack /\ \A i \in DOMAIN q.opens : Twins(q.opens[i], r.opens[i])
    BY DEF Like
  <1>2. b.kind = "open" /\ b.tag = tag
    BY DEF PiecesAlike
  <1> DEFINE x == Before(q, tag)
             y == Before(r, tag)
             ns == Entered(q, tag)
  <1>3. x \in Scan(V, n) /\ ns \in Namespaces
        /\ OpenElement(q, a, at) = PushElement(x, a, at, ns)
    BY OpenPushes
  <1>4. y \in Scan(V, n) /\ OpenElement(r, b, at) = PushElement(y, b, at, Entered(r, tag))
    BY <1>2, OpenPushes
  <1>5. Inside(q, tag) = Inside(r, tag)
    <2>1. CASE q.stack = <<>>
      BY <1>1, <2>1 DEF Inside
    <2>2. CASE q.stack # <<>>
      <3>1. q.stack \in Seq(Nat) /\ \A k \in DOMAIN q.stack : q.stack[k] \in DOMAIN q.opens
        BY ScanOf
      <3>2. Len(q.stack) \in DOMAIN q.stack
        BY <2>2, <3>1
      <3>3. Twins(Top(q), Top(r))
        BY <1>1, <3>1, <3>2 DEF Top
      <3>4. NamespaceForChild(Top(q), tag) = NamespaceForChild(Top(r), tag)
        BY <3>3, NamespaceAlike
      <3> QED BY <1>1, <2>2, <3>4 DEF Inside
    <2> QED BY <2>1, <2>2
  <1>6. BreaksOut(q, tag) <=> BreaksOut(r, tag)
    BY <1>1, <1>5 DEF BreaksOut
  <1>7. Entered(r, tag) = ns
    BY <1>5, <1>6 DEF Entered
  <1>8. Like(PopForeign(q, tag), PopForeign(r, tag))
    BY PopAlike
  <1>9. Like(x, y)
    BY <1>6, <1>8 DEF Before
  <1>10. ns # "html" => (SelfCloses(a.text) <=> SelfCloses(b.text))
    OBVIOUS
  <1> HIDE DEF x, y, ns, tag
  <1>11. Like(PushElement(x, a, at, ns), PushElement(y, b, at, ns))
    BY <1>3, <1>4, <1>9, <1>10, PushAlike
  <1> QED BY <1>3, <1>4, <1>7, <1>11

\* A close tag ends raw text.
RawClosed(s, at) == [s EXCEPT !.opens[s.raw].close = at, !.mode = "data", !.raw = 0]

RawIsOpen(s) == s.mode = "raw" => s.raw \in DOMAIN s.opens

EndsRaw(s, at, r) ==
    /\ r.stack = s.stack /\ r.mode = "data" /\ r.raw = 0 /\ DOMAIN r.opens = DOMAIN s.opens
    /\ \A i \in DOMAIN s.opens :
          r.opens[i] = IF i = s.raw THEN Closed(s.opens[i], at) ELSE s.opens[i]

LEMMA RawEffect ==
    ASSUME NEW V, NEW n, NEW s \in Scan(V, n), NEW at
    PROVE  EndsRaw(s, at, RawClosed(s, at))
  <1> DEFINE j == s.raw
             e == Closed(s.opens[j], at)
             o == [s.opens EXCEPT ![j] = e]
             r == RawClosed(s, at)
  <1>1. s.opens \in Seq(ScanElement(V, n))
    BY ScanOf
  <1>2. r = [s EXCEPT !.opens = o, !.mode = "data", !.raw = 0]
    BY DEF RawClosed, Closed
  <1>3. DOMAIN o = DOMAIN s.opens
        /\ \A i \in DOMAIN s.opens : o[i] = IF i = j THEN Closed(s.opens[i], at) ELSE s.opens[i]
    <2> HIDE DEF j
    <2> QED BY <1>1
  <1> HIDE DEF o, r
  <1>4. r = [opens |-> o, stack |-> s.stack, mode |-> "data", raw |-> 0]
    BY <1>2, ClosedRaw
  <1> QED BY <1>3, <1>4 DEF EndsRaw, r

\* What a step reads besides the mode stays.
InMode(s, mode, r) == r.opens = s.opens /\ r.stack = s.stack /\ r.raw = s.raw /\ r.mode = mode

LEMMA ModeEffect ==
    ASSUME NEW V, NEW n, NEW s \in Scan(V, n)
    PROVE  /\ InMode(s, "data", [s EXCEPT !.mode = "data"])
           /\ InMode(s, "comment", [s EXCEPT !.mode = "comment"])
  <1>1. s = [opens |-> s.opens, stack |-> s.stack, mode |-> s.mode, raw |-> s.raw]
    BY ScanOf
  <1> QED BY <1>1 DEF InMode

\* The step that the scan takes, by its mode and the piece.
Steps(s, piece, at, r) ==
    \/ s.mode = "comment" /\ piece.kind = "-->" /\ r = [s EXCEPT !.mode = "data"]
    \/ s.mode = "comment" /\ piece.kind # "-->" /\ r = s
    \/ s.mode = "raw" /\ piece = Close(s.opens[s.raw].tag) /\ r = RawClosed(s, at)
    \/ s.mode = "raw" /\ piece # Close(s.opens[s.raw].tag) /\ r = s
    \/ s.mode = "data" /\ piece.kind = "<!--" /\ r = [s EXCEPT !.mode = "comment"]
    \/ s.mode = "data" /\ piece.kind = "open" /\ r = OpenElement(s, piece, at)
    \/ s.mode = "data" /\ piece.kind = "close" /\ r = CloseTag(s, piece.tag, at)
    \/ s.mode = "data" /\ piece.kind \notin {"<!--", "open", "close"} /\ r = s

LEMMA ScanSteps ==
    ASSUME NEW V, NEW n, NEW s \in Scan(V, n), NEW piece, NEW at
    PROVE  Steps(s, piece, at, ScanPiece(s, piece, at))
  <1>1. s.mode \in {"data", "comment", "raw"}
    BY ScanOf
  <1>2. CASE s.mode = "comment"
    BY <1>2 DEF ScanPiece, Steps
  <1>3. CASE s.mode = "raw"
    BY <1>3 DEF ScanPiece, Steps, RawClosed
  <1>4. CASE s.mode = "data" /\ piece.kind = "<!--"
    BY <1>4 DEF ScanPiece, Steps
  <1>5. CASE s.mode = "data" /\ piece.kind = "open"
    BY <1>5 DEF ScanPiece, Steps
  <1>6. CASE s.mode = "data" /\ piece.kind = "close"
    BY <1>6 DEF ScanPiece, Steps
  <1>7. CASE s.mode = "data" /\ piece.kind \notin {"<!--", "open", "close"}
    BY <1>7 DEF ScanPiece, Steps
  <1> QED BY <1>1, <1>2, <1>3, <1>4, <1>5, <1>6, <1>7

LEMMA RawAlike ==
    ASSUME NEW V, NEW n, NEW q \in Scan(V, n), NEW r \in Scan(V, n), Like(q, r), NEW at
    PROVE  Like(RawClosed(q, at), RawClosed(r, at))
  <1> DEFINE x == RawClosed(q, at)
             y == RawClosed(r, at)
             j == q.raw
  <1>1. /\ r.stack = q.stack /\ r.raw = j /\ DOMAIN r.opens = DOMAIN q.opens
        /\ \A i \in DOMAIN q.opens : Twins(q.opens[i], r.opens[i])
    BY DEF Like
  <1>2. EndsRaw(q, at, x) /\ EndsRaw(r, at, y)
    BY RawEffect
  <1>3. /\ \A i \in DOMAIN q.opens : q.opens[i] \in ScanElement(V, n)
        /\ \A i \in DOMAIN r.opens : r.opens[i] \in ScanElement(V, n)
    BY ScanOf
  <1> HIDE DEF x, y, j
  <1>4. ASSUME NEW i \in DOMAIN q.opens PROVE Twins(x.opens[i], y.opens[i])
    <2> DEFINE e == q.opens[i]
               f == r.opens[i]
    <2>1. e \in ScanElement(V, n) /\ f \in ScanElement(V, n) /\ Twins(e, f)
      BY <1>1, <1>3
    <2>2. /\ x.opens[i] = IF i = j THEN Closed(e, at) ELSE e
          /\ y.opens[i] = IF i = j THEN Closed(f, at) ELSE f
      BY <1>1, <1>2 DEF EndsRaw, j
    <2> HIDE DEF e, f
    <2>3. Ends(e, at, Closed(e, at))
      BY <2>1, ClosedElement
    <2>4. Ends(f, at, Closed(f, at))
      BY <2>1, ClosedElement
    <2>5. Twins(Closed(e, at), Closed(f, at))
      BY <2>1, <2>3, <2>4 DEF Twins, Keeps, Ends
    <2> QED BY <2>1, <2>2, <2>5
  <1>5. Like(x, y)
    BY <1>1, <1>2, <1>4 DEF EndsRaw, Like
  <1> QED BY <1>5 DEF x, y

LEMMA PieceAlike ==
    ASSUME NEW V, NEW n, NEW q \in Scan(V, n), NEW r \in Scan(V, n), Like(q, r), RawIsOpen(q),
           NEW a \in Page(V), NEW b \in Page(V), PiecesAlike(a, b), NEW at \in 1 .. n,
           q.mode = "data" /\ a.kind = "open" /\ Entered(q, a.tag) # "html" =>
               (SelfCloses(a.text) <=> SelfCloses(b.text))
    PROVE  Like(ScanPiece(q, a, at), ScanPiece(r, b, at))
  <1> DEFINE x == ScanPiece(q, a, at)
             y == ScanPiece(r, b, at)
  <1>1. /\ r.stack = q.stack /\ r.raw = q.raw /\ r.mode = q.mode /\ DOMAIN r.opens = DOMAIN q.opens
        /\ \A i \in DOMAIN q.opens : Twins(q.opens[i], r.opens[i])
    BY DEF Like
  <1>2. b.kind = a.kind /\ (a.kind # "open" => b = a)
    BY DEF PiecesAlike
  <1>3. Steps(q, a, at, x) /\ Steps(r, b, at, y)
    BY ScanSteps
  <1> HIDE DEF x, y
  <1>4. \A mode : \A c, d : InMode(q, mode, c) /\ InMode(r, mode, d) => Like(c, d)
    BY <1>1 DEF InMode, Like
  <1>5. CASE q.mode = "comment" /\ a.kind = "-->"
    <2>1. x = [q EXCEPT !.mode = "data"] /\ y = [r EXCEPT !.mode = "data"]
      BY <1>1, <1>2, <1>3, <1>5 DEF Steps
    <2>2. InMode(q, "data", x) /\ InMode(r, "data", y)
      BY <2>1, ModeEffect
    <2> QED BY <1>4, <2>2 DEF x, y
  <1>6. CASE q.mode = "comment" /\ a.kind # "-->"
    <2>1. x = q /\ y = r
      BY <1>1, <1>2, <1>3, <1>6 DEF Steps
    <2> QED BY <2>1 DEF x, y
  <1>7. CASE q.mode = "raw"
    <2>1. q.opens[q.raw].tag = r.opens[r.raw].tag
      BY <1>1, <1>7 DEF RawIsOpen, Twins
    <2>2. a = Close(q.opens[q.raw].tag) <=> b = Close(r.opens[r.raw].tag)
      <3>1. CASE a.kind # "open"
        BY <1>2, <2>1, <3>1
      <3>2. CASE a.kind = "open"
        <4>1. \A tag : Close(tag).kind = "close"
          BY DEF Close, Piece
        <4>2. \A tag : a # Close(tag) /\ b # Close(tag)
          BY <1>2, <3>2, <4>1
        <4> QED BY <4>2
      <3> QED BY <3>1, <3>2
    <2>3. CASE a = Close(q.opens[q.raw].tag)
      <3>1. x = RawClosed(q, at) /\ y = RawClosed(r, at)
        BY <1>1, <1>3, <1>7, <2>2, <2>3 DEF Steps
      <3> QED BY <3>1, RawAlike DEF x, y
    <2>4. CASE a # Close(q.opens[q.raw].tag)
      <3>1. x = q /\ y = r
        BY <1>1, <1>3, <1>7, <2>2, <2>4 DEF Steps
      <3> QED BY <3>1 DEF x, y
    <2> QED BY <2>3, <2>4
  <1>8. CASE q.mode = "data" /\ a.kind = "<!--"
    <2>1. x = [q EXCEPT !.mode = "comment"] /\ y = [r EXCEPT !.mode = "comment"]
      BY <1>1, <1>2, <1>3, <1>8 DEF Steps
    <2>2. InMode(q, "comment", x) /\ InMode(r, "comment", y)
      BY <2>1, ModeEffect
    <2> QED BY <1>4, <2>2 DEF x, y
  <1>9. CASE q.mode = "data" /\ a.kind = "open"
    <2>1. x = OpenElement(q, a, at) /\ y = OpenElement(r, b, at)
      BY <1>1, <1>2, <1>3, <1>9 DEF Steps
    <2>2. Entered(q, a.tag) # "html" => (SelfCloses(a.text) <=> SelfCloses(b.text))
      BY <1>9
    <2>3. Like(OpenElement(q, a, at), OpenElement(r, b, at))
      BY <1>9, <2>2, OpenAlike
    <2> QED BY <2>1, <2>3 DEF x, y
  <1>10. CASE q.mode = "data" /\ a.kind = "close"
    <2>1. x = CloseTag(q, a.tag, at) /\ y = CloseTag(r, a.tag, at)
      BY <1>1, <1>2, <1>3, <1>10 DEF Steps
    <2> QED BY <2>1, CloseTagAlike DEF x, y
  <1>11. CASE q.mode = "data" /\ a.kind \notin {"<!--", "open", "close"}
    <2>1. x = q /\ y = r
      BY <1>1, <1>2, <1>3, <1>11 DEF Steps
    <2> QED BY <2>1 DEF x, y
  <1>12. q.mode \in {"data", "comment", "raw"}
    BY ScanOf
  <1> QED BY <1>5, <1>6, <1>7, <1>8, <1>9, <1>10, <1>11, <1>12

-------------------------------------------------------------------------------
(* The elements that the scan finds, in the order of their tags.             *)

Extends(s, r) ==
    /\ DOMAIN s.opens \subseteq DOMAIN r.opens
    /\ \A i \in DOMAIN s.opens : Keeps(s.opens[i], r.opens[i])

\* The element of an open tag.
IsOf(e, piece, at, ns) == e.at = at /\ e.tag = piece.tag /\ e.text = piece.text /\ e.ns = ns

Opens(s, piece) == s.mode = "data" /\ piece.kind = "open"

Grown(s, piece, at, r) ==
    /\ RawIsOpen(r)
    /\ Extends(s, r)
    /\ ~Opens(s, piece) => DOMAIN r.opens = DOMAIN s.opens
    /\ Opens(s, piece) =>
          /\ DOMAIN r.opens = 1 .. (Len(s.opens) + 1)
          /\ IsOf(r.opens[Len(s.opens) + 1], piece, at, Entered(s, piece.tag))

LEMMA PopExtends ==
    ASSUME NEW V, NEW n, NEW s \in Scan(V, n), NEW tag
    PROVE  Extends(s, PopForeign(s, tag))
  <1> DEFINE r == PopForeign(s, tag)
  <1>1. PopsForeign(s, tag, r)
    BY PopForeignEffect
  <1>2. \A i \in DOMAIN s.opens : s.opens[i] \in ScanElement(V, n)
    BY ScanOf
  <1> HIDE DEF r
  <1>3. ASSUME NEW i \in DOMAIN s.opens PROVE Keeps(s.opens[i], r.opens[i])
    <2> DEFINE e == s.opens[i]
    <2>1. e \in ScanElement(V, n)
      BY <1>2
    <2>2. r.opens[i] \in {e, Popped(e)}
      BY <1>1 DEF PopsForeign
    <2> HIDE DEF e
    <2>3. Keeps(e, Popped(e))
      BY <2>1, PoppedElement
    <2>4. Keeps(e, e)
      BY DEF Keeps
    <2> QED BY <2>2, <2>3, <2>4 DEF e
  <1> QED BY <1>1, <1>3 DEF Extends, PopsForeign, r

LEMMA CloseAtExtends ==
    ASSUME NEW V, NEW n, NEW s \in Scan(V, n), NEW at, NEW k \in DOMAIN s.stack
    PROVE  Extends(s, CloseAt(s, k, at)) /\ DOMAIN CloseAt(s, k, at).opens = DOMAIN s.opens
  <1> DEFINE r == CloseAt(s, k, at)
  <1>1. ClosesAt(s, k, at, r)
    BY CloseAtEffect
  <1>2. \A i \in DOMAIN s.opens : s.opens[i] \in ScanElement(V, n)
    BY ScanOf
  <1> HIDE DEF r
  <1>3. ASSUME NEW i \in DOMAIN s.opens PROVE Keeps(s.opens[i], r.opens[i])
    <2> DEFINE e == s.opens[i]
    <2>1. e \in ScanElement(V, n)
      BY <1>2
    <2>2. r.opens[i] \in {e, Closed(e, at)}
      BY <1>1 DEF ClosesAt
    <2> HIDE DEF e
    <2>3. Ends(e, at, Closed(e, at))
      BY <2>1, ClosedElement
    <2>4. Keeps(e, e)
      BY DEF Keeps
    <2> QED BY <2>2, <2>3, <2>4 DEF e, Ends
  <1> QED BY <1>1, <1>3 DEF Extends, ClosesAt, r

LEMMA ExtendsOn ==
    ASSUME NEW s, NEW q, NEW r, Extends(s, q), Extends(q, r)
    PROVE  Extends(s, r)
  BY DEF Extends, Keeps

LEMMA CloseTagExtends ==
    ASSUME NEW V, NEW n, NEW s \in Scan(V, n), NEW at, NEW tag
    PROVE  LET r == CloseTag(s, tag, at) IN
           Extends(s, r) /\ DOMAIN r.opens = DOMAIN s.opens /\ r.mode = s.mode /\ r.raw = s.raw
  <1> DEFINE same == {k \in DOMAIN s.stack : s.opens[s.stack[k]].tag = tag}
             popped == IF ~(Len(s.stack) \in same) /\ tag \in {"p", "br"} THEN PopForeign(s, tag) ELSE s
             k == CHOOSE i \in same : \A j \in same : j <= i
             c == CloseAt(popped, k, at)
  <1>1. /\ popped \in Scan(V, n) /\ popped.stack = s.stack
        /\ DOMAIN popped.opens = DOMAIN s.opens
        /\ popped.mode = s.mode /\ popped.raw = s.raw
    <2> DEFINE x == PopForeign(s, tag)
    <2>1. PopsForeign(s, tag, x)
      BY PopForeignEffect
    <2>2. x \in Scan(V, n)
      BY PopForeignTyped
    <2>3. popped = x \/ popped = s
      OBVIOUS
    <2> HIDE DEF x, popped
    <2> QED BY <2>1, <2>2, <2>3 DEF PopsForeign
  <1>2. ASSUME same # {} PROVE k \in same
    <2>1. s.stack \in Seq(Nat)
      BY ScanOf
    <2>2. same \in SUBSET Nat /\ Len(s.stack) \in Nat /\ \A i \in same : i <= Len(s.stack)
      BY <2>1
    <2> HIDE DEF same
    <2>3. \E i \in same : \A j \in same : j <= i
      BY <1>2, <2>2, GreatestOf
    <2> QED BY <2>3
  <1>3. same # {} => k \in DOMAIN popped.stack
    BY <1>1, <1>2
  <1>4. CloseTag(s, tag, at) \in {popped, c}
        /\ (same = {} => CloseTag(s, tag, at) = popped)
    BY DEF CloseTag
  <1>5. Extends(s, s)
    BY DEF Extends, Keeps
  <1>6. Extends(s, popped)
    BY <1>5, PopExtends
  <1> HIDE DEF popped, k, same
  <1>7. same # {} => /\ Extends(popped, c) /\ DOMAIN c.opens = DOMAIN popped.opens
                     /\ c.mode = popped.mode /\ c.raw = popped.raw
    <2> SUFFICES ASSUME same # {}
                 PROVE  /\ Extends(popped, c) /\ DOMAIN c.opens = DOMAIN popped.opens
                        /\ c.mode = popped.mode /\ c.raw = popped.raw
      OBVIOUS
    <2>1. k \in DOMAIN popped.stack
      BY <1>3
    <2>2. Extends(popped, c) /\ DOMAIN c.opens = DOMAIN popped.opens
      BY <1>1, <2>1, CloseAtExtends
    <2>3. ClosesAt(popped, k, at, c)
      BY <1>1, <2>1, CloseAtEffect
    <2> QED BY <2>2, <2>3 DEF ClosesAt
  <1> HIDE DEF c
  <1>8. same # {} => Extends(s, c)
    BY <1>6, <1>7, ExtendsOn
  <1> QED BY <1>1, <1>4, <1>6, <1>7, <1>8

LEMMA OpenGrows ==
    ASSUME NEW V, NEW n, NEW s \in Scan(V, n), NEW piece \in Page(V), piece.kind = "open",
           NEW at \in 1 .. n
    PROVE  LET r == OpenElement(s, piece, at) IN
           /\ RawIsOpen(r) /\ Extends(s, r)
           /\ DOMAIN r.opens = 1 .. (Len(s.opens) + 1)
           /\ IsOf(r.opens[Len(s.opens) + 1], piece, at, Entered(s, piece.tag))
  <1> DEFINE b == Before(s, piece.tag)
             ns == Entered(s, piece.tag)
             r == PushElement(b, piece, at, ns)
             m == Len(b.opens) + 1
  <1>1. b \in Scan(V, n) /\ ns \in Namespaces /\ OpenElement(s, piece, at) = r
    BY OpenPushes
  <1>2. Extends(s, s)
    BY DEF Extends, Keeps
  <1>3. Extends(s, b) /\ DOMAIN b.opens = DOMAIN s.opens
    BY <1>2, PopExtends, PopForeignTyped DEF Before
  <1> HIDE DEF b, ns
  <1>4. Len(b.opens) = Len(s.opens)
    <2>1. b.opens \in Seq(ScanElement(V, n)) /\ s.opens \in Seq(ScanElement(V, n))
      BY <1>1, ScanOf
    <2> QED BY <1>3, <2>1
  <1>5. Pushes(b, piece, at, ns, r)
    BY <1>1, PushEffect
  <1> HIDE DEF r
  <1>6. /\ DOMAIN b.opens = 1 .. (m - 1) /\ m \in Nat /\ DOMAIN r.opens = 1 .. m
        /\ \A i \in DOMAIN b.opens : r.opens[i] = b.opens[i]
        /\ r.opens[m] = NewElement(piece, at, ns)
    BY <1>5 DEF Pushes
  <1>7. r.mode = "raw" => r.raw = m
    BY <1>5 DEF Pushes
  <1>8. IsOf(NewElement(piece, at, ns), piece, at, ns)
    BY DEF NewElement, IsOf
  <1> HIDE DEF m
  <1>9. m \in DOMAIN r.opens
    <2>1. b.opens \in Seq(ScanElement(V, n))
      BY <1>1, ScanOf
    <2>2. m \in 1 .. m
      BY <2>1 DEF m
    <2> QED BY <1>6, <2>2
  <1>10. RawIsOpen(r)
    BY <1>7, <1>9 DEF RawIsOpen
  <1>11. Extends(b, r)
    <2>1. \A i \in 1 .. (m - 1) : i \in 1 .. m
      BY <1>6
    <2> QED BY <1>6, <2>1 DEF Extends, Keeps
  <1>12. Extends(s, r)
    BY <1>3, <1>11, ExtendsOn
  <1> QED BY <1>1, <1>4, <1>6, <1>8, <1>10, <1>12 DEF m, ns

LEMMA PieceGrows ==
    ASSUME NEW V, NEW n, NEW s \in Scan(V, n), RawIsOpen(s), NEW piece \in Page(V),
           NEW at \in 1 .. n
    PROVE  Grown(s, piece, at, ScanPiece(s, piece, at))
  <1> DEFINE r == ScanPiece(s, piece, at)
  <1>1. Steps(s, piece, at, r)
    BY ScanSteps
  <1> HIDE DEF r
  <1>2. CASE Opens(s, piece)
    <2>1. r = OpenElement(s, piece, at)
      BY <1>1, <1>2 DEF Steps, Opens
    <2>2. piece.kind = "open"
      BY <1>2 DEF Opens
    <2>3. /\ RawIsOpen(r) /\ Extends(s, r)
          /\ DOMAIN r.opens = 1 .. (Len(s.opens) + 1)
          /\ IsOf(r.opens[Len(s.opens) + 1], piece, at, Entered(s, piece.tag))
      BY <2>1, <2>2, OpenGrows
    <2> QED BY <1>2, <2>3 DEF Grown, r
  <1>3. ASSUME ~Opens(s, piece)
        PROVE  RawIsOpen(r) /\ Extends(s, r) /\ DOMAIN r.opens = DOMAIN s.opens
    <2>1. CASE r = s
      BY <2>1 DEF Extends, Keeps
    <2>2. CASE r = [s EXCEPT !.mode = "data"] \/ r = [s EXCEPT !.mode = "comment"]
      <3>1. CASE r = [s EXCEPT !.mode = "data"]
        <4>1. r.opens = s.opens /\ r.mode = "data"
          BY <3>1, ModeEffect DEF InMode
        <4> QED BY <4>1 DEF Extends, Keeps, RawIsOpen
      <3>2. CASE r = [s EXCEPT !.mode = "comment"]
        <4>1. r.opens = s.opens /\ r.mode = "comment"
          BY <3>2, ModeEffect DEF InMode
        <4> QED BY <4>1 DEF Extends, Keeps, RawIsOpen
      <3> QED BY <2>2, <3>1, <3>2
    <2>3. CASE r = RawClosed(s, at)
      <3>1. EndsRaw(s, at, r)
        BY <2>3, RawEffect
      <3>2. ASSUME NEW i \in DOMAIN s.opens PROVE Keeps(s.opens[i], r.opens[i])
        <4> DEFINE e == s.opens[i]
        <4>1. e \in ScanElement(V, n)
          BY ScanOf
        <4>2. r.opens[i] \in {e, Closed(e, at)}
          BY <3>1 DEF EndsRaw
        <4> HIDE DEF e
        <4>3. Ends(e, at, Closed(e, at)) /\ Keeps(e, e)
          BY <4>1, ClosedElement DEF Keeps
        <4> QED BY <4>2, <4>3 DEF e, Ends
      <3> QED BY <3>1, <3>2 DEF EndsRaw, Extends, RawIsOpen
    <2>4. CASE s.mode = "data" /\ r = CloseTag(s, piece.tag, at)
      <3>1. Extends(s, r) /\ DOMAIN r.opens = DOMAIN s.opens /\ r.mode = s.mode /\ r.raw = s.raw
        BY <2>4, CloseTagExtends
      <3> QED BY <2>4, <3>1 DEF RawIsOpen
    <2> QED BY <1>1, <1>3, <2>1, <2>2, <2>3, <2>4 DEF Steps, Opens
  <1> QED BY <1>2, <1>3 DEF Grown, r

\* Elements of the first n pieces of a text, in their order.
OfPieces(opens, text, n) ==
    /\ \A i \in DOMAIN opens :
          /\ opens[i].at \in 1 .. n
          /\ text[opens[i].at].kind = "open"
          /\ opens[i].tag = text[opens[i].at].tag
          /\ opens[i].text = text[opens[i].at].text
    /\ \A i, j \in DOMAIN opens : i < j => opens[i].at < opens[j].at

LEMMA GrownOfPieces ==
    ASSUME NEW V, NEW n, NEW s \in Scan(V, n), NEW text, NEW k \in Nat, OfPieces(s.opens, text, k),
           NEW r, Grown(s, text[k + 1], k + 1, r)
    PROVE  OfPieces(r.opens, text, k + 1)
  <1> DEFINE m == Len(s.opens) + 1
             piece == text[k + 1]
  <1>1. DOMAIN s.opens = 1 .. (m - 1) /\ m \in Nat
    <2>1. s.opens \in Seq(ScanElement(V, n))
      BY ScanOf
    <2> QED BY <2>1
  <1>2. Extends(s, r)
    BY DEF Grown
  <1>3. ASSUME NEW i \in DOMAIN s.opens
        PROVE  /\ r.opens[i].at = s.opens[i].at /\ r.opens[i].at \in 1 .. k
               /\ text[r.opens[i].at].kind = "open"
               /\ r.opens[i].tag = text[r.opens[i].at].tag
               /\ r.opens[i].text = text[r.opens[i].at].text
    BY <1>2 DEF Extends, Keeps, OfPieces
  <1>4. \A i, j \in DOMAIN s.opens : i < j => r.opens[i].at < r.opens[j].at
    BY <1>3 DEF OfPieces
  <1>5. \A x \in 1 .. k : x \in 1 .. (k + 1) /\ x < k + 1
    OBVIOUS
  <1>6. CASE ~Opens(s, piece)
    <2>1. DOMAIN r.opens = DOMAIN s.opens
      BY <1>6 DEF Grown
    <2> QED BY <1>3, <1>4, <1>5, <2>1 DEF OfPieces
  <1>7. CASE Opens(s, piece)
    <2>1. /\ DOMAIN r.opens = 1 .. m
          /\ r.opens[m].at = k + 1 /\ r.opens[m].tag = piece.tag /\ r.opens[m].text = piece.text
          /\ piece.kind = "open"
      BY <1>7 DEF Grown, IsOf, Opens
    <2> HIDE DEF m
    <2>2. \A i \in DOMAIN r.opens : i \in DOMAIN s.opens \/ i = m
      BY <1>1, <2>1
    <2>3. \A i \in DOMAIN s.opens : i < m /\ ~(m < i)
      BY <1>1
    <2>4. k + 1 \in 1 .. (k + 1) /\ ~(m < m)
      BY <1>1
    <2>5. ASSUME NEW i \in DOMAIN r.opens
          PROVE  /\ r.opens[i].at \in 1 .. (k + 1)
                 /\ text[r.opens[i].at].kind = "open"
                 /\ r.opens[i].tag = text[r.opens[i].at].tag
                 /\ r.opens[i].text = text[r.opens[i].at].text
      <3>1. CASE i = m
        BY <2>1, <2>4, <3>1
      <3>2. CASE i \in DOMAIN s.opens
        BY <1>3, <1>5, <3>2
      <3> QED BY <2>2, <3>1, <3>2
    <2>6. ASSUME NEW i \in DOMAIN r.opens, NEW j \in DOMAIN r.opens, i < j
          PROVE  r.opens[i].at < r.opens[j].at
      <3>1. i \in DOMAIN s.opens
        BY <2>2, <2>3, <2>4, <2>6
      <3>2. CASE j = m
        BY <1>3, <1>5, <2>1, <3>1, <3>2
      <3>3. CASE j \in DOMAIN s.opens
        BY <1>4, <2>6, <3>1, <3>3
      <3> QED BY <2>2, <3>2, <3>3
    <2> QED BY <2>5, <2>6 DEF OfPieces
  <1> QED BY <1>6, <1>7

\* A run of the scan grows piece by piece.
GrowingRun(u, V, text) ==
    /\ \A k \in 0 .. Len(text) :
          u[k] \in Scan(V, Len(text)) /\ RawIsOpen(u[k]) /\ OfPieces(u[k].opens, text, k)
    /\ \A k \in 1 .. Len(text) : Grown(u[k - 1], text[k], k, u[k])

LEMMA RunGrows ==
    ASSUME NEW V, NEW text \in Seq(Page(V)), NEW u, ScanRun(u, V, text)
    PROVE  GrowingRun(u, V, text)
  <1> DEFINE n == Len(text)
             T == {k \in Nat : RawIsOpen(u[k]) /\ OfPieces(u[k].opens, text, k)}
  <1>1. n \in Nat /\ \A i \in 1 .. n : text[i] \in Page(V)
    OBVIOUS
  <1>2. /\ u[0] = NewScan
        /\ \A i \in 1 .. n : u[i] = ScanPiece(u[i - 1], text[i], i)
        /\ \A i \in 0 .. n : u[i] \in Scan(V, n)
    BY DEF ScanRun
  <1> HIDE DEF n
  <1>3. 0 \in T
    <2>1. u[0].opens = <<>> /\ u[0].mode = "data" /\ DOMAIN <<>> = {}
      BY <1>2 DEF NewScan
    <2> QED BY <2>1 DEF RawIsOpen, OfPieces
  <1>4. ASSUME NEW k \in 0 .. (n - 1), RawIsOpen(u[k])
        PROVE  Grown(u[k], text[k + 1], k + 1, u[k + 1])
    <2> DEFINE j == k + 1
    <2>1. j \in 1 .. n /\ j - 1 = k /\ k \in 0 .. n
      BY <1>1
    <2> HIDE DEF j
    <2>2. u[j] = ScanPiece(u[k], text[j], j) /\ u[k] \in Scan(V, n) /\ text[j] \in Page(V)
      BY <1>1, <1>2, <2>1
    <2>3. Grown(u[k], text[j], j, u[j])
      BY <1>4, <2>1, <2>2, PieceGrows
    <2> QED BY <2>3 DEF j
  <1>5. ASSUME NEW k \in 0 .. (n - 1), k \in T PROVE k + 1 \in T
    <2>1. k \in Nat /\ k + 1 \in Nat /\ u[k] \in Scan(V, n)
      BY <1>1, <1>2
    <2>2. RawIsOpen(u[k]) /\ OfPieces(u[k].opens, text, k)
      BY <1>5
    <2>3. Grown(u[k], text[k + 1], k + 1, u[k + 1])
      BY <1>4, <2>2
    <2>4. OfPieces(u[k + 1].opens, text, k + 1)
      BY <2>1, <2>2, <2>3, GrownOfPieces
    <2>5. RawIsOpen(u[k + 1])
      BY <2>3 DEF Grown
    <2> QED BY <2>1, <2>4, <2>5
  <1>6. \A k \in 0 .. n : k \in T
    <2> HIDE DEF T
    <2> QED BY <1>1, <1>3, <1>5, InductUpTo
  <1>7. ASSUME NEW k \in 1 .. n PROVE Grown(u[k - 1], text[k], k, u[k])
    <2> DEFINE j == k - 1
    <2>1. j \in 0 .. (n - 1) /\ j + 1 = k /\ j \in 0 .. n
      BY <1>1
    <2> HIDE DEF j
    <2>2. Grown(u[j], text[j + 1], j + 1, u[j + 1])
      BY <1>4, <1>6, <2>1
    <2> QED BY <2>1, <2>2 DEF j
  <1> QED BY <1>2, <1>6, <1>7 DEF GrowingRun, n

\* The elements of a text are its open tags at their places.
LEMMA ElementsFound ==
    ASSUME NEW V, NEW text \in Seq(Page(V))
    PROVE  OfPieces(scanOpenTags(text), text, Len(text))
  <1>1. PICK u : ScanRun(u, V, text)
    BY ScanRuns
  <1>2. GrowingRun(u, V, text)
    BY <1>1, RunGrows
  <1>3. Len(text) \in 0 .. Len(text)
    OBVIOUS
  <1> QED BY <1>1, <1>2, <1>3 DEF GrowingRun, ScanRun

\* What the scan found, it keeps.
LEMMA RunKeeps ==
    ASSUME NEW V, NEW text \in Seq(Page(V)), NEW u, GrowingRun(u, V, text),
           NEW k \in 0 .. Len(text)
    PROVE  Extends(u[k], u[Len(text)])
  <1> DEFINE n == Len(text)
             T == {d \in Nat : Extends(u[k], u[k + d])}
  <1>1. n \in Nat /\ k \in 0 .. n
    OBVIOUS
  <1> HIDE DEF n
  <1>2. 0 \in T
    <2>1. k + 0 = k
      BY <1>1
    <2> QED BY <2>1 DEF Extends, Keeps
  <1>3. ASSUME NEW d \in 0 .. ((n - k) - 1), d \in T PROVE d + 1 \in T
    <2> DEFINE j == k + (d + 1)
    <2>1. j \in 1 .. n /\ j - 1 = k + d /\ d + 1 \in Nat
      BY <1>1
    <2>2. Extends(u[k], u[k + d])
      BY <1>3
    <2> HIDE DEF j
    <2>3. Extends(u[j - 1], u[j])
      BY <2>1 DEF GrowingRun, Grown, n
    <2>4. Extends(u[k], u[j])
      BY <2>1, <2>2, <2>3, ExtendsOn
    <2> QED BY <2>1, <2>4 DEF j
  <1>4. n - k \in Nat /\ n - k \in 0 .. (n - k) /\ k + (n - k) = n
    BY <1>1
  <1>5. n - k \in T
    <2> HIDE DEF T
    <2> DEFINE m == n - k
    <2>1. m \in Nat /\ m \in 0 .. m /\ \A d \in 0 .. (m - 1) : d \in T => d + 1 \in T
      BY <1>3, <1>4
    <2> HIDE DEF m
    <2>2. m \in T
      BY <1>2, <2>1, InductUpTo
    <2> QED BY <2>2 DEF m
  <1> QED BY <1>4, <1>5 DEF n

\* Every open tag that the scan takes for an element is one at the end.
LEMMA EnteredIsFound ==
    ASSUME NEW V, NEW text \in Seq(Page(V)), NEW u, GrowingRun(u, V, text),
           NEW k \in 1 .. Len(text), Opens(u[k - 1], text[k])
    PROVE  \E i \in DOMAIN u[Len(text)].opens :
              LET e == u[Len(text)].opens[i] IN
              e.at = k /\ e.ns = Entered(u[k - 1], text[k].tag)
  <1> DEFINE n == Len(text)
             m == Len(u[k - 1].opens) + 1
  <1>1. k \in 0 .. n /\ k - 1 \in 0 .. n
    OBVIOUS
  <1>2. Extends(u[k], u[n])
    BY <1>1, RunKeeps
  <1>3. u[k - 1] \in Scan(V, n)
    BY <1>1 DEF GrowingRun
  <1>4. m \in 1 .. m
    <2>1. u[k - 1].opens \in Seq(ScanElement(V, n))
      BY <1>3, ScanOf
    <2> QED BY <2>1
  <1>5. DOMAIN u[k].opens = 1 .. m /\ IsOf(u[k].opens[m], text[k], k, Entered(u[k - 1], text[k].tag))
    BY DEF GrowingRun, Grown
  <1> HIDE DEF n, m
  <1>6. m \in DOMAIN u[n].opens /\ Keeps(u[k].opens[m], u[n].opens[m])
    BY <1>2, <1>4, <1>5 DEF Extends
  <1> QED BY <1>5, <1>6 DEF IsOf, Keeps, n

\* The tags of two texts differ, but neither in what they are nor, where a tag may
\* close itself, in whether it does.
AlikeTexts(s, w) ==
    /\ Len(w) = Len(s)
    /\ \A k \in 1 .. Len(s) : PiecesAlike(s[k], w[k])
    /\ \A i \in DOMAIN scanOpenTags(s) :
          LET e == scanOpenTags(s)[i] IN
          e.ns # "html" => (SelfCloses(s[e.at].text) <=> SelfCloses(w[e.at].text))

TwinElements(o, p) == DOMAIN p = DOMAIN o /\ \A i \in DOMAIN o : Twins(o[i], p[i])

LEMMA TwinScans ==
    ASSUME NEW V, NEW s \in Seq(Page(V)), NEW w \in Seq(Page(V)), AlikeTexts(s, w)
    PROVE  TwinElements(scanOpenTags(s), scanOpenTags(w))
  <1> DEFINE n == Len(s)
  <1>1. PICK u : ScanRun(u, V, s)
    BY ScanRuns
  <1>2. PICK v : ScanRun(v, V, w)
    BY ScanRuns
  <1>3. GrowingRun(u, V, s) /\ n \in Nat /\ Len(w) = n
    BY <1>1, RunGrows DEF AlikeTexts
  <1>4. /\ u[0] = NewScan /\ v[0] = NewScan
        /\ \A i \in 1 .. n : u[i] = ScanPiece(u[i - 1], s[i], i) /\ v[i] = ScanPiece(v[i - 1], w[i], i)
        /\ \A i \in 0 .. n : u[i] \in Scan(V, n) /\ v[i] \in Scan(V, n) /\ RawIsOpen(u[i])
        /\ scanOpenTags(s) = u[n].opens /\ scanOpenTags(w) = v[n].opens
    BY <1>1, <1>2, <1>3 DEF ScanRun, GrowingRun
  <1>5. \A i \in 1 .. n : s[i] \in Page(V) /\ w[i] \in Page(V) /\ PiecesAlike(s[i], w[i])
    BY <1>3 DEF AlikeTexts
  <1> DEFINE T == {k \in Nat : Like(u[k], v[k])}
  <1>6. 0 \in T
    BY <1>4 DEF Like, Twins
  <1>7. ASSUME NEW k \in 0 .. (n - 1), k \in T PROVE k + 1 \in T
    <2> DEFINE j == k + 1
    <2>1. j \in 1 .. n /\ j - 1 = k /\ k \in 0 .. n /\ j \in Nat
      BY <1>3
    <2> HIDE DEF j
    <2>2. /\ u[j] = ScanPiece(u[k], s[j], j) /\ v[j] = ScanPiece(v[k], w[j], j)
          /\ u[k] \in Scan(V, n) /\ v[k] \in Scan(V, n) /\ RawIsOpen(u[k])
      BY <1>4, <2>1
    <2>3. Like(u[k], v[k])
      BY <1>7
    <2>4. ASSUME Opens(u[k], s[j]), Entered(u[k], s[j].tag) # "html"
          PROVE  SelfCloses(s[j].text) <=> SelfCloses(w[j].text)
      <3>1. PICK i \in DOMAIN u[n].opens :
                u[n].opens[i].at = j /\ u[n].opens[i].ns = Entered(u[j - 1], s[j].tag)
        BY <1>3, <2>1, <2>4, EnteredIsFound DEF n
      <3> QED BY <1>4, <2>1, <2>4, <3>1 DEF AlikeTexts
    <2>5. s[j] \in Page(V) /\ w[j] \in Page(V) /\ PiecesAlike(s[j], w[j])
      BY <1>5, <2>1
    <2> HIDE DEF n
    <2>6. Like(u[j], v[j])
      BY <2>1, <2>2, <2>3, <2>4, <2>5, PieceAlike DEF Opens
    <2> QED BY <2>1, <2>6 DEF j
  <1>8. n \in T
    <2> HIDE DEF T, n
    <2>1. n \in 0 .. n
      BY <1>3
    <2> QED BY <1>3, <1>6, <1>7, <2>1, InductUpTo
  <1> QED BY <1>4, <1>8 DEF Like, TwinElements

-------------------------------------------------------------------------------
(* What a rewriting does to each piece, and what each element becomes.       *)

WithText(piece, t) == [piece EXCEPT !.text = t]

Apart(elements, n) ==
    /\ \A i \in DOMAIN elements : elements[i].at \in 1 .. n
    /\ \A i, j \in DOMAIN elements : i < j => elements[i].at < elements[j].at

\* The first k elements are rewritten.
Rewritten(text, elements, k, r) ==
    /\ Len(r) = Len(text)
    /\ \A i \in 1 .. k : r[elements[i].at] = WithText(text[elements[i].at], elements[i].text)
    /\ \A j \in 1 .. Len(text) : (\A i \in 1 .. k : elements[i].at # j) => r[j] = text[j]

LEMMA RewrittenEach ==
    ASSUME NEW V, NEW text \in Seq(Page(V)), NEW E, NEW elements \in Seq(E),
           \A i \in DOMAIN elements :
              elements[i].text \in Seq(V) /\ Fine(elements[i].text),
           Apart(elements, Len(text))
    PROVE  Rewritten(text, elements, Len(elements), Rewrite(text, elements))
  <1> DEFINE n == Len(elements)
             l == Len(text)
  <1>1. PICK u : RewriteRun(u, V, text, elements)
    BY RewriteRuns
  <1>2. /\ Rewrite(text, elements) = u[n] /\ u[0] = text
        /\ \A i \in 1 .. n : u[i] = [u[i - 1] EXCEPT ![elements[i].at].text = elements[i].text]
        /\ \A i \in 0 .. n : u[i] \in Seq(Page(V))
    BY <1>1 DEF RewriteRun
  <1>3. n \in Nat /\ l \in Nat /\ DOMAIN elements = 1 .. n
    OBVIOUS
  <1>4. /\ \A i \in 1 .. n : elements[i].at \in 1 .. l
        /\ \A i, j \in 1 .. n : i < j => elements[i].at < elements[j].at
    BY <1>3 DEF Apart
  <1> HIDE DEF n, l
  <1> DEFINE T == {k \in Nat : Rewritten(text, elements, k, u[k])}
  <1>5. 0 \in T
    BY <1>2 DEF Rewritten
  <1>6. ASSUME NEW k \in 0 .. (n - 1), k \in T PROVE k + 1 \in T
    <2> DEFINE m == k + 1
               at == elements[m].at
               piece == WithText(u[k][at], elements[m].text)
    <2>1. m \in 1 .. n /\ m - 1 = k /\ k \in 0 .. n /\ m \in Nat /\ k \in Nat
          /\ \A i \in 1 .. m : i \in 1 .. k \/ i = m
      BY <1>3
    <2>2. \A i \in 1 .. k : i \in 1 .. n /\ i < m /\ i \in 1 .. m
      BY <1>3, <2>1
    <2> HIDE DEF m
    <2>3. u[m] = [u[k] EXCEPT ![at] = piece]
      BY <1>2, <2>1 DEF WithText
    <2>4. Rewritten(text, elements, k, u[k])
      BY <1>6
    <2>5. u[k] \in Seq(Page(V)) /\ Len(u[k]) = l /\ DOMAIN u[k] = 1 .. l
      <3>1. u[k] \in Seq(Page(V)) /\ Len(u[k]) = l
        BY <1>2, <2>1, <2>4 DEF Rewritten, l
      <3> QED BY <3>1
    <2>6. at \in 1 .. l /\ \A i \in 1 .. k : elements[i].at # at
      <3>1. at \in 1 .. l /\ \A i \in 1 .. k : elements[i].at < at /\ elements[i].at \in 1 .. l
        BY <1>4, <2>1, <2>2
      <3> QED BY <1>3, <3>1
    <2>7. u[k][at] = text[at]
      BY <2>4, <2>6 DEF Rewritten, l
    <2> HIDE DEF at, piece
    <2>8. u[m] \in Seq(Page(V))
      BY <1>2, <1>3, <2>1
    <2>9. Len(u[m]) = l /\ u[m][at] = piece /\ \A j \in 1 .. l : j # at => u[m][j] = u[k][j]
      <3>1. DOMAIN u[m] = DOMAIN u[k]
        BY <2>3
      <3>2. Len(u[m]) = l
        BY <1>3, <2>5, <2>8, <3>1
      <3> QED BY <2>3, <2>5, <2>6, <3>2
    <2>10. \A i \in 1 .. m : u[m][elements[i].at] = WithText(text[elements[i].at], elements[i].text)
      <3> TAKE i \in 1 .. m
      <3>1. CASE i = m
        BY <2>7, <2>9, <3>1 DEF piece, at
      <3>2. CASE i \in 1 .. k
        <4>1. elements[i].at # at /\ elements[i].at \in 1 .. l
          BY <1>4, <2>2, <2>6, <3>2
        <4>2. u[m][elements[i].at] = u[k][elements[i].at]
          BY <2>9, <4>1
        <4> QED BY <2>4, <3>2, <4>2 DEF Rewritten
      <3> QED BY <2>1, <3>1, <3>2
    <2>11. ASSUME NEW j \in 1 .. l, \A i \in 1 .. m : elements[i].at # j PROVE u[m][j] = text[j]
      <3>1. j # at /\ \A i \in 1 .. k : elements[i].at # j
        <4>1. m \in 1 .. m
          BY <2>1
        <4> QED BY <2>2, <2>11, <4>1 DEF at
      <3>2. u[k][j] = text[j]
        BY <2>4, <3>1 DEF Rewritten, l
      <3> QED BY <2>9, <3>1, <3>2
    <2>12. Rewritten(text, elements, m, u[m])
      BY <2>9, <2>10, <2>11 DEF Rewritten, l
    <2> QED BY <2>1, <2>12 DEF m
  <1>7. n \in T
    <2> HIDE DEF T
    <2>1. n \in 0 .. n
      BY <1>3
    <2> QED BY <1>3, <1>5, <1>6, <2>1, InductUpTo
  <1> QED BY <1>2, <1>7 DEF n

-------------------------------------------------------------------------------
(* A text whose elements bear no identity, and what stamping makes of it.    *)

\* A tag without an identity stays as it is when the identities are taken out.
LEMMA BareStays ==
    ASSUME NEW V, NEW t \in Seq(V), Bare(t)
    PROVE  StripAID(t) = t
  <1>1. Identities(t) = {}
    <2> SUFFICES ASSUME NEW a \in Identities(t) PROVE FALSE
      OBVIOUS
    <2>1. a.from \in 1 .. Len(t) /\ t[a.from] = AIDName /\ ~Longer(t, a.from)
      BY IdentityAt
    <2>2. a.from \in DOMAIN t
      BY <2>1
    <2> QED BY <2>1, <2>2 DEF Bare
  <1>2. StripAID(t) = Subsequence(t, DOMAIN t)
    <2>1. UNION {Dropped(t, a) : a \in Identities(t)} = {}
      BY <1>1
    <2>2. DOMAIN t \ {} = DOMAIN t
      OBVIOUS
    <2> QED BY <2>1, <2>2 DEF StripAID, Identities
  <1> QED BY <1>2, AllPicked

\* What stamping makes of the tag of an element: the readers find the identity in it and
\* what they found before, and the identity comes out as it went in.
StampOf(x, e, aid) ==
    /\ Sound(x)
    /\ AidValues(x) = {<<aid>>}
    /\ StripAID(x) = e.text
    /\ HasOptInMarker(x) <=> HasOptInMarker(e.text)
    /\ AttrValue(x, Encoding) = AttrValue(e.text, Encoding)
    /\ e.ns # "html" \/ e.tag \in voidTags => (SelfCloses(x) <=> SelfCloses(e.text))

\* The artifact of an element.
ArtifactOf(a, e) ==
    a.at = e.at /\ a.tag = e.tag /\ a.aid[1] = "aid" /\ StampOf(a.text, e, a.aid)

LEMMA BareIsStamped ==
    ASSUME NEW V, TagWords \subseteq V, NEW e, e.text \in Seq(V), Bare(e.text), Sound(e.text),
           NEW text, NEW headings
    PROVE  ArtifactOf(Artifact(text, e, headings, NoAID, NoPin), e)
  <1> DEFINE t == e.text
             aid == aidFor(e.tag, Inner(text, e), t)
             c == \/ IsVoid(e) /\ SelfCloses(t)
                  \/ e.ns # "html" /\ CloseEnd(e) = e.at /\ SelfCloses(t)
             a == Artifact(text, e, headings, NoAID, NoPin)
             W == V \cup {aid}
             x == StampedOpenTag(t, aid, c)
  <1>1. StripAID(t) = t
    BY BareStays
  <1>2. IsAID(aid) /\ aid[1] = "aid" /\ aid # NoAID
    <2>1. aid = <<"aid", e.tag, Intrinsics(t), Content(Inner(text, e))>>
      BY DEF aidFor
    <2>2. IsAID(aid)
      BY <2>1, HashIsAID
    <2>3. aid[1] = "aid"
      BY <2>1
    <2>4. Len(aid) = 4
      BY <2>1
    <2>5. Len(NoAID) = 1
      BY DEF NoAID
    <2> HIDE DEF aid
    <2>6. Len(aid) # Len(NoAID)
      BY <2>4, <2>5
    <2>7. aid # NoAID
      BY <2>6, Zenon
    <2> QED BY <2>2, <2>3, <2>7
  <1>3. saltAwayFromPinned(e.tag, Inner(text, e), t, NoAID) = aid
    BY <1>2 DEF saltAwayFromPinned
  <1>4. a.at = e.at /\ a.tag = e.tag /\ a.aid = aid /\ a.text = x
    BY <1>1, <1>3 DEF Artifact
  <1>5. e.ns # "html" \/ e.tag \in voidTags => (SelfCloses(t) => c)
    BY DEF IsVoid, CloseEnd
  <1> HIDE DEF a, aid, c
  <1>6. TagWords \subseteq W /\ aid \in W /\ V \subseteq W
    OBVIOUS
  <1> HIDE DEF W
  <1>7. t \in Seq(W)
    BY <1>6, SeqGrows
  <1> HIDE DEF x
  <1>8. AidValues(x) = {<<aid>>}
    BY <1>2, <1>6, <1>7, StampedIsFound DEF x
  <1>9. StripAID(x) = t
    BY <1>2, <1>6, <1>7, StampIsUndone DEF x, Sound
  <1>10. /\ Sound(x) /\ (SelfCloses(x) <=> c /\ SelfCloses(t))
         /\ HasOptInMarker(x) <=> HasOptInMarker(t)
         /\ AttrValue(x, Encoding) = AttrValue(t, Encoding)
    BY <1>2, <1>6, <1>7, StampedReadsAsBare DEF x
  <1>11. StampOf(x, e, aid)
    BY <1>5, <1>8, <1>9, <1>10 DEF StampOf
  <1> QED BY <1>2, <1>4, <1>11 DEF ArtifactOf, a

LEMMA WithTextOf ==
    ASSUME NEW V, NEW piece \in Page(V), NEW t
    PROVE  /\ WithText(piece, t).kind = piece.kind
           /\ WithText(piece, t).tag = piece.tag
           /\ WithText(piece, t).text = t
           /\ WithText(WithText(piece, t), piece.text) = piece
           /\ WithText(piece, piece.text) = piece
  BY DEF WithText, Page

\* The elements that are harvested where none is pinned.
ToHarvest(opens) == {i \in DOMAIN opens : IsHarvested(opens[i])}

Harvests(text, by) ==
    Picks(by, scanOpenTags(text), ToHarvest(scanOpenTags(text)), Harvest(text, NoPin))

LEMMA HarvestPicks ==
    ASSUME NEW V, NEW text \in Seq(Page(V))
    PROVE  \E by : Harvests(text, by)
  <1> DEFINE opens == scanOpenTags(text)
             S == {i \in DOMAIN opens : opens[i].at = NoPin \/ IsHarvested(opens[i])}
             n == Len(opens)
  <1>1. opens \in Seq(ScanElement(V, Len(text))) /\ OfPieces(opens, text, Len(text))
    BY ElementsTyped, ElementsFound
  <1>2. Harvest(text, NoPin) = Subsequence(opens, S)
    BY DEF Harvest
  <1> HIDE DEF opens
  <1>3. DOMAIN opens = 1 .. n
    BY <1>1
  <1>4. ASSUME NEW i \in DOMAIN opens PROVE opens[i].at # NoPin
    <2>1. opens[i].at \in 1 .. Len(text)
      BY <1>1 DEF OfPieces
    <2> QED BY <2>1 DEF NoPin
  <1>5. S \cap (1 .. n) = ToHarvest(opens)
    BY <1>3, <1>4 DEF ToHarvest
  <1> HIDE DEF S, n
  <1>6. \E by : Picks(by, opens, S \cap (1 .. n), Subsequence(opens, S))
    BY <1>1, SubsequencePicks DEF n
  <1> QED BY <1>2, <1>5, <1>6 DEF Harvests, opens

\* What is picked from elements that are apart is apart.
LEMMA PicksApart ==
    ASSUME NEW n, NEW opens, Apart(opens, n), NEW K, K \subseteq DOMAIN opens,
           NEW V, NEW h \in Seq(V), NEW by, Picks(by, opens, K, h)
    PROVE  Apart(h, n)
  <1>1. DOMAIN h = 1 .. Len(h)
    OBVIOUS
  <1>2. \A i \in DOMAIN h : by[i] \in DOMAIN opens /\ h[i] = opens[by[i]]
    BY <1>1 DEF Picks
  <1>3. \A i, j \in DOMAIN h : i < j => by[i] < by[j]
    BY <1>1 DEF Picks
  <1> QED BY <1>2, <1>3 DEF Apart

\* The elements of a text are apart, and a harvested one is found among them.
LEMMA HarvestApart ==
    ASSUME NEW V, NEW text \in Seq(Page(V))
    PROVE  /\ Apart(scanOpenTags(text), Len(text))
           /\ Apart(Harvest(text, NoPin), Len(text))
  <1> DEFINE opens == scanOpenTags(text)
             h == Harvest(text, NoPin)
  <1>1. Apart(opens, Len(text))
    BY ElementsFound DEF OfPieces, Apart
  <1>2. h \in Seq(ScanElement(V, Len(text)))
    BY HarvestTyped
  <1>3. PICK by : Picks(by, opens, ToHarvest(opens), h)
    BY HarvestPicks DEF Harvests
  <1>4. ToHarvest(opens) \subseteq DOMAIN opens
    BY DEF ToHarvest
  <1> HIDE DEF opens, h
  <1>5. Apart(h, Len(text))
    BY <1>1, <1>2, <1>3, <1>4, PicksApart
  <1> QED BY <1>1, <1>5 DEF opens, h

\* A text whose elements bear no identity, in tags that the readers of the code agree
\* about.
BareElements(opens) == \A i \in DOMAIN opens : Bare(opens[i].text) /\ Sound(opens[i].text)

PlainText(s, V) ==
    TagWords \subseteq V /\ s \in Seq(Page(V)) /\ BareElements(scanOpenTags(s))

\* Its artifacts, and the text that is stamped with them.
ArtifactsIn(s) == ArtifactsOf(s, Harvest(s, NoPin), collectHeadings(s), NoAID, NoPin)

StampedAs(s, w, a, W) ==
    /\ TagWords \subseteq W
    /\ s \in Seq(Page(W)) /\ w \in Seq(Page(W)) /\ Len(w) = Len(s)
    /\ DOMAIN a = DOMAIN Harvest(s, NoPin)
    /\ \A i \in DOMAIN a : ArtifactOf(a[i], Harvest(s, NoPin)[i])
    /\ \A i \in DOMAIN a : w[a[i].at] = WithText(s[a[i].at], a[i].text)
    /\ \A j \in 1 .. Len(s) : (\A i \in DOMAIN a : a[i].at # j) => w[j] = s[j]

LEMMA PlainIsStamped ==
    ASSUME NEW V, NEW s, PlainText(s, V)
    PROVE  \E W : StampedAs(s, Rewrite(s, ArtifactsIn(s)), ArtifactsIn(s), W)
  <1> DEFINE opens == scanOpenTags(s)
             h == Harvest(s, NoPin)
             a == ArtifactsIn(s)
             n == Len(s)
             m == Len(h)
  <1>1. TagWords \subseteq V /\ s \in Seq(Page(V)) /\ BareElements(opens)
    BY DEF PlainText
  <1>2. h \in Seq(ScanElement(V, n))
    BY <1>1, HarvestTyped
  <1>3. PICK by : Picks(by, opens, ToHarvest(opens), h)
    BY <1>1, HarvestPicks DEF Harvests
  <1>4. Apart(h, n)
    BY <1>1, HarvestApart
  <1>5. PICK R, W : V \subseteq W /\ AllFine(a, R, W)
    BY <1>1, <1>2, ArtifactsAreFine DEF ArtifactsIn
  <1>6. AreArtifacts(a, s, h, collectHeadings(s), NoAID, NoPin)
    BY <1>2, ArtifactsEach DEF ArtifactsIn
  <1> HIDE DEF opens, h, a, n
  <1>7. a \in Seq(R) /\ Len(a) = m /\ m \in Nat /\ DOMAIN a = 1 .. m /\ DOMAIN h = 1 .. m
    <2>1. a \in Seq(R) /\ Len(a) = m
      BY <1>5, <1>6 DEF AllFine, AreArtifacts
    <2> QED BY <1>2, <2>1
  <1>8. \A i \in DOMAIN a : a[i].text \in Seq(W) /\ Fine(a[i].text)
    <2>1. \A i \in DOMAIN a : a[i] \in R
      BY <1>7
    <2> QED BY <1>5, <2>1 DEF AllFine
  <1>9. ASSUME NEW i \in DOMAIN a PROVE ArtifactOf(a[i], h[i])
    <2> DEFINE e == h[i]
    <2>1. e \in ScanElement(V, n)
      BY <1>2, <1>7
    <2>2. by[i] \in DOMAIN opens /\ e = opens[by[i]]
      BY <1>3, <1>7 DEF Picks, ToHarvest
    <2>3. a[i] = Artifact(s, e, collectHeadings(s), NoAID, NoPin)
      BY <1>6, <1>7 DEF AreArtifacts, m
    <2> HIDE DEF e
    <2>4. e.text \in Seq(V) /\ Bare(e.text) /\ Sound(e.text)
      BY <1>1, <2>1, <2>2 DEF ScanElement, BareElements
    <2>5. ArtifactOf(a[i], e)
      BY <1>1, <2>3, <2>4, BareIsStamped
    <2> QED BY <2>5 DEF e
  <1>10. Apart(a, n)
    BY <1>4, <1>7, <1>9 DEF Apart, ArtifactOf
  <1>11. s \in Seq(Page(W)) /\ TagWords \subseteq W
    BY <1>1, <1>5, PageGrows
  <1> DEFINE w == Rewrite(s, a)
  <1>12. w \in Seq(Page(W))
    BY <1>7, <1>8, <1>11, RewrittenPage
  <1>13. Rewritten(s, a, Len(a), w)
    BY <1>7, <1>8, <1>10, <1>11, RewrittenEach DEF n
  <1> HIDE DEF w
  <1>14. Len(w) = Len(s)
         /\ (\A i \in DOMAIN a : w[a[i].at] = WithText(s[a[i].at], a[i].text))
         /\ (\A j \in 1 .. Len(s) : (\A i \in DOMAIN a : a[i].at # j) => w[j] = s[j])
    BY <1>7, <1>13 DEF Rewritten
  <1>15. StampedAs(s, w, a, W)
    BY <1>7, <1>9, <1>11, <1>12, <1>14 DEF StampedAs, h
  <1> QED BY <1>15 DEF w, a

\* What becomes of the tag of an element.
TagStamped(s, w, a, o) ==
    /\ IsHarvested(o) =>
          \E m \in DOMAIN a : /\ Harvest(s, NoPin)[m] = o
                              /\ w[o.at] = WithText(s[o.at], a[m].text)
                              /\ StampOf(a[m].text, o, a[m].aid)
    /\ ~IsHarvested(o) => w[o.at] = s[o.at]

LEMMA TagsStamped ==
    ASSUME NEW V, NEW s \in Seq(Page(V)), NEW w, NEW a, NEW W, StampedAs(s, w, a, W),
           NEW j \in DOMAIN scanOpenTags(s)
    PROVE  TagStamped(s, w, a, scanOpenTags(s)[j])
  <1> DEFINE opens == scanOpenTags(s)
             h == Harvest(s, NoPin)
             o == opens[j]
             n == Len(s)
  <1>1. PICK by : Picks(by, opens, ToHarvest(opens), h)
    BY HarvestPicks DEF Harvests
  <1>2. Apart(opens, n)
    BY HarvestApart
  <1>3. h \in Seq(ScanElement(V, n)) /\ opens \in Seq(ScanElement(V, n))
    BY HarvestTyped, ElementsTyped
  <1>4. /\ DOMAIN a = DOMAIN h
        /\ \A i \in DOMAIN a : ArtifactOf(a[i], h[i])
        /\ \A i \in DOMAIN a : w[a[i].at] = WithText(s[a[i].at], a[i].text)
        /\ \A k \in 1 .. n : (\A i \in DOMAIN a : a[i].at # k) => w[k] = s[k]
    BY DEF StampedAs
  <1>5. j \in DOMAIN opens
    OBVIOUS
  <1> HIDE DEF opens, h, n
  <1>6. \A i \in DOMAIN h : by[i] \in ToHarvest(opens) /\ h[i] = opens[by[i]]
    <2>1. DOMAIN h = 1 .. Len(h)
      BY <1>3
    <2> QED BY <1>1, <2>1 DEF Picks
  <1>7. CASE IsHarvested(o)
    <2>1. j \in ToHarvest(opens)
      BY <1>5, <1>7 DEF ToHarvest
    <2>2. PICK m \in DOMAIN h : by[m] = j
      <3>1. DOMAIN h = 1 .. Len(h)
        BY <1>3
      <3> QED BY <1>1, <2>1, <3>1 DEF Picks
    <2>3. h[m] = o /\ m \in DOMAIN a
      BY <1>4, <1>6, <2>2
    <2> HIDE DEF o
    <2>4. a[m].at = o.at /\ StampOf(a[m].text, o, a[m].aid)
      BY <1>4, <2>3 DEF ArtifactOf
    <2>5. w[o.at] = WithText(s[o.at], a[m].text)
      BY <1>4, <2>3, <2>4
    <2> QED BY <1>7, <2>3, <2>4, <2>5 DEF TagStamped, h, o, opens
  <1>8. CASE ~IsHarvested(o)
    <2>1. ASSUME NEW i \in DOMAIN a, a[i].at = o.at PROVE FALSE
      <3>1. h[i].at = o.at /\ by[i] \in DOMAIN opens /\ h[i] = opens[by[i]] /\ IsHarvested(opens[by[i]])
        BY <1>4, <1>6, <2>1 DEF ArtifactOf, ToHarvest
      <3>2. by[i] # j
        BY <1>8, <3>1
      <3>3. by[i] < j \/ j < by[i]
        <4>1. DOMAIN opens = 1 .. Len(opens) /\ Len(opens) \in Nat
          BY <1>3
        <4>2. by[i] \in Nat /\ j \in Nat
          BY <1>5, <3>1, <4>1
        <4> QED BY <3>2, <4>2
      <3>4. opens[by[i]].at < o.at \/ o.at < opens[by[i]].at
        BY <1>2, <1>5, <3>1, <3>3 DEF Apart
      <3>5. opens[by[i]].at \in Nat /\ o.at \in Nat
        <4>1. n \in Nat /\ opens[by[i]].at \in 1 .. n /\ o.at \in 1 .. n
          BY <1>2, <1>5, <3>1 DEF Apart, n
        <4> QED BY <4>1
      <3> QED BY <3>1, <3>4, <3>5
    <2>2. o.at \in 1 .. n
      BY <1>2, <1>5 DEF Apart
    <2>3. w[o.at] = s[o.at]
      BY <1>4, <2>1, <2>2
    <2> QED BY <1>8, <2>3 DEF TagStamped, o, opens
  <1> QED BY <1>7, <1>8

\* A piece that is no element's tag stays as it is.
LEMMA OthersStay ==
    ASSUME NEW V, NEW s \in Seq(Page(V)), NEW w, NEW a, NEW W, StampedAs(s, w, a, W),
           NEW k \in 1 .. Len(s), \A j \in DOMAIN scanOpenTags(s) : scanOpenTags(s)[j].at # k
    PROVE  w[k] = s[k]
  <1> DEFINE opens == scanOpenTags(s)
             h == Harvest(s, NoPin)
  <1>1. PICK by : Picks(by, opens, ToHarvest(opens), h)
    BY HarvestPicks DEF Harvests
  <1>2. h \in Seq(ScanElement(V, Len(s)))
    BY HarvestTyped
  <1>3. ASSUME NEW i \in DOMAIN a PROVE a[i].at # k
    <2>1. i \in DOMAIN h /\ a[i].at = h[i].at
      BY DEF StampedAs, ArtifactOf
    <2> HIDE DEF opens, h
    <2>2. i \in 1 .. Len(h)
      BY <1>2, <2>1
    <2>3. by[i] \in DOMAIN opens /\ h[i] = opens[by[i]]
      BY <1>1, <2>2 DEF Picks, ToHarvest
    <2> QED BY <2>1, <2>3 DEF opens
  <1> QED BY <1>3 DEF StampedAs

\* The stamped text is scanned like the one that was stamped.
LEMMA StampedIsAlike ==
    ASSUME NEW V, NEW s, PlainText(s, V), NEW w, NEW a, NEW W, StampedAs(s, w, a, W)
    PROVE  AlikeTexts(s, w)
  <1> DEFINE opens == scanOpenTags(s)
             n == Len(s)
  <1>1. s \in Seq(Page(V))
    BY DEF PlainText
  <1>2. s \in Seq(Page(W)) /\ w \in Seq(Page(W)) /\ Len(w) = n
    BY DEF StampedAs
  <1>3. OfPieces(opens, s, n)
    BY <1>1, ElementsFound
  <1>4. ASSUME NEW j \in DOMAIN opens
        PROVE  /\ opens[j].at \in 1 .. n
               /\ PiecesAlike(s[opens[j].at], w[opens[j].at])
               /\ opens[j].ns # "html" => (SelfCloses(s[opens[j].at].text) <=> SelfCloses(w[opens[j].at].text))
    <2> DEFINE o == opens[j]
               piece == s[o.at]
    <2>1. TagStamped(s, w, a, o)
      BY <1>1, TagsStamped
    <2>2. o.at \in 1 .. n /\ piece.kind = "open" /\ o.tag = piece.tag /\ o.text = piece.text
      BY <1>3 DEF OfPieces
    <2>3. piece \in Page(W)
      BY <1>2, <2>2
    <2> HIDE DEF o
    <2>4. CASE ~IsHarvested(o)
      <3>1. w[o.at] = piece
        BY <2>1, <2>4 DEF TagStamped
      <3> QED BY <2>2, <3>1 DEF PiecesAlike, o
    <2>5. CASE IsHarvested(o)
      <3>1. PICK m \in DOMAIN a : w[o.at] = WithText(piece, a[m].text) /\ StampOf(a[m].text, o, a[m].aid)
        BY <2>1, <2>5 DEF TagStamped
      <3> DEFINE x == a[m].text
      <3>2. /\ AttrValue(x, Encoding) = AttrValue(o.text, Encoding)
            /\ o.ns # "html" => (SelfCloses(x) <=> SelfCloses(o.text))
        BY <3>1 DEF StampOf
      <3>3. w[o.at] = WithText(piece, x)
        BY <3>1
      <3> HIDE DEF x, piece
      <3>4. w[o.at].kind = piece.kind /\ w[o.at].tag = piece.tag /\ w[o.at].text = x
        BY <2>3, <3>3, WithTextOf
      <3>5. PiecesAlike(piece, w[o.at])
        BY <2>2, <3>2, <3>4 DEF PiecesAlike
      <3> QED BY <2>2, <3>2, <3>4, <3>5 DEF piece, o
    <2> QED BY <2>2, <2>4, <2>5 DEF o
  <1>5. ASSUME NEW k \in 1 .. n PROVE PiecesAlike(s[k], w[k])
    <2>1. CASE \E j \in DOMAIN opens : opens[j].at = k
      BY <1>4, <2>1
    <2>2. CASE ~\E j \in DOMAIN opens : opens[j].at = k
      <3>1. w[k] = s[k]
        BY <1>1, <2>2, OthersStay
      <3> QED BY <3>1 DEF PiecesAlike
    <2> QED BY <2>1, <2>2
  <1> QED BY <1>2, <1>4, <1>5 DEF AlikeTexts

\* What becomes of an element.
ElementStamped(o, p) ==
    /\ Twins(o, p)
    /\ IsHarvested(o) => \E aid : StampOf(p.text, o, aid)
    /\ ~IsHarvested(o) => p.text = o.text

\* The stamped text has the same elements, and those that were harvested bear their
\* identities.
LEMMA StampedElements ==
    ASSUME NEW V, NEW s, PlainText(s, V), NEW w, NEW a, NEW W, StampedAs(s, w, a, W)
    PROVE  /\ DOMAIN scanOpenTags(w) = DOMAIN scanOpenTags(s)
           /\ \A i \in DOMAIN scanOpenTags(s) :
                 /\ ElementStamped(scanOpenTags(s)[i], scanOpenTags(w)[i])
                 /\ scanOpenTags(w)[i].text = w[scanOpenTags(s)[i].at].text
  <1> DEFINE opens == scanOpenTags(s)
             found == scanOpenTags(w)
  <1>1. s \in Seq(Page(V)) /\ s \in Seq(Page(W)) /\ w \in Seq(Page(W)) /\ Len(w) = Len(s)
    BY DEF PlainText, StampedAs
  <1>2. AlikeTexts(s, w)
    BY StampedIsAlike
  <1>3. TwinElements(opens, found)
    BY <1>1, <1>2, TwinScans
  <1>4. OfPieces(opens, s, Len(s)) /\ OfPieces(found, w, Len(s))
    BY <1>1, ElementsFound
  <1>5. ASSUME NEW i \in DOMAIN opens
        PROVE  ElementStamped(opens[i], found[i]) /\ found[i].text = w[opens[i].at].text
    <2> DEFINE o == opens[i]
               p == found[i]
               piece == s[o.at]
    <2>1. TagStamped(s, w, a, o)
      BY <1>1, TagsStamped
    <2> HIDE DEF opens, found
    <2>2. Twins(o, p) /\ i \in DOMAIN found
      BY <1>3 DEF TwinElements
    <2>3. o.at \in 1 .. Len(s) /\ o.text = piece.text
      BY <1>4 DEF OfPieces
    <2>4. p.text = w[p.at].text
      BY <1>4, <2>2 DEF OfPieces
    <2>5. piece \in Page(W)
      BY <1>1, <2>3
    <2> HIDE DEF o, p, piece
    <2>6. p.text = w[o.at].text
      BY <2>2, <2>4 DEF Twins
    <2>7. CASE IsHarvested(o)
      <3>1. PICK m \in DOMAIN a : w[o.at] = WithText(piece, a[m].text) /\ StampOf(a[m].text, o, a[m].aid)
        BY <2>1, <2>7 DEF TagStamped, piece
      <3> DEFINE x == a[m].text
      <3>2. w[o.at] = WithText(piece, x) /\ StampOf(x, o, a[m].aid)
        BY <3>1
      <3> HIDE DEF x
      <3>3. p.text = x
        BY <2>5, <2>6, <3>2, WithTextOf
      <3>4. ElementStamped(o, p)
        BY <2>2, <2>7, <3>2, <3>3 DEF ElementStamped
      <3> QED BY <2>6, <3>4 DEF o, p
    <2>8. CASE ~IsHarvested(o)
      <3>1. p.text = o.text
        BY <2>1, <2>3, <2>6, <2>8 DEF TagStamped, piece
      <3>2. ElementStamped(o, p)
        BY <2>2, <2>8, <3>1 DEF ElementStamped
      <3> QED BY <2>6, <3>2 DEF o, p
    <2> QED BY <2>7, <2>8
  <1> QED BY <1>3, <1>5 DEF TwinElements

\* The second text is the first without the identities in the tags of its elements.
CleansTo(w, s) ==
    /\ Len(w) = Len(s)
    /\ \A i \in DOMAIN scanOpenTags(w) :
          LET p == scanOpenTags(w)[i] IN s[p.at] = WithText(w[p.at], Cleaned(p))
    /\ \A k \in 1 .. Len(s) :
          (\A i \in DOMAIN scanOpenTags(w) : scanOpenTags(w)[i].at # k) => s[k] = w[k]

\* stripAllAIDs cleans the tags of the elements and changes nothing else.
LEMMA StrippingCleans ==
    ASSUME NEW W, TagWords \subseteq W, NEW w \in Seq(Page(W))
    PROVE  CleansTo(w, stripAllAIDs(w))
  <1> DEFINE opens == scanOpenTags(w)
             clean == CleanedTags(opens)
             r == Rewrite(w, clean)
             n == Len(w)
  <1>1. AreCleaned(clean, opens, W)
    BY CleanedTagsOf
  <1>2. Apart(opens, n)
    BY HarvestApart
  <1>3. r = stripAllAIDs(w)
    BY DEF stripAllAIDs
  <1> HIDE DEF clean, r
  <1>4. PICK E : clean \in Seq(E)
    BY <1>1 DEF AreCleaned
  <1>5. Apart(clean, n)
    BY <1>1, <1>2 DEF AreCleaned, Apart
  <1>6. Rewritten(w, clean, Len(clean), r)
    BY <1>1, <1>4, <1>5, RewrittenEach DEF AreCleaned, r
  <1>7. DOMAIN opens = 1 .. Len(clean)
    BY <1>1, <1>4 DEF AreCleaned
  <1>8. \A i \in DOMAIN opens : clean[i].at = opens[i].at /\ clean[i].text = Cleaned(opens[i])
    BY <1>1 DEF AreCleaned
  <1>9. /\ Len(r) = n
        /\ \A i \in DOMAIN opens : r[opens[i].at] = WithText(w[opens[i].at], Cleaned(opens[i]))
        /\ \A k \in 1 .. n : (\A i \in DOMAIN opens : opens[i].at # k) => r[k] = w[k]
    BY <1>6, <1>7, <1>8 DEF Rewritten
  <1>10. CleansTo(w, r)
    BY <1>9 DEF CleansTo
  <1> QED BY <1>3, <1>10

LEMMA CleanedIsStripped ==
    ASSUME NEW W, TagWords \subseteq W, NEW w \in Seq(Page(W)), NEW s \in Seq(Page(W)), CleansTo(w, s)
    PROVE  stripAllAIDs(w) = s
  <1> DEFINE opens == scanOpenTags(w)
             r == stripAllAIDs(w)
             n == Len(w)
  <1>1. r \in Seq(Page(W)) /\ CleansTo(w, r)
    BY StrippedPage, StrippingCleans
  <1> HIDE DEF r
  <1>2. /\ Len(r) = n /\ Len(s) = n
        /\ \A i \in DOMAIN opens : r[opens[i].at] = s[opens[i].at]
        /\ \A k \in 1 .. n : (\A i \in DOMAIN opens : opens[i].at # k) => r[k] = s[k]
    BY <1>1 DEF CleansTo
  <1>3. \A k \in 1 .. n : r[k] = s[k]
    <2> TAKE k \in 1 .. n
    <2>1. CASE \E i \in DOMAIN opens : opens[i].at = k
      BY <1>2, <2>1
    <2>2. CASE ~\E i \in DOMAIN opens : opens[i].at = k
      BY <1>2, <2>2
    <2> QED BY <2>1, <2>2
  <1>4. r = s
    <2> HIDE DEF n, opens
    <2> QED BY <1>1, <1>2, <1>3
  <1> QED BY <1>4 DEF r

\* From a text without identities none is taken out.
LEMMA PlainIsClean ==
    ASSUME NEW V, NEW s, PlainText(s, V)
    PROVE  stripAllAIDs(s) = s
  <1> DEFINE opens == scanOpenTags(s)
  <1>1. TagWords \subseteq V /\ s \in Seq(Page(V)) /\ BareElements(opens)
    BY DEF PlainText
  <1>2. opens \in Seq(ScanElement(V, Len(s))) /\ OfPieces(opens, s, Len(s))
    BY <1>1, ElementsTyped, ElementsFound
  <1>3. ASSUME NEW i \in DOMAIN opens
        PROVE  s[opens[i].at] = WithText(s[opens[i].at], Cleaned(opens[i]))
    <2> DEFINE p == opens[i]
               piece == s[p.at]
    <2>1. p \in ScanElement(V, Len(s)) /\ Bare(p.text)
      BY <1>1, <1>2 DEF BareElements
    <2>2. p.at \in 1 .. Len(s) /\ p.text = piece.text
      BY <1>2 DEF OfPieces
    <2>3. piece \in Page(V)
      BY <1>1, <2>2
    <2> HIDE DEF p, piece
    <2>4. StripAID(p.text) = p.text
      <3>1. p.text \in Seq(V)
        BY <2>1 DEF ScanElement
      <3> QED BY <2>1, <3>1, BareStays
    <2>5. Cleaned(p) = p.text
      BY <2>4 DEF Cleaned
    <2>6. WithText(piece, piece.text) = piece
      BY <2>3, WithTextOf
    <2> QED BY <2>2, <2>5, <2>6 DEF p, piece
  <1>4. CleansTo(s, s)
    BY <1>3 DEF CleansTo
  <1> QED BY <1>1, <1>4, CleanedIsStripped

\* From a stamped text all that was stamped is taken out.
LEMMA StampedIsClean ==
    ASSUME NEW V, NEW s, PlainText(s, V), NEW w, NEW a, NEW W, StampedAs(s, w, a, W)
    PROVE  stripAllAIDs(w) = s
  <1> DEFINE opens == scanOpenTags(s)
             found == scanOpenTags(w)
  <1>1. TagWords \subseteq V /\ s \in Seq(Page(V)) /\ BareElements(opens)
    BY DEF PlainText
  <1>2. TagWords \subseteq W /\ s \in Seq(Page(W)) /\ w \in Seq(Page(W)) /\ Len(w) = Len(s)
    BY DEF StampedAs
  <1>3. /\ DOMAIN found = DOMAIN opens
        /\ \A i \in DOMAIN opens :
              ElementStamped(opens[i], found[i]) /\ found[i].text = w[opens[i].at].text
    BY StampedElements
  <1>4. opens \in Seq(ScanElement(V, Len(s))) /\ OfPieces(opens, s, Len(s))
    BY <1>1, ElementsTyped, ElementsFound
  <1>5. ASSUME NEW i \in DOMAIN found
        PROVE  found[i].at = opens[i].at /\ s[found[i].at] = WithText(w[found[i].at], Cleaned(found[i]))
    <2> DEFINE o == opens[i]
               p == found[i]
               piece == s[o.at]
               tag == w[o.at]
    <2>1. TagStamped(s, w, a, o)
      BY <1>1, <1>3, TagsStamped
    <2>2. o \in ScanElement(V, Len(s)) /\ Bare(o.text)
      BY <1>1, <1>3, <1>4 DEF BareElements
    <2>3. o.at \in 1 .. Len(s) /\ o.text = piece.text
      BY <1>3, <1>4 DEF OfPieces
    <2>4. piece \in Page(W)
      BY <1>2, <2>3
    <2>5. ElementStamped(o, p) /\ p.text = tag.text
      BY <1>3
    <2> HIDE DEF o, p, piece, tag
    <2>6. p.at = o.at /\ p.tag = o.tag /\ p.ns = o.ns
      BY <2>5 DEF ElementStamped, Twins
    <2>7. StripAID(p.text) = o.text /\ (p.ns # "html" \/ p.tag \in voidTags => (SelfCloses(p.text) <=> SelfCloses(o.text)))
      <3>1. CASE IsHarvested(o)
        BY <2>5, <2>6, <3>1 DEF ElementStamped, StampOf
      <3>2. CASE ~IsHarvested(o)
        <4>1. o.text \in Seq(V)
          BY <2>2 DEF ScanElement
        <4>2. StripAID(o.text) = o.text
          BY <2>2, <4>1, BareStays
        <4> QED BY <2>5, <3>2, <4>2 DEF ElementStamped
      <3> QED BY <3>1, <3>2
    <2>8. Cleaned(p) = o.text
      BY <2>7 DEF Cleaned
    <2>9. WithText(tag, o.text) = piece
      <3>1. CASE IsHarvested(o)
        <4>1. PICK m \in DOMAIN a : tag = WithText(piece, a[m].text)
          BY <2>1, <3>1 DEF TagStamped, tag, piece
        <4> QED BY <2>3, <2>4, <4>1, WithTextOf
      <3>2. CASE ~IsHarvested(o)
        <4>1. tag = piece
          BY <2>1, <3>2 DEF TagStamped, tag, piece
        <4> QED BY <2>3, <2>4, <4>1, WithTextOf
      <3> QED BY <3>1, <3>2
    <2> QED BY <2>6, <2>8, <2>9 DEF o, p, piece, tag
  <1>6. ASSUME NEW k \in 1 .. Len(s), \A i \in DOMAIN found : found[i].at # k PROVE s[k] = w[k]
    <2>1. \A i \in DOMAIN opens : opens[i].at # k
      BY <1>3, <1>5, <1>6
    <2> QED BY <1>1, <2>1, OthersStay
  <1>7. CleansTo(w, s)
    BY <1>2, <1>5, <1>6 DEF CleansTo
  <1> QED BY <1>2, <1>7, CleanedIsStripped

\* Stamping a text without identities, or one that becomes it when they are taken out.
LEMMA StampOfPlain ==
    ASSUME NEW raw, NEW s, stripAllAIDs(raw) = s
    PROVE  StampAids(raw) = Stamped(s, ArtifactsIn(s))
  <1> DEFINE h == Harvest(s, NoPin)
  <1>1. StampAids(raw) = StampAt(s, NoAID, NoPin)
    BY DEF StampAids, stampAids, StampStripped
  <1>2. StampAt(s, NoAID, NoPin) = StampElements(s, h, NoAID, NoPin)
    BY DEF StampAt
  <1> HIDE DEF h
  <1>3. StampElements(s, h, NoAID, NoPin) = Stamped(s, ArtifactsOf(s, h, collectHeadings(s), NoAID, NoPin))
    BY DEF StampElements
  <1> QED BY <1>1, <1>2, <1>3 DEF ArtifactsIn, h

\* Stamping what was stamped gives the same text and the same identities (StampAids,
\* stripAllAIDs): for every text whose elements bear no identity, whatever its size.
THEOREM StampingIsIdempotent ==
    ASSUME NEW V, NEW s, PlainText(s, V)
    PROVE  StampAids(StampAids(s).html) = StampAids(s)
  <1> DEFINE a == ArtifactsIn(s)
             w == Rewrite(s, a)
  <1>1. stripAllAIDs(s) = s
    BY PlainIsClean
  <1>2. StampAids(s) = Stamped(s, a)
    BY <1>1, StampOfPlain
  <1>3. Stamped(s, a).html = w
    BY DEF Stamped
  <1>4. PICK W : StampedAs(s, w, a, W)
    BY PlainIsStamped
  <1> HIDE DEF a, w
  <1>5. stripAllAIDs(w) = s
    BY <1>4, StampedIsClean
  <1>6. StampAids(w) = Stamped(s, a)
    BY <1>5, StampOfPlain DEF a
  <1> QED BY <1>2, <1>3, <1>6

\* Stamping a text without identities changes neither which tags are elements, nor where
\* an element ends, nor its namespace (stampedOpenTag, scanOpenTags).
THEOREM StampingKeepsTheElements ==
    ASSUME NEW V, NEW s, PlainText(s, V)
    PROVE  Tree(StampAids(s).html) = Tree(s)
  <1> DEFINE a == ArtifactsIn(s)
             w == Rewrite(s, a)
             opens == scanOpenTags(s)
             found == scanOpenTags(w)
  <1>1. stripAllAIDs(s) = s
    BY PlainIsClean
  <1>2. StampAids(s) = Stamped(s, a)
    BY <1>1, StampOfPlain
  <1>3. Stamped(s, a).html = w
    BY DEF Stamped
  <1>4. PICK W : StampedAs(s, w, a, W)
    BY PlainIsStamped
  <1> HIDE DEF a, w
  <1>5. DOMAIN found = DOMAIN opens /\ \A i \in DOMAIN opens : ElementStamped(opens[i], found[i])
    BY <1>4, StampedElements
  <1> HIDE DEF opens, found
  <1>6. ASSUME NEW i \in DOMAIN opens
        PROVE  /\ found[i].at = opens[i].at /\ found[i].close = opens[i].close
               /\ found[i].tag = opens[i].tag /\ found[i].ns = opens[i].ns
               /\ (found[i].ns # "html" /\ SelfCloses(found[i].text)) =
                     (opens[i].ns # "html" /\ SelfCloses(opens[i].text))
    <2> DEFINE o == opens[i]
               p == found[i]
    <2>1. ElementStamped(o, p)
      BY <1>5
    <2> HIDE DEF o, p
    <2>2. p.at = o.at /\ p.close = o.close /\ p.tag = o.tag /\ p.ns = o.ns
      BY <2>1 DEF ElementStamped, Twins
    <2>3. o.ns # "html" => (SelfCloses(p.text) <=> SelfCloses(o.text))
      BY <2>1 DEF ElementStamped, StampOf
    <2> QED BY <2>2, <2>3 DEF o, p
  <1>7. Tree(w) = Tree(s)
    <2>1. Tree(w) = [i \in DOMAIN found |->
              [at |-> found[i].at, close |-> found[i].close, tag |-> found[i].tag, ns |-> found[i].ns,
               closes |-> found[i].ns # "html" /\ SelfCloses(found[i].text)]]
      BY DEF Tree, found
    <2>2. Tree(s) = [i \in DOMAIN opens |->
              [at |-> opens[i].at, close |-> opens[i].close, tag |-> opens[i].tag, ns |-> opens[i].ns,
               closes |-> opens[i].ns # "html" /\ SelfCloses(opens[i].text)]]
      BY DEF Tree, opens
    <2> QED BY <1>5, <1>6, <2>1, <2>2
  <1> QED BY <1>2, <1>3, <1>7

\* The index lists what is found in the stamped text.
Served(text, aids) ==
    LET found == Harvest(text, NoPin) IN
    /\ Len(found) = Len(aids) /\ DOMAIN found = DOMAIN aids
    /\ \A i \in DOMAIN aids :
          /\ found[i].tag = aids[i].tag
          /\ AidValues(found[i].text) = {<<aids[i].aid>>}
          /\ aids[i].aid[1] = "aid"

\* The artifacts that stamping a text without identities returns are the ones that a
\* reader of the stamped text harvests, in their order, and each is found by the
\* identity that the index gives it (StampAids, ElementByAID).
THEOREM StampedIsServed ==
    ASSUME NEW V, NEW s, PlainText(s, V)
    PROVE  Served(StampAids(s).html, StampAids(s).aids)
  <1> DEFINE a == ArtifactsIn(s)
             w == Rewrite(s, a)
             opens == scanOpenTags(s)
             found == scanOpenTags(w)
             h == Harvest(s, NoPin)
             r == Harvest(w, NoPin)
             aids == Stamped(s, a).aids
  <1>1. stripAllAIDs(s) = s
    BY PlainIsClean
  <1>2. StampAids(s) = Stamped(s, a)
    BY <1>1, StampOfPlain
  <1>3. Stamped(s, a).html = w
    BY DEF Stamped
  <1>4. PICK W : StampedAs(s, w, a, W)
    BY PlainIsStamped
  <1>5. DOMAIN aids = DOMAIN a /\ \A i \in DOMAIN a : aids[i].aid = a[i].aid /\ aids[i].tag = a[i].tag
    BY DEF Stamped
  <1> HIDE DEF a, w, aids
  <1>6. DOMAIN found = DOMAIN opens /\ \A i \in DOMAIN opens :
            ElementStamped(opens[i], found[i]) /\ found[i].text = w[opens[i].at].text
    BY <1>4, StampedElements
  <1>7. s \in Seq(Page(V)) /\ w \in Seq(Page(W)) /\ s \in Seq(Page(W)) /\ Len(w) = Len(s)
    BY <1>4 DEF PlainText, StampedAs
  <1>8. PICK by : Picks(by, opens, ToHarvest(opens), h)
    BY <1>7, HarvestPicks DEF Harvests
  <1>9. PICK at : Picks(at, found, ToHarvest(found), r)
    BY <1>7, HarvestPicks DEF Harvests
  <1>10. h \in Seq(ScanElement(V, Len(s))) /\ r \in Seq(ScanElement(W, Len(w)))
         /\ opens \in Seq(ScanElement(V, Len(s)))
    BY <1>7, HarvestTyped, ElementsTyped
  <1>11. DOMAIN a = DOMAIN h /\ \A i \in DOMAIN a :
            ArtifactOf(a[i], h[i]) /\ w[a[i].at] = WithText(s[a[i].at], a[i].text)
    BY <1>4 DEF StampedAs
  <1>12. OfPieces(opens, s, Len(s))
    BY <1>7, ElementsFound
  <1> HIDE DEF opens, found, h, r
  <1>13. ToHarvest(found) = ToHarvest(opens)
    <2>1. ASSUME NEW i \in DOMAIN opens PROVE IsHarvested(found[i]) <=> IsHarvested(opens[i])
      <3> DEFINE o == opens[i]
                 p == found[i]
      <3>1. ElementStamped(o, p)
        BY <1>6
      <3> HIDE DEF o, p
      <3>2. IsHarvested(p) <=> IsHarvested(o)
        <4>1. CASE IsHarvested(o)
          BY <3>1, <4>1 DEF ElementStamped, Twins, StampOf, IsHarvested
        <4>2. CASE ~IsHarvested(o)
          BY <3>1, <4>2 DEF ElementStamped, Twins, IsHarvested
        <4> QED BY <4>1, <4>2
      <3> QED BY <3>2 DEF o, p
    <2> QED BY <1>6, <2>1 DEF ToHarvest
  <1> DEFINE m == Len(h)
  <1>14. Len(r) = m /\ m \in Nat /\ \A i \in 1 .. m : r[i] = found[by[i]]
    <2> DEFINE K == ToHarvest(opens)
               z == [i \in 1 .. m |-> found[by[i]]]
               E == {found[i] : i \in K}
               Z == ScanElement(W, Len(w)) \cup E
    <2>1. m \in Nat /\ by \in [1 .. m -> K]
      BY <1>8, <1>10 DEF Picks
    <2> HIDE DEF m, K
    <2>2. \A i \in 1 .. m : found[by[i]] \in E
      BY <2>1
    <2>3. z \in Seq(Z) /\ Len(z) = m /\ \A i \in 1 .. m : z[i] = found[by[i]]
      BY <2>1, <2>2
    <2> HIDE DEF z, E
    <2>4. Picks(by, found, K, z)
      BY <1>8, <2>1, <2>3 DEF Picks, K, m
    <2>5. K \in SUBSET Nat
      <3>1. DOMAIN opens = 1 .. Len(opens) /\ Len(opens) \in Nat
        BY <1>10
      <3> QED BY <3>1 DEF K, ToHarvest
    <2>6. r \in Seq(Z)
      BY <1>10, SeqGrows
    <2> HIDE DEF Z
    <2>7. r = z
      BY <1>9, <1>13, <2>3, <2>4, <2>5, <2>6, PickedIsUnique DEF K
    <2> QED BY <2>1, <2>3, <2>7
  <1>15. DOMAIN a = 1 .. m
    BY <1>10, <1>11
  <1>16. ASSUME NEW i \in DOMAIN a
         PROVE  /\ r[i].tag = aids[i].tag
                /\ AidValues(r[i].text) = {<<aids[i].aid>>}
                /\ aids[i].aid[1] = "aid"
    <2> DEFINE j == by[i]
               o == opens[j]
               p == found[j]
               b == a[i]
               piece == s[o.at]
    <2>1. r[i] = p /\ j \in ToHarvest(opens) /\ h[i] = o
      BY <1>8, <1>14, <1>15 DEF Picks
    <2>2. j \in DOMAIN opens
      BY <2>1 DEF ToHarvest
    <2> HIDE DEF j
    <2>3. ElementStamped(o, p) /\ p.text = w[o.at].text
      BY <1>6, <2>2
    <2>4. ArtifactOf(b, o) /\ w[b.at] = WithText(s[b.at], b.text)
      BY <1>11, <2>1
    <2>5. aids[i].aid = b.aid /\ aids[i].tag = b.tag
      BY <1>5
    <2>6. o.at \in 1 .. Len(s)
      BY <1>12, <2>2 DEF OfPieces
    <2>7. piece \in Page(V)
      BY <1>7, <2>6
    <2> HIDE DEF o, p, b, piece
    <2>8. w[o.at] = WithText(piece, b.text)
      BY <2>4 DEF ArtifactOf, piece
    <2>9. p.text = b.text
      BY <2>3, <2>7, <2>8, WithTextOf
    <2>10. p.tag = b.tag /\ AidValues(p.text) = {<<b.aid>>} /\ b.aid[1] = "aid"
      BY <2>3, <2>4, <2>9 DEF ElementStamped, Twins, ArtifactOf, StampOf
    <2> QED BY <2>1, <2>5, <2>10
  <1>17. Len(r) = Len(aids)
    <2>1. aids = [i \in DOMAIN a |-> aids[i]]
      BY DEF aids, Stamped
    <2>2. Len(aids) = m
      BY <1>5, <1>14, <1>15, <2>1
    <2> QED BY <1>14, <2>2
  <1>18. DOMAIN r = DOMAIN aids
    BY <1>5, <1>10, <1>14, <1>15
  <1>19. Served(w, aids)
    BY <1>5, <1>16, <1>17, <1>18 DEF Served, r
  <1> QED BY <1>2, <1>3, <1>19 DEF aids

-------------------------------------------------------------------------------
(* A text that bears identities, the author's or the stamper's.              *)

\* If it stands apart, no element bears an identity once they are taken out.
LEMMA StrippedIsPlain ==
    ASSUME NEW V, TagWords \subseteq V, NEW text \in Seq(Page(V)), StandsApart(text)
    PROVE  PlainText(stripAllAIDs(text), V)
  <1> DEFINE s == stripAllAIDs(text)
             opens == scanOpenTags(text)
             found == scanOpenTags(s)
             n == Len(text)
  <1>1. s \in Seq(Page(V)) /\ CleansTo(text, s)
    BY StrippedPage, StrippingCleans
  <1>2. Len(s) = n /\ \A i \in DOMAIN opens : s[opens[i].at] = WithText(text[opens[i].at], Cleaned(opens[i]))
    BY <1>1 DEF CleansTo
  <1>3. opens \in Seq(ScanElement(V, n)) /\ OfPieces(opens, text, n)
    BY ElementsTyped, ElementsFound
  <1>4. OfPieces(found, s, Len(s))
    BY <1>1, ElementsFound
  <1>5. Tree(s) = Tree(text) /\ IsDocument(text) /\ IsDocument(s)
    BY DEF StandsApart
  <1> HIDE DEF s
  <1>6. DOMAIN found = DOMAIN opens /\ \A i \in DOMAIN opens : found[i].at = opens[i].at
    <2> DEFINE a == Tree(s)
               b == Tree(text)
    <2>1. DOMAIN a = DOMAIN found /\ \A i \in DOMAIN found : a[i].at = found[i].at
      BY DEF Tree
    <2>2. DOMAIN b = DOMAIN opens /\ \A i \in DOMAIN opens : b[i].at = opens[i].at
      BY DEF Tree
    <2> HIDE DEF a, b
    <2>3. a = b
      BY <1>5 DEF a, b
    <2> QED BY <2>1, <2>2, <2>3
  <1> HIDE DEF opens, found
  <1>7. ASSUME NEW i \in DOMAIN found PROVE Bare(found[i].text) /\ Sound(found[i].text)
    <2> DEFINE e == opens[i]
               k == e.at
               piece == text[k]
               x == Cleaned(e)
               t == found[i].text
    <2>1. e \in ScanElement(V, n) /\ k \in 1 .. n /\ piece.kind = "open" /\ e.text = piece.text
      BY <1>3, <1>6 DEF OfPieces
    <2>2. k \in DOMAIN text /\ k \in DOMAIN s /\ piece \in Page(V)
      BY <1>1, <1>2, <2>1
    <2>3. s[k] = WithText(piece, x)
      BY <1>2, <1>6
    <2>4. t = s[k].text /\ s[k].kind = "open"
      BY <1>4, <1>6 DEF OfPieces
    <2>5. NameIsApart(piece.text) /\ AIDBeginsNames(piece.text)
      BY <1>5, <2>1, <2>2 DEF IsDocument
    <2>6. Terminated(t) /\ NamesBeginWithNoEquals(t) /\ EndsOutsideValue(t)
      BY <1>5, <2>2, <2>4 DEF IsDocument
    <2> HIDE DEF e, k, piece, x, t
    <2>7. t = x
      BY <2>2, <2>3, <2>4, WithTextOf
    <2>8. e.text \in Seq(V) /\ Fine(e.text)
      BY <2>1 DEF ScanElement
    <2>9. Author(e.text)
      BY <2>1, <2>5, <2>8 DEF Author, Fine, Stamper
    <2>10. Space \in V
      BY DEF TagWords
    <2>11. Bare(x)
      BY <2>8, <2>9, <2>10, CleanedIsFine DEF x
    <2> QED BY <2>6, <2>7, <2>11 DEF Sound, Bare, t
  <1>8. PlainText(s, V)
    BY <1>1, <1>7 DEF PlainText, BareElements, found
  <1> QED BY <1>8 DEF s

\* It is stamped as the text is that remains when they are taken out.
LEMMA StampOfStripped ==
    ASSUME NEW V, TagWords \subseteq V, NEW text \in Seq(Page(V)), StandsApart(text)
    PROVE  StampAids(text) = StampAids(stripAllAIDs(text))
  <1> DEFINE s == stripAllAIDs(text)
  <1>1. stripAllAIDs(s) = s
    BY StrippedIsPlain, PlainIsClean
  <1>2. stripAllAIDs(text) = s
    OBVIOUS
  <1> HIDE DEF s
  <1>3. StampAids(text) = Stamped(s, ArtifactsIn(s)) /\ StampAids(s) = Stamped(s, ArtifactsIn(s))
    BY <1>1, <1>2, StampOfPlain
  <1> QED BY <1>3 DEF s

-------------------------------------------------------------------------------
(* The round trip of a document.                                             *)

\* A published version is what stamping makes of a text without identities.
IsStampOf(text, aids) ==
    \E V, s : PlainText(s, V) /\ text = StampAids(s).html /\ aids = StampAids(s).aids

LEMMA StampIsOne ==
    ASSUME NEW text, SomePage(text), StandsApart(text)
    PROVE  IsStampOf(StampAids(text).html, StampAids(text).aids)
  <1>1. PICK V : TagWords \subseteq V /\ text \in Seq(Page(V))
    BY DEF SomePage
  <1> DEFINE s == stripAllAIDs(text)
  <1>2. PlainText(s, V) /\ StampAids(text) = StampAids(s)
    BY <1>1, StrippedIsPlain, StampOfStripped
  <1> HIDE DEF s
  <1> QED BY <1>2 DEF IsStampOf

LEMMA StampIsStable ==
    ASSUME NEW text, NEW aids, IsStampOf(text, aids)
    PROVE  StampAids(text).html = text /\ StampAids(text).aids = aids
  BY StampingIsIdempotent DEF IsStampOf

LEMMA StampIsServed ==
    ASSUME NEW text, NEW aids, IsStampOf(text, aids)
    PROVE  Served(text, aids)
  BY StampedIsServed DEF IsStampOf

\* Where the author's text stands apart, publishing it changes no element.
LEMMA PublishingKeepsElements ==
    ASSUME NEW text, SomePage(text), StandsApart(text)
    PROVE  Tree(StampAids(text).html) = Tree(text)
  <1>1. PICK V : TagWords \subseteq V /\ text \in Seq(Page(V))
    BY DEF SomePage
  <1> DEFINE s == stripAllAIDs(text)
  <1>2. PlainText(s, V) /\ StampAids(text) = StampAids(s)
    BY <1>1, StrippedIsPlain, StampOfStripped
  <1>3. Tree(s) = Tree(text)
    BY DEF StandsApart
  <1> HIDE DEF s
  <1>4. Tree(StampAids(s).html) = Tree(s)
    BY <1>2, StampingKeepsTheElements
  <1> QED BY <1>2, <1>3, <1>4

\* Until the first publish no element was replaced, and until an element is replaced a
\* version is a stamped text without identities; so is every version if the edits, too,
\* stand apart.
RoundTrip ==
    /\ edits \in Nat
    /\ ~published => edits = 0
    /\ published /\ edits = 0 => IsStampOf(html, index)

EditedRoundTrip == published => IsStampOf(html, index)

LEMMA FirstPublishIsStamp ==
    ASSUME TextIsWritten, AuthorStandsApart, FirstPublish
    PROVE  /\ SomePage(html) /\ StandsApart(html)
           /\ html' = StampAids(html).html /\ IsStampOf(html', index')
  <1>1. ~published /\ IsDocument(html) /\ Publish(StampAids(html))
    BY DEF FirstPublish
  <1>2. html \in Seq(Written)
    BY <1>1 DEF TextIsWritten
  <1>3. SomePage(html) /\ StandsApart(html)
    BY <1>1, <1>2, WrittenIsFine DEF AuthorStandsApart
  <1>4. html' = StampAids(html).html /\ index' = StampAids(html).aids
    BY <1>1 DEF Publish
  <1>5. IsStampOf(StampAids(html).html, StampAids(html).aids)
    BY <1>3, StampIsOne
  <1> QED BY <1>3, <1>4, <1>5

LEMMA RepublishIsStable ==
    ASSUME IsStampOf(html, index), Republish
    PROVE  UNCHANGED <<html, index, published, edits>>
  <1>1. html' = StampAids(html).html /\ index' = StampAids(html).aids
        /\ UNCHANGED <<published, edits>>
    BY DEF Republish, Publish
  <1>2. StampAids(html).html = html /\ StampAids(html).aids = index
    BY StampIsStable
  <1> QED BY <1>1, <1>2

LEMMA ReplacementIsStamp ==
    ASSUME PublishedIsFine, EditsStandApart, published,
           NEW aid \in {index[i].aid : i \in DOMAIN index}, NEW fragment \in Fragments,
           ReplaceElement(aid, fragment)
    PROVE  IsStampOf(html', index')
  <1> DEFINE canonical == StampAids(fragment).aids[1].aid
  <1>1. SomePage(html) /\ IsAID(aid)
    BY DEF PublishedIsFine, ListsAIDs
  <1>2. PICK e \in ElementByAID(html, aid) :
            PublishReplaced(e.at, Replaced(html, e, aid, fragment), canonical)
    BY DEF ReplaceElement
  <1>3. /\ IsHarvestableReplacementRoot(fragment)
        /\ \A i \in DOMAIN fragment : ~HasDataOdoc(fragment[i].text)
        /\ edits < MaxEdits
    BY DEF ReplaceElement
  <1> DEFINE raw == Replaced(html, e, aid, fragment)
  <1>4. SomePage(raw)
    BY <1>1, <1>3, ReplacedIsFine
  <1>5. /\ Cardinality(Matches(StampAids(raw), canonical)) = 1
        /\ Publish(stampAids(raw, canonical, e.at))
    BY <1>2 DEF PublishReplaced
  <1>6. ReplacementStandsApart(aid, fragment, e)
    BY <1>3 DEF EditsStandApart
  <1>7. StandsApart(raw) /\ stampAids(raw, canonical, e.at) = StampAids(raw)
    BY <1>3, <1>5, <1>6 DEF ReplacementStandsApart
  <1> HIDE DEF raw, canonical
  <1>8. html' = StampAids(raw).html /\ index' = StampAids(raw).aids
    BY <1>5, <1>7 DEF Publish
  <1>9. IsStampOf(StampAids(raw).html, StampAids(raw).aids)
    BY <1>4, <1>7, StampIsOne
  <1> QED BY <1>8, <1>9

LEMMA RoundTripIsKept ==
    ASSUME TextIsWritten, AuthorStandsApart, RoundTrip, [Next]_vars
    PROVE  RoundTrip'
  <1>1. CASE Write
    <2>1. ~published' /\ ~published /\ edits' = edits
      BY <1>1 DEF Write
    <2> QED BY <2>1 DEF RoundTrip
  <1>2. CASE FirstPublish
    <2>1. published' /\ ~published /\ edits' = edits
      BY <1>2 DEF FirstPublish
    <2>2. IsStampOf(html', index')
      BY <1>2, FirstPublishIsStamp
    <2> QED BY <2>1, <2>2 DEF RoundTrip, IsStampOf
  <1>3. CASE Republish
    <2>1. published /\ published' = published /\ edits' = edits
      BY <1>3 DEF Republish
    <2>2. CASE edits = 0
      <3>1. IsStampOf(html, index)
        BY <2>1, <2>2 DEF RoundTrip
      <3>2. UNCHANGED <<html, index>>
        BY <1>3, <3>1, RepublishIsStable
      <3> QED BY <2>1, <3>1, <3>2 DEF RoundTrip, IsStampOf
    <2>3. CASE edits # 0
      BY <2>1, <2>3 DEF RoundTrip
    <2> QED BY <2>2, <2>3
  <1>4. ASSUME NEW aid \in {index[i].aid : i \in DOMAIN index}, NEW fragment \in Fragments,
               ReplaceElement(aid, fragment)
        PROVE  RoundTrip'
    <2>1. published /\ published' = published /\ edits' = edits + 1
      BY <1>4 DEF ReplaceElement
    <2> QED BY <2>1 DEF RoundTrip
  <1>5. CASE UNCHANGED vars
    BY <1>5 DEF vars, RoundTrip, IsStampOf
  <1> QED BY <1>1, <1>2, <1>3, <1>4, <1>5 DEF Next

LEMMA RoundTripHolds == Spec /\ []AuthorStandsApart => []RoundTrip
  <1>1. Init => RoundTrip
    BY DEF Init, RoundTrip
  <1>2. TextIsWritten /\ AuthorStandsApart /\ RoundTrip /\ [Next]_vars => RoundTrip'
    BY RoundTripIsKept
  <1> QED BY <1>1, <1>2, WrittenHolds, PTL DEF Spec

LEMMA EditedRoundTripIsKept ==
    ASSUME TextIsWritten, PublishedIsFine, AuthorStandsApart, EditsStandApart, EditedRoundTrip,
           [Next]_vars
    PROVE  EditedRoundTrip'
  <1>1. CASE Write
    BY <1>1 DEF Write, EditedRoundTrip
  <1>2. CASE FirstPublish
    <2>1. IsStampOf(html', index')
      BY <1>2, FirstPublishIsStamp
    <2> QED BY <2>1 DEF EditedRoundTrip, IsStampOf
  <1>3. CASE Republish
    <2>1. IsStampOf(html, index)
      BY <1>3 DEF Republish, EditedRoundTrip
    <2>2. UNCHANGED <<html, index>>
      BY <1>3, <2>1, RepublishIsStable
    <2> QED BY <2>1, <2>2 DEF EditedRoundTrip, IsStampOf
  <1>4. ASSUME NEW aid \in {index[i].aid : i \in DOMAIN index}, NEW fragment \in Fragments,
               ReplaceElement(aid, fragment)
        PROVE  EditedRoundTrip'
    <2>1. published
      BY <1>4 DEF ReplaceElement
    <2>2. IsStampOf(html', index')
      BY <1>4, <2>1, ReplacementIsStamp
    <2> QED BY <2>2 DEF EditedRoundTrip, IsStampOf
  <1>5. CASE UNCHANGED vars
    BY <1>5 DEF vars, EditedRoundTrip, IsStampOf
  <1> QED BY <1>1, <1>2, <1>3, <1>4, <1>5 DEF Next

LEMMA EditedRoundTripHolds ==
    Spec /\ []AuthorStandsApart /\ []EditsStandApart => []EditedRoundTrip
  <1>1. Init => EditedRoundTrip
    BY DEF Init, EditedRoundTrip
  <1>2. TextIsWritten /\ PublishedIsFine /\ AuthorStandsApart /\ EditsStandApart
          /\ EditedRoundTrip /\ [Next]_vars => EditedRoundTrip'
    BY EditedRoundTripIsKept
  <1> QED BY <1>1, <1>2, WrittenHolds, PublishedHolds, PTL DEF Spec

LEMMA StampIsIndexed ==
    ASSUME published => IsStampOf(html, index)
    PROVE  IndexIsServed
  <1> SUFFICES ASSUME published PROVE IndexIsServed
    BY DEF IndexIsServed
  <1>1. Served(html, index)
    BY StampIsServed
  <1> QED BY <1>1 DEF Served, IndexIsServed

LEMMA StepIsStable ==
    ASSUME published, IsStampOf(html, index), Next, edits' = edits, edits \in Nat
    PROVE  UNCHANGED <<html, index>>
  <1>1. ~Write /\ ~FirstPublish
    BY DEF Write, FirstPublish
  <1>2. ASSUME NEW aid, NEW fragment, ReplaceElement(aid, fragment) PROVE FALSE
    BY <1>2 DEF ReplaceElement
  <1>3. Republish
    BY <1>1, <1>2 DEF Next
  <1> QED BY <1>3, RepublishIsStable

\* The index and the published text agree, also after elements were replaced: a reader of
\* the page harvests the artifacts of the index, in their order, each with its identity
\* (Publish, StampAids, StampAidsPinned, ElementByAID).
THEOREM PublishedIndexIsServed ==
    Spec /\ []AuthorStandsApart /\ []EditsStandApart => []IndexIsServed
  <1>1. EditedRoundTrip => IndexIsServed
    BY StampIsIndexed DEF EditedRoundTrip
  <1> QED BY <1>1, EditedRoundTripHolds, PTL

\* Publishing what was served changes neither a byte nor an identity, also after elements
\* were replaced (StampAids strips what it wrote and writes it again).
THEOREM ServedTextIsStable ==
    Spec /\ []AuthorStandsApart /\ []EditsStandApart => RestampIsStable
  <1>1. EditedRoundTrip /\ RoundTrip /\ [Next]_vars =>
            [published /\ edits' = edits => UNCHANGED <<html, index>>]_vars
    BY StepIsStable DEF EditedRoundTrip, RoundTrip
  <1> QED BY <1>1, EditedRoundTripHolds, RoundTripHolds, PTL DEF Spec, RestampIsStable

-------------------------------------------------------------------------------
(* An author who writes no identity.                                         *)

\* The author writes no identity: its name neither stands in what is written nor is typed.
WritesNoIdentity ==
    /\ AIDName \notin Letters
    /\ \A piece \in Pieces :
          piece.kind = "open" => \A k \in DOMAIN piece.text : piece.text[k] # AIDName

NoneIn(text) ==
    \A i \in DOMAIN text :
        text[i].kind = "open" => \A k \in DOMAIN text[i].text : text[i].text[k] # AIDName

LEMMA NoneIsPlain ==
    ASSUME NEW text \in Seq(Written), IsDocument(text), NoneIn(text)
    PROVE  PlainText(text, Character)
  <1> DEFINE opens == scanOpenTags(text)
  <1>1. text \in Seq(Page(Character))
    BY WrittenPage
  <1>2. OfPieces(opens, text, Len(text))
    BY <1>1, ElementsFound
  <1>3. ASSUME NEW i \in DOMAIN opens PROVE Bare(opens[i].text) /\ Sound(opens[i].text)
    <2> DEFINE k == opens[i].at
               t == text[k].text
    <2>1. k \in 1 .. Len(text) /\ text[k].kind = "open" /\ opens[i].text = t
      BY <1>2 DEF OfPieces
    <2>2. k \in DOMAIN text /\ text[k] \in Written
      BY <2>1
    <2> HIDE DEF k
    <2>3. IsTagText(t)
      BY <2>1, <2>2, PiecesAreWritten
    <2>4. Terminated(t) /\ NamesBeginWithNoEquals(t) /\ EndsOutsideValue(t)
      BY <2>1, <2>2 DEF IsDocument
    <2>5. \A j \in DOMAIN t : t[j] # AIDName
      BY <2>1, <2>2 DEF NoneIn
    <2> HIDE DEF t
    <2>6. Bare(t) /\ Sound(t)
      BY <2>3, <2>4, <2>5 DEF Bare, Sound
    <2> QED BY <2>1, <2>6
  <1>4. TagWords \subseteq Character
    BY DEF TagWords, Character
  <1> QED BY <1>1, <1>3, <1>4 DEF PlainText, BareElements

LEMMA NoneStandsApart ==
    ASSUME NEW text \in Seq(Written), IsDocument(text), NoneIn(text)
    PROVE  StandsApart(text)
  <1>1. stripAllAIDs(text) = text
    BY NoneIsPlain, PlainIsClean
  <1> QED BY <1>1 DEF StandsApart

NoneIsWritten == ~published => NoneIn(html)

LEMMA WritingAddsNone ==
    ASSUME WritesNoIdentity, TextIsWritten, ~published, NoneIn(html), Write
    PROVE  NoneIn(html')
  <1>1. html \in Seq(Written)
    BY DEF TextIsWritten
  <1>2. ASSUME NEW piece \in Pieces, html' = Append(html, piece) PROVE NoneIn(html')
    <2> DEFINE n == Len(html)
               m == n + 1
    <2>1. piece \in Written
      BY WritingAssumption
    <2>2. DOMAIN html' = 1 .. m /\ html'[m] = piece /\ n \in Nat /\ DOMAIN html = 1 .. n
          /\ \A i \in 1 .. n : html'[i] = html[i]
      BY <1>1, <1>2, <2>1
    <2>3. \A i \in 1 .. m : i \in 1 .. n \/ i = m
      BY <2>2
    <2> HIDE DEF n, m
    <2>4. piece.kind = "open" => \A k \in DOMAIN piece.text : piece.text[k] # AIDName
      BY DEF WritesNoIdentity
    <2> QED BY <2>2, <2>3, <2>4 DEF NoneIn
  <1>3. ASSUME NEW c \in Letters, html # <<>>, html[Len(html)].kind = "open",
               html' = [html EXCEPT ![Len(html)].text = Append(html[Len(html)].text, c)]
        PROVE  NoneIn(html')
    <2> DEFINE n == Len(html)
               old == html[n].text
               new == Append(old, c)
    <2>1. n \in DOMAIN html
      BY <1>1, <1>3
    <2>2. html[n] \in Written
      BY <1>1, <2>1
    <2>3. old \in Seq(Character) /\ "text" \in DOMAIN html[n]
      BY <2>2 DEF Written
    <2>4. c # AIDName /\ c \in Character
      BY WritingAssumption DEF WritesNoIdentity
    <2>5. html[n].kind = "open"
      BY <1>3
    <2>6. html' = [html EXCEPT ![n] = [html[n] EXCEPT !.text = new]]
      BY <1>3
    <2> HIDE DEF n
    <2>7. \A k \in DOMAIN old : old[k] # AIDName
      BY <2>1, <2>5 DEF NoneIn
    <2>8. \A k \in DOMAIN new : new[k] # AIDName
      <3> HIDE DEF old
      <3>1. \A k \in DOMAIN new : (k \in DOMAIN old /\ new[k] = old[k]) \/ new[k] = c
        BY <2>3, <2>4
      <3> QED BY <2>4, <2>7, <3>1
    <2> HIDE DEF new
    <2>9. html'[n].text = new /\ DOMAIN html' = DOMAIN html
          /\ \A i \in DOMAIN html : i # n => html'[i] = html[i]
      BY <2>1, <2>3, <2>6
    <2> QED BY <2>8, <2>9 DEF NoneIn
  <1> QED BY <1>2, <1>3 DEF Write

\* Then the text stands apart, whatever else is written, and of an author who writes no
\* identity nothing is assumed (stripAllAIDs has nothing to take out at first).
THEOREM PlainAuthorStandsApart ==
    ASSUME WritesNoIdentity
    PROVE  Spec => []AuthorStandsApart
  <1>1. Init => NoneIsWritten
    BY DEF Init, NoneIsWritten, NoneIn
  <1>2. TextIsWritten /\ NoneIsWritten /\ [Next]_vars => NoneIsWritten'
    <2> SUFFICES ASSUME TextIsWritten, NoneIsWritten, [Next]_vars, ~published'
                 PROVE  NoneIn(html')
      BY DEF NoneIsWritten
    <2>1. CASE Write
      <3>1. ~published /\ NoneIn(html)
        BY <2>1 DEF Write, NoneIsWritten
      <3> QED BY <2>1, <3>1, WritingAddsNone
    <2>2. CASE UNCHANGED vars
      BY <2>2 DEF vars, NoneIsWritten, NoneIn
    <2>3. ~FirstPublish /\ ~Republish
      BY DEF FirstPublish, Republish
    <2>4. ASSUME NEW aid, NEW fragment, ReplaceElement(aid, fragment) PROVE FALSE
      BY <2>4 DEF ReplaceElement
    <2> QED BY <2>1, <2>2, <2>3, <2>4 DEF Next
  <1>3. TextIsWritten /\ NoneIsWritten => AuthorStandsApart
    BY NoneStandsApart DEF TextIsWritten, NoneIsWritten, AuthorStandsApart
  <1> QED BY <1>1, <1>2, <1>3, WrittenHolds, PTL DEF Spec

-------------------------------------------------------------------------------
(* What a replacement publishes.                                             *)

\* From the text that is published to the version: the identities are taken out of raw,
\* which leaves s, and w is s with those of the artifacts a.
StampsTo(raw, s, w, a, V, W) ==
    /\ TagWords \subseteq V /\ raw \in Seq(Page(V)) /\ PlainText(s, V)
    /\ IsDocument(raw) /\ IsDocument(s) /\ Tree(s) = Tree(raw)
    /\ stripAllAIDs(raw) = s /\ CleansTo(raw, s)
    /\ StampedAs(s, w, a, W)
    /\ StampAids(raw) = Stamped(s, a) /\ StampAids(raw).html = w

LEMMA Stamping ==
    ASSUME NEW raw, SomePage(raw), StandsApart(raw)
    PROVE  \E s, w, a, V, W : StampsTo(raw, s, w, a, V, W)
  <1>1. PICK V : TagWords \subseteq V /\ raw \in Seq(Page(V))
    BY DEF SomePage
  <1> DEFINE s == stripAllAIDs(raw)
             a == ArtifactsIn(s)
             w == Rewrite(s, a)
  <1>2. PlainText(s, V) /\ CleansTo(raw, s)
    BY <1>1, StrippedIsPlain, StrippingCleans
  <1>3. StampAids(raw) = Stamped(s, a)
    BY StampOfPlain
  <1>4. Stamped(s, a).html = w
    BY DEF Stamped
  <1>5. PICK W : StampedAs(s, w, a, W)
    BY <1>2, PlainIsStamped
  <1>6. IsDocument(raw) /\ IsDocument(s) /\ Tree(s) = Tree(raw) /\ stripAllAIDs(raw) = s
    BY DEF StandsApart
  <1> HIDE DEF s, a, w
  <1> QED BY <1>1, <1>2, <1>3, <1>4, <1>5, <1>6 DEF StampsTo

\* The elements of two texts with the same tree.
SameTree(o, p) ==
    /\ DOMAIN p = DOMAIN o
    /\ \A i \in DOMAIN o :
          /\ p[i].at = o[i].at /\ p[i].close = o[i].close /\ p[i].tag = o[i].tag /\ p[i].ns = o[i].ns
          /\ (p[i].ns # "html" /\ SelfCloses(p[i].text)) <=> (o[i].ns # "html" /\ SelfCloses(o[i].text))

LEMMA TreeOf ==
    ASSUME NEW s, NEW w
    PROVE  Tree(s) = Tree(w) <=> SameTree(scanOpenTags(s), scanOpenTags(w))
  <1> DEFINE o == scanOpenTags(s)
             p == scanOpenTags(w)
             a == Tree(s)
             b == Tree(w)
  <1>1. /\ a = [i \in DOMAIN o |->
              [at |-> o[i].at, close |-> o[i].close, tag |-> o[i].tag, ns |-> o[i].ns,
               closes |-> o[i].ns # "html" /\ SelfCloses(o[i].text)]]
        /\ b = [i \in DOMAIN p |->
              [at |-> p[i].at, close |-> p[i].close, tag |-> p[i].tag, ns |-> p[i].ns,
               closes |-> p[i].ns # "html" /\ SelfCloses(p[i].text)]]
    BY DEF Tree
  <1> HIDE DEF o, p, a, b
  <1>2. ASSUME a = b PROVE SameTree(o, p)
    <2>1. DOMAIN o = DOMAIN p
      BY <1>1, <1>2
    <2>2. ASSUME NEW i \in DOMAIN o
          PROVE  /\ p[i].at = o[i].at /\ p[i].close = o[i].close /\ p[i].tag = o[i].tag /\ p[i].ns = o[i].ns
                 /\ (p[i].ns # "html" /\ SelfCloses(p[i].text)) <=> (o[i].ns # "html" /\ SelfCloses(o[i].text))
      <3> DEFINE c == o[i].ns # "html" /\ SelfCloses(o[i].text)
                 d == p[i].ns # "html" /\ SelfCloses(p[i].text)
      <3>1. a[i] = [at |-> o[i].at, close |-> o[i].close, tag |-> o[i].tag, ns |-> o[i].ns, closes |-> c]
        BY <1>1
      <3>2. b[i] = [at |-> p[i].at, close |-> p[i].close, tag |-> p[i].tag, ns |-> p[i].ns, closes |-> d]
        BY <1>1, <2>1
      <3> HIDE DEF c, d
      <3>3. a[i].closes = c /\ b[i].closes = d
        BY <3>1, <3>2
      <3>4. a[i].closes = b[i].closes
        BY <1>2
      <3>5. c = d
        BY <3>3, <3>4
      <3>6. p[i].at = o[i].at /\ p[i].close = o[i].close /\ p[i].tag = o[i].tag /\ p[i].ns = o[i].ns
        BY <1>2, <3>1, <3>2
      <3> QED BY <3>5, <3>6 DEF c, d
    <2> QED BY <2>1, <2>2 DEF SameTree
  <1>3. ASSUME SameTree(o, p) PROVE a = b
    <2>1. DOMAIN p = DOMAIN o
      BY <1>3 DEF SameTree
    <2>2. ASSUME NEW i \in DOMAIN o
          PROVE  /\ p[i].at = o[i].at /\ p[i].close = o[i].close /\ p[i].tag = o[i].tag /\ p[i].ns = o[i].ns
                 /\ (p[i].ns # "html" /\ SelfCloses(p[i].text)) = (o[i].ns # "html" /\ SelfCloses(o[i].text))
      BY <1>3, <2>2 DEF SameTree
    <2> QED BY <1>1, <2>1, <2>2
  <1> QED BY <1>2, <1>3 DEF a, b, o, p

\* The place of an element before the identities are taken out, after it and stamped.
AtElement(raw, s, w, a, o, p) ==
    /\ p.at = o.at /\ o.at \in 1 .. Len(raw)
    /\ raw[o.at].kind = "open" /\ p.text = raw[o.at].text
    /\ s[o.at] = WithText(raw[o.at], Cleaned(p)) /\ o.text = Cleaned(p)
    /\ Bare(o.text) /\ Sound(o.text)
    /\ TagStamped(s, w, a, o)

LEMMA ElementsAreAt ==
    ASSUME NEW raw, NEW s, NEW w, NEW a, NEW V, NEW W, StampsTo(raw, s, w, a, V, W)
    PROVE  /\ DOMAIN scanOpenTags(raw) = DOMAIN scanOpenTags(s)
           /\ \A j \in DOMAIN scanOpenTags(s) :
                 /\ scanOpenTags(raw)[j] \in ScanElement(V, Len(raw))
                 /\ AtElement(raw, s, w, a, scanOpenTags(s)[j], scanOpenTags(raw)[j])
  <1> DEFINE opens == scanOpenTags(raw)
             found == scanOpenTags(s)
             n == Len(raw)
  <1>1. /\ TagWords \subseteq V /\ raw \in Seq(Page(V)) /\ s \in Seq(Page(V))
        /\ BareElements(found) /\ CleansTo(raw, s) /\ StampedAs(s, w, a, W) /\ Tree(s) = Tree(raw)
    BY DEF StampsTo, PlainText
  <1>2. SameTree(found, opens)
    BY <1>1, TreeOf
  <1>3. opens \in Seq(ScanElement(V, n)) /\ OfPieces(opens, raw, n) /\ OfPieces(found, s, Len(s))
    BY <1>1, ElementsTyped, ElementsFound
  <1>4. Len(s) = n /\ \A i \in DOMAIN opens : s[opens[i].at] = WithText(raw[opens[i].at], Cleaned(opens[i]))
    BY <1>1 DEF CleansTo
  <1>5. ASSUME NEW j \in DOMAIN found
        PROVE  opens[j] \in ScanElement(V, n) /\ AtElement(raw, s, w, a, found[j], opens[j])
    <2> DEFINE o == found[j]
               p == opens[j]
               piece == raw[o.at]
               x == Cleaned(p)
    <2>1. j \in DOMAIN opens /\ p.at = o.at
      BY <1>2 DEF SameTree
    <2>2. TagStamped(s, w, a, o)
      BY <1>1, TagsStamped
    <2>3. Bare(o.text) /\ Sound(o.text)
      BY <1>1 DEF BareElements
    <2> HIDE DEF opens, found
    <2>4. p \in ScanElement(V, n) /\ o.at \in 1 .. n /\ piece.kind = "open" /\ p.text = piece.text
      BY <1>3, <2>1 DEF OfPieces
    <2>5. s[o.at] = WithText(piece, x)
      BY <1>4, <2>1
    <2>6. o.text = s[o.at].text
      BY <1>3 DEF OfPieces
    <2>7. piece \in Page(V)
      BY <1>1, <2>4
    <2>8. o.text = x
      <3> HIDE DEF o, piece, x
      <3> QED BY <2>5, <2>6, <2>7, WithTextOf
    <2> QED BY <2>1, <2>2, <2>3, <2>4, <2>5, <2>8 DEF AtElement
  <1> QED BY <1>2, <1>5 DEF SameTree

\* A tag means the same without its identity and with another one.
LEMMA CleanedReadsAlike ==
    ASSUME NEW V, Space \in V, NEW e, e.text \in Seq(V), Fine(e.text), Sound(Cleaned(e))
    PROVE  Attributes(Cleaned(e), Nameless) = Attributes(StripAID(e.text), Nameless)
  <1> DEFINE y == StripAID(e.text)
  <1>1. y \in Seq(V) /\ Cleaned(e) \in Seq(V)
    BY StrippedIsFine, CleanedIsFine
  <1>2. CASE Cleaned(e) = y
    BY <1>2
  <1>3. CASE Cleaned(e) # y
    <2>1. Cleaned(e) = Append(y, Space) /\ SelfCloses(y)
      BY <1>3 DEF Cleaned
    <2> HIDE DEF y
    <2>2. Attributes(Append(y, Space), Nameless) = Attributes(y, Nameless)
      BY <1>1, <2>1, SpacedReadsAlike
    <2> QED BY <2>1, <2>2 DEF y
  <1> QED BY <1>2, <1>3

LEMMA PieceKeepsMeaning ==
    ASSUME NEW raw, NEW s, NEW w, NEW a, NEW V, NEW W, StampsTo(raw, s, w, a, V, W),
           NEW k \in 1 .. Len(raw)
    PROVE  Meaning(w[k]) = Meaning(raw[k])
  <1> DEFINE opens == scanOpenTags(raw)
             found == scanOpenTags(s)
             piece == raw[k]
  <1>1. /\ TagWords \subseteq V /\ raw \in Seq(Page(V)) /\ s \in Seq(Page(V))
        /\ CleansTo(raw, s) /\ StampedAs(s, w, a, W)
    BY DEF StampsTo, PlainText
  <1>2. Len(s) = Len(raw) /\ piece \in Page(V)
    BY <1>1 DEF CleansTo
  <1>3. CASE \A j \in DOMAIN found : found[j].at # k
    <2>1. w[k] = s[k]
      BY <1>1, <1>2, <1>3, OthersStay
    <2>2. \A j \in DOMAIN opens : opens[j].at # k
      BY <1>3, ElementsAreAt DEF AtElement
    <2>3. s[k] = raw[k]
      BY <1>1, <1>2, <2>2 DEF CleansTo
    <2> QED BY <2>1, <2>3
  <1>4. ASSUME NEW j \in DOMAIN found, found[j].at = k PROVE Meaning(w[k]) = Meaning(piece)
    <2> DEFINE o == found[j]
               p == opens[j]
    <2>1. p \in ScanElement(V, Len(raw)) /\ AtElement(raw, s, w, a, o, p) /\ o.at = k
      BY <1>4, ElementsAreAt
    <2> HIDE DEF o, p, opens, found
    <2>2. p.text \in Seq(V) /\ Fine(p.text) /\ p.text = piece.text /\ o.text = Cleaned(p) /\ Space \in V
      BY <1>1, <2>1 DEF ScanElement, AtElement, TagWords
    <2>3. \E x : /\ w[k] = WithText(s[k], x)
                 /\ StripAID(x) = o.text
      <3>1. CASE IsHarvested(o)
        BY <2>1, <3>1 DEF AtElement, TagStamped, StampOf
      <3>2. CASE ~IsHarvested(o)
        <4>1. w[k] = s[k]
          BY <2>1, <3>2 DEF AtElement, TagStamped
        <4>2. o.text \in Seq(V)
          BY <2>2, CleanedIsFine
        <4>3. StripAID(o.text) = o.text
          BY <2>1, <4>2, BareStays DEF AtElement
        <4>4. s[k] \in Page(V) /\ s[k].text = o.text
          <5>1. s[k] = WithText(piece, Cleaned(p))
            BY <2>1 DEF AtElement
          <5> QED BY <1>1, <1>2, <2>2, <5>1, WithTextOf
        <4>5. WithText(s[k], o.text) = s[k]
          BY <4>4, WithTextOf
        <4> QED BY <4>1, <4>3, <4>5
      <3> QED BY <3>1, <3>2
    <2>4. PICK x : w[k] = WithText(s[k], x) /\ StripAID(x) = o.text
      BY <2>3
    <2>5. w[k].kind = piece.kind /\ w[k].tag = piece.tag /\ w[k].text = x
      <3>1. s[k] = WithText(piece, Cleaned(p)) /\ s[k] \in Page(V)
        BY <1>1, <1>2, <2>1 DEF AtElement
      <3> HIDE DEF piece
      <3> QED BY <1>2, <2>4, <3>1, WithTextOf
    <2>6. Attributes(StripAID(x), Nameless) = Attributes(StripAID(piece.text), Nameless)
      BY <2>1, <2>2, <2>4, CleanedReadsAlike DEF AtElement
    <2> HIDE DEF piece
    <2> QED BY <2>5, <2>6 DEF Meaning
  <1> QED BY <1>3, <1>4

\* Publishing changes what no tag means: its attributes, the identity apart, are those
\* that were published, in the same pieces (stripAIDAttribute, stampedOpenTag).
THEOREM PublishingKeepsTheMeaning ==
    ASSUME NEW raw, SomePage(raw), StandsApart(raw)
    PROVE  Meanings(StampAids(raw).html) = Meanings(raw)
  <1>1. PICK s, w, a, V, W : StampsTo(raw, s, w, a, V, W)
    BY Stamping
  <1>2. w = StampAids(raw).html
    BY <1>1 DEF StampsTo
  <1>3. DOMAIN w = 1 .. Len(raw) /\ DOMAIN raw = 1 .. Len(raw)
    <2>1. raw \in Seq(Page(V)) /\ w \in Seq(Page(W)) /\ Len(w) = Len(s) /\ Len(s) = Len(raw)
      BY <1>1 DEF StampsTo, StampedAs, CleansTo
    <2> QED BY <2>1
  <1>4. \A k \in 1 .. Len(raw) : Meaning(w[k]) = Meaning(raw[k])
    BY <1>1, PieceKeepsMeaning
  <1>5. Meanings(w) = Meanings(raw)
    BY <1>3, <1>4 DEF Meanings
  <1> QED BY <1>2, <1>5

LEMMA StepKeepsTheTree ==
    ASSUME TextIsWritten, AuthorStandsApart, published => IsStampOf(html, index), Next,
           published', edits' = edits, edits \in Nat
    PROVE  Tree(html') = Tree(html) /\ Meanings(html') = Meanings(html)
  <1>1. ~Write
    BY DEF Write
  <1>2. ASSUME NEW aid, NEW fragment, ReplaceElement(aid, fragment) PROVE FALSE
    BY <1>2 DEF ReplaceElement
  <1>3. CASE FirstPublish
    <2>1. SomePage(html) /\ StandsApart(html) /\ html' = StampAids(html).html
      BY <1>3, FirstPublishIsStamp
    <2> QED BY <2>1, PublishingKeepsElements, PublishingKeepsTheMeaning
  <1>4. CASE Republish
    <2>1. IsStampOf(html, index)
      BY <1>4 DEF Republish
    <2>2. html' = html
      BY <1>4, <2>1, RepublishIsStable
    <2> QED BY <2>2
  <1> QED BY <1>1, <1>2, <1>3, <1>4 DEF Next

\* Publishing changes neither which tags are elements, nor where an element ends, nor its
\* namespace, nor what a tag means, also after elements were replaced (stripAllAIDs,
\* stampedOpenTag, scanOpenTags).
THEOREM PublishingKeepsTheTree ==
    Spec /\ []AuthorStandsApart /\ []EditsStandApart => StampingKeepsTheTree
  <1>1. TextIsWritten /\ AuthorStandsApart /\ EditedRoundTrip /\ RoundTrip /\ [Next]_vars =>
            [published' /\ edits' = edits =>
               Tree(html') = Tree(html) /\ Meanings(html') = Meanings(html)]_vars
    BY StepKeepsTheTree DEF EditedRoundTrip, RoundTrip
  <1> QED BY <1>1, EditedRoundTripHolds, RoundTripHolds, WrittenHolds, PTL
          DEF Spec, StampingKeepsTheTree

\* Until an element is replaced all three need nothing of the edits to come: the index is
\* served, publishing again changes nothing, and no publish changes an element or a tag.
THEOREM UneditedRoundTrip ==
    Spec /\ []AuthorStandsApart =>
        /\ [](edits = 0 => IndexIsServed)
        /\ [][edits = 0 /\ published /\ edits' = edits => UNCHANGED <<html, index>>]_vars
        /\ [][edits = 0 /\ published' /\ edits' = edits =>
               Tree(html') = Tree(html) /\ Meanings(html') = Meanings(html)]_vars
  <1>1. RoundTrip => (edits = 0 => IndexIsServed)
    BY StampIsIndexed DEF RoundTrip
  <1>2. RoundTrip /\ [Next]_vars =>
            [edits = 0 /\ published /\ edits' = edits => UNCHANGED <<html, index>>]_vars
    BY StepIsStable DEF RoundTrip
  <1>3. TextIsWritten /\ AuthorStandsApart /\ RoundTrip /\ [Next]_vars =>
            [edits = 0 /\ published' /\ edits' = edits =>
               Tree(html') = Tree(html) /\ Meanings(html') = Meanings(html)]_vars
    BY StepKeepsTheTree DEF RoundTrip
  <1> QED BY <1>1, <1>2, <1>3, RoundTripHolds, WrittenHolds, PTL DEF Spec

-------------------------------------------------------------------------------
(* The fragment in the place of an element.                                  *)

\* text is base with the fragment in the place of what stands from at to last.
Fits(base, at, last, fragment, text) ==
    /\ Len(base) \in Nat /\ at \in 1 .. Len(base) /\ last \in 1 .. Len(base)
    /\ Len(fragment) \in Nat \ {0}
    /\ Len(text) = (at - 1) + Len(fragment) + (Len(base) - last)
    /\ \A k \in 1 .. (at - 1) : text[k] = base[k]
    /\ \A k \in 1 .. Len(fragment) : text[(at - 1) + k] = fragment[k]
    /\ \A k \in 1 .. (Len(base) - last) : text[(at - 1) + Len(fragment) + k] = base[last + k]

LEMMA JoinedFits ==
    ASSUME NEW P, NEW base \in Seq(P), NEW at \in 1 .. Len(base), NEW last \in 1 .. Len(base),
           NEW fragment \in Seq(P), fragment # <<>>, NEW text,
           text = SubSeq(base, 1, at - 1) \o fragment \o SubSeq(base, last + 1, Len(base))
    PROVE  text \in Seq(P) /\ Fits(base, at, last, fragment, text)
  <1> DEFINE n == Len(base)
             m == Len(fragment)
             p == at - 1
             q == last + 1
             a == SubSeq(base, 1, p)
             c == SubSeq(base, q, n)
             d == a \o fragment
  <1>1. n \in Nat /\ m \in Nat \ {0} /\ p \in 0 .. n /\ q \in 1 .. (n + 1) /\ n \in (q - 1) .. n
        /\ p \in (1 - 1) .. n /\ 1 \in 1 .. (n + 1)
    OBVIOUS
  <1>2. a \in Seq(P) /\ Len(a) = p - 1 + 1 /\ \A j \in 1 .. (p - 1 + 1) : a[j] = base[1 + j - 1]
    <2> HIDE DEF p
    <2> QED BY <1>1, Slices
  <1>3. c \in Seq(P) /\ Len(c) = n - q + 1 /\ \A j \in 1 .. (n - q + 1) : c[j] = base[q + j - 1]
    <2> HIDE DEF q
    <2> QED BY <1>1, Slices
  <1> HIDE DEF a, c
  <1>4. d \in Seq(P) /\ Joins(d, a, fragment)
    BY <1>2, Joined
  <1> HIDE DEF d
  <1>5. d \o c \in Seq(P) /\ Joins(d \o c, d, c)
    BY <1>3, <1>4, Joined
  <1>6. text = d \o c
    BY DEF d, a, c
  <1>7. text \in Seq(P) /\ Joins(text, d, c)
    BY <1>5, <1>6
  <1> HIDE DEF n, m
  <1>8. Len(a) = p /\ Len(c) = n - last /\ Len(d) = p + m /\ Len(text) = p + m + (n - last)
    <2>1. Len(d) = Len(a) + m /\ Len(text) = Len(d) + Len(c)
      BY <1>4, <1>7 DEF Joins, m
    <2>2. Len(a) = p
      BY <1>1, <1>2
    <2>3. Len(c) = n - last
      <3>1. last \in Int /\ n \in Int
        BY <1>1
      <3> QED BY <1>3, <3>1
    <2> QED BY <2>1, <2>2, <2>3
  <1>9. \A k \in 1 .. p : text[k] = base[k]
    <2> TAKE k \in 1 .. p
    <2>1. a[k] = base[k] /\ k \in 1 .. Len(a) /\ k \in 1 .. Len(d)
      BY <1>1, <1>2, <1>8
    <2> QED BY <1>4, <1>7, <2>1 DEF Joins
  <1>10. \A k \in 1 .. m : text[p + k] = fragment[k]
    <2> TAKE k \in 1 .. m
    <2>1. d[p + k] = fragment[k] /\ p + k \in 1 .. Len(d)
      BY <1>1, <1>4, <1>8 DEF Joins, m
    <2> QED BY <1>7, <2>1 DEF Joins
  <1>11. \A k \in 1 .. (n - last) : text[p + m + k] = base[last + k]
    <2> TAKE k \in 1 .. (n - last)
    <2>1. c[k] = base[q + k - 1] /\ q + k - 1 = last + k /\ k \in 1 .. Len(c)
      BY <1>1, <1>3, <1>8
    <2>2. text[Len(d) + k] = c[k]
      BY <1>7, <2>1 DEF Joins
    <2> QED BY <1>8, <2>1, <2>2
  <1> QED BY <1>1, <1>7, <1>8, <1>9, <1>10, <1>11 DEF Fits, n, m

\* raw is text with an identity in the tag at this place.
Bearing(V, text, raw, at, aid) ==
    /\ TagWords \subseteq V /\ text \in Seq(Page(V)) /\ raw \in Seq(Page(V)) /\ IsAID(aid) /\ aid \in V
    /\ Len(raw) = Len(text) /\ at \in 1 .. Len(text)
    /\ text[at].kind = "open" /\ Bare(text[at].text) /\ Sound(text[at].text)
    /\ raw[at] = WithText(text[at], InjectRootAID(text[at].text, aid))
    /\ \A k \in 1 .. Len(text) : k # at => raw[k] = text[k]

\* An element that is replaced, and a fragment for it.
Replacement(base, e, fragment) ==
    SubSeq(base, 1, e.at - 1) \o fragment \o SubSeq(base, CloseEnd(e) + 1, Len(base))

LEMMA ReplacedBears ==
    ASSUME NEW base, SomePage(base), NEW aid, IsAID(aid), NEW e \in ElementByAID(base, aid),
           NEW fragment \in Fragments, IsHarvestableReplacementRoot(fragment),
           \A i \in DOMAIN fragment : ~HasDataOdoc(fragment[i].text),
           NEW text, text = Replacement(base, e, fragment),
           NEW raw, raw = Replaced(base, e, aid, fragment)
    PROVE  /\ Fits(base, e.at, CloseEnd(e), fragment, text)
           /\ \E V : base \in Seq(Page(V)) /\ Bearing(V, text, raw, e.at, aid)
  <1>1. PICK U : TagWords \subseteq U /\ base \in Seq(Page(U))
    BY DEF SomePage
  <1>2. fragment \in Seq(Written) /\ IsDocument(fragment)
    BY FragmentAssumption
  <1>3. fragment # <<>> /\ fragment[1].kind = "open"
    BY DEF IsHarvestableReplacementRoot, SingleTopLevelTag
  <1>4. 1 \in DOMAIN fragment /\ fragment[1] \in Written
    BY <1>2, <1>3
  <1> DEFINE t == fragment[1].text
             V == U \cup Character \cup {aid}
             x == InjectRootAID(t, aid)
             root == [fragment[1] EXCEPT !.text = x]
             injected == [fragment EXCEPT ![1] = root]
             at == e.at
             last == CloseEnd(e)
             n == Len(base)
             m == Len(fragment)
  <1>5. t \in Seq(Character) /\ Author(t) /\ NamesBeginWithNoEquals(t) /\ ~HasDataOdoc(t)
        /\ Terminated(t) /\ EndsOutsideValue(t)
    BY <1>2, <1>3, <1>4, PiecesAreWritten DEF IsDocument, Author
  <1>6. Stamper(t) /\ Bare(t) /\ Sound(t)
    BY <1>5, PlainIsFine DEF Sound, Author
  <1>7. U \subseteq V /\ Character \subseteq V /\ aid \in V /\ TagWords \subseteq V
    BY <1>1
  <1>8. raw = SubSeq(base, 1, at - 1) \o injected \o SubSeq(base, last + 1, n)
    BY DEF Replaced
  <1> HIDE DEF V
  <1>9. t \in Seq(V)
    BY <1>5, <1>7, SeqGrows
  <1>10. x \in Seq(V) /\ Fine(x)
    <2> HIDE DEF t
    <2> QED BY <1>6, <1>7, <1>9, InjectedTagIsFine DEF Fine
  <1>11. fragment \in Seq(Page(V))
    BY <1>2, <1>7, WrittenPage, PageGrows
  <1>12. fragment[1] \in Page(V)
    BY <1>4, <1>11
  <1>13. root \in Page(V)
    <2> HIDE DEF x
    <2> QED BY <1>10, <1>12 DEF Page
  <1> HIDE DEF root
  <1>14. injected \in Seq(Page(V)) /\ Len(injected) = m /\ injected[1] = root
         /\ \A k \in 2 .. m : injected[k] = fragment[k]
    <2>1. \A s \in Seq(Page(V)) : \A y \in Page(V) : 1 \in DOMAIN s =>
              LET r == [s EXCEPT ![1] = y] IN
              r \in Seq(Page(V)) /\ Len(r) = Len(s) /\ r[1] = y /\ \A k \in 2 .. Len(s) : r[k] = s[k]
      OBVIOUS
    <2> QED BY <1>4, <1>11, <1>13, <2>1
  <1> HIDE DEF injected
  <1>15. at \in 1 .. n /\ last \in 1 .. n
    BY <1>1, FoundElement
  <1>16. base \in Seq(Page(V))
    BY <1>1, <1>7, PageGrows
  <1>17. text = SubSeq(base, 1, at - 1) \o fragment \o SubSeq(base, last + 1, n)
    BY DEF Replacement
  <1>18. m \in Nat \ {0}
    BY <1>2, <1>3
  <1>19. injected # <<>>
    BY <1>14, <1>18
  <1> HIDE DEF at, last, n, t
  <1>20. text \in Seq(Page(V)) /\ Fits(base, at, last, fragment, text)
    BY <1>3, <1>11, <1>15, <1>16, <1>17, JoinedFits DEF n
  <1>21. raw \in Seq(Page(V)) /\ Fits(base, at, last, injected, raw)
    BY <1>8, <1>14, <1>15, <1>16, <1>19, JoinedFits DEF n
  <1> HIDE DEF m
  <1>22. /\ n \in Nat /\ Len(text) = (at - 1) + m + (n - last) /\ Len(raw) = Len(text)
         /\ \A k \in 1 .. (at - 1) : text[k] = base[k] /\ raw[k] = base[k]
         /\ \A k \in 1 .. m : text[(at - 1) + k] = fragment[k] /\ raw[(at - 1) + k] = injected[k]
         /\ \A k \in 1 .. (n - last) : text[(at - 1) + m + k] = base[last + k]
                                       /\ raw[(at - 1) + m + k] = base[last + k]
    BY <1>14, <1>20, <1>21 DEF Fits, n, m
  <1>23. \A k \in 1 .. Len(text) : k # at => raw[k] = text[k]
    <2> TAKE k \in 1 .. Len(text)
    <2> HAVE k # at
    <2>1. CASE k \in 1 .. (at - 1)
      BY <1>22, <2>1
    <2>2. CASE k - (at - 1) \in 2 .. m
      <3>1. k = (at - 1) + (k - (at - 1))
        BY <1>15
      <3>2. k - (at - 1) \in 1 .. m
        BY <2>2, <1>18
      <3> QED BY <1>14, <1>22, <2>2, <3>1, <3>2
    <2>3. CASE k - (at - 1) - m \in 1 .. (n - last)
      <3>1. k = (at - 1) + m + (k - (at - 1) - m)
        BY <1>15, <1>18
      <3> QED BY <1>22, <2>3, <3>1
    <2> QED BY <1>15, <1>18, <1>22, <2>1, <2>2, <2>3
  <1>24. at \in 1 .. Len(text) /\ text[at] = fragment[1] /\ raw[at] = root
    <2>1. 1 \in 1 .. m /\ at = (at - 1) + 1
      BY <1>15, <1>18
    <2>2. text[at] = fragment[1] /\ raw[at] = injected[1]
      BY <1>22, <2>1
    <2>3. at \in 1 .. Len(text)
      BY <1>15, <1>18, <1>22
    <2> QED BY <1>14, <2>2, <2>3
  <1>25. root = WithText(fragment[1], InjectRootAID(t, aid))
    BY DEF root, WithText
  <1>26. Bearing(V, text, raw, at, aid)
    BY <1>3, <1>6, <1>7, <1>20, <1>21, <1>22, <1>23, <1>24, <1>25 DEF Bearing, t
  <1> QED BY <1>16, <1>20, <1>26 DEF at, last

\* The tag with the identity is read like the one without.
LEMMA BearingReadsAlike ==
    ASSUME NEW V, NEW text, NEW raw, NEW at, NEW aid, Bearing(V, text, raw, at, aid), IsDocument(raw)
    PROVE  Tree(raw) = Tree(text) /\ Meanings(raw) = Meanings(text)
  <1> DEFINE piece == text[at]
             t == piece.text
             x == InjectRootAID(t, aid)
             n == Len(text)
             opens == scanOpenTags(text)
             found == scanOpenTags(raw)
  <1>1. /\ TagWords \subseteq V /\ text \in Seq(Page(V)) /\ raw \in Seq(Page(V)) /\ IsAID(aid) /\ aid \in V
        /\ Len(raw) = n /\ at \in 1 .. n
        /\ piece.kind = "open" /\ Bare(t) /\ Sound(t) /\ raw[at] = WithText(piece, x)
        /\ \A k \in 1 .. n : k # at => raw[k] = text[k]
    BY DEF Bearing
  <1>2. piece \in Page(V) /\ t \in Seq(V)
    <2>1. piece \in Page(V)
      BY <1>1
    <2> QED BY <2>1 DEF Page
  <1> HIDE DEF piece
  <1>3. raw[at].kind = "open" /\ raw[at].tag = piece.tag /\ raw[at].text = x
    <2> HIDE DEF x, t
    <2> QED BY <1>1, <1>2, WithTextOf
  <1>4. SlashIsApart(x)
    <2>1. at \in DOMAIN raw
      BY <1>1
    <2> HIDE DEF x
    <2> QED BY <1>3, <2>1 DEF IsDocument
  <1> HIDE DEF t, x
  <1>5. Injected(x, t)
    BY <1>1, <1>2, <1>4, InjectedReadsAlike DEF x
  <1>6. (SelfCloses(x) <=> SelfCloses(t)) /\ AttrValue(x, Encoding) = AttrValue(t, Encoding)
        /\ Attributes(StripAID(x), Nameless) = Attributes(t, Nameless)
    BY <1>5 DEF Injected
  <1>7. \A k \in 1 .. n : PiecesAlike(text[k], raw[k])
    <2> TAKE k \in 1 .. n
    <2>1. CASE k # at
      BY <1>1, <2>1 DEF PiecesAlike
    <2>2. CASE k = at
      BY <1>1, <1>3, <1>6, <2>2 DEF PiecesAlike, piece, t
    <2> QED BY <2>1, <2>2
  <1>8. \A k \in 1 .. n : SelfCloses(raw[k].text) <=> SelfCloses(text[k].text)
    <2> TAKE k \in 1 .. n
    <2>1. CASE k # at
      BY <1>1, <2>1
    <2>2. CASE k = at
      BY <1>3, <1>6, <2>2 DEF piece, t
    <2> QED BY <2>1, <2>2
  <1>9. OfPieces(opens, text, n) /\ OfPieces(found, raw, n)
    BY <1>1, ElementsFound
  <1>10. AlikeTexts(text, raw)
    <2>1. \A i \in DOMAIN opens : opens[i].at \in 1 .. n
      BY <1>9 DEF OfPieces
    <2> QED BY <1>1, <1>7, <1>8, <2>1 DEF AlikeTexts
  <1>11. TwinElements(opens, found)
    BY <1>1, <1>10, TwinScans
  <1> HIDE DEF opens, found, n
  <1>12. SameTree(opens, found)
    <2>1. ASSUME NEW i \in DOMAIN opens
          PROVE  /\ found[i].at = opens[i].at /\ found[i].close = opens[i].close
                 /\ found[i].tag = opens[i].tag /\ found[i].ns = opens[i].ns
                 /\ SelfCloses(found[i].text) <=> SelfCloses(opens[i].text)
      <3>1. Twins(opens[i], found[i]) /\ i \in DOMAIN found
        BY <1>11 DEF TwinElements
      <3>2. found[i].at = opens[i].at /\ found[i].close = opens[i].close
            /\ found[i].tag = opens[i].tag /\ found[i].ns = opens[i].ns
        BY <3>1 DEF Twins
      <3>3. opens[i].at \in 1 .. n /\ opens[i].text = text[opens[i].at].text
            /\ found[i].text = raw[found[i].at].text
        BY <1>9, <3>1 DEF OfPieces
      <3> QED BY <1>8, <3>2, <3>3
    <2> QED BY <1>11, <2>1 DEF SameTree, TwinElements
  <1>13. Tree(raw) = Tree(text)
    BY <1>12, TreeOf DEF opens, found
  <1>14. \A k \in 1 .. n : Meaning(raw[k]) = Meaning(text[k])
    <2> TAKE k \in 1 .. n
    <2>1. CASE k # at
      BY <1>1, <2>1
    <2>2. CASE k = at
      <3>1. StripAID(t) = t
        BY <1>1, <1>2, BareStays
      <3> QED BY <1>1, <1>3, <1>6, <2>2, <3>1 DEF Meaning, piece, t
    <2> QED BY <2>1, <2>2
  <1>15. DOMAIN raw = 1 .. n /\ DOMAIN text = 1 .. n
    BY <1>1 DEF n
  <1>16. Meanings(raw) = Meanings(text)
    BY <1>14, <1>15 DEF Meanings
  <1> QED BY <1>13, <1>16

-------------------------------------------------------------------------------
(* Where scans meet.                                                         *)

\* Texts that begin alike are scanned alike as far as that.
SameBeginning(s, w, m) ==
    m \in Nat /\ m <= Len(s) /\ m <= Len(w) /\ \A k \in 1 .. m : w[k] = s[k]

LEMMA BeginningsScanAlike ==
    ASSUME NEW V, NEW s, NEW w, NEW u, NEW v, ScanRun(u, V, s), ScanRun(v, V, w),
           Len(s) \in Nat, Len(w) \in Nat, NEW m, SameBeginning(s, w, m)
    PROVE  \A k \in 0 .. m : v[k] = u[k]
  <1> DEFINE T == {k \in Nat : v[k] = u[k]}
  <1>1. 0 \in T
    BY DEF ScanRun
  <1>2. ASSUME NEW k \in 0 .. (m - 1), k \in T PROVE k + 1 \in T
    <2> DEFINE j == k + 1
    <2>1. j \in Nat /\ j \in 1 .. m /\ j \in 1 .. Len(s) /\ j \in 1 .. Len(w) /\ j - 1 = k
      BY DEF SameBeginning
    <2> HIDE DEF j
    <2>2. u[j] = ScanPiece(u[k], s[j], j) /\ v[j] = ScanPiece(v[k], w[j], j)
      BY <2>1 DEF ScanRun
    <2>3. w[j] = s[j] /\ v[k] = u[k]
      BY <1>2, <2>1 DEF SameBeginning
    <2> QED BY <2>1, <2>2, <2>3 DEF j
  <1>3. ASSUME NEW k \in 0 .. m PROVE k \in T
    <2>1. m \in Nat
      BY DEF SameBeginning
    <2> HIDE DEF T
    <2> QED BY <1>1, <1>2, <2>1, InductUpTo
  <1> QED BY <1>3

\* Every element was entered by the scan at its open tag.
Begun(u, text, e) == Opens(u[e.at - 1], text[e.at]) /\ e.ns = Entered(u[e.at - 1], text[e.at].tag)

LEMMA FoundIsEntered ==
    ASSUME NEW V, NEW text \in Seq(Page(V)), NEW u, GrowingRun(u, V, text),
           NEW m \in 0 .. Len(text), NEW i \in DOMAIN u[m].opens
    PROVE  Begun(u, text, u[m].opens[i])
  <1> DEFINE n == Len(text)
             T == {k \in Nat : \A j \in DOMAIN u[k].opens : Begun(u, text, u[k].opens[j])}
  <1>0. n \in Nat
    OBVIOUS
  <1>1. 0 \in T
    <2>1. 0 \in 0 .. n
      BY <1>0
    <2>2. OfPieces(u[0].opens, text, 0)
      BY <2>1 DEF GrowingRun
    <2>3. DOMAIN u[0].opens = {}
      BY <2>2 DEF OfPieces
    <2> QED BY <2>3
  <1>2. ASSUME NEW k \in 0 .. (n - 1), k \in T PROVE k + 1 \in T
    <2> DEFINE q == k + 1
               s == u[k]
               r == u[q]
               l == Len(s.opens)
    <2>1. q \in Nat /\ q \in 1 .. n /\ q - 1 = k /\ k \in 0 .. n /\ q \in 0 .. n
      BY <1>0
    <2> HIDE DEF q
    <2>2. Grown(s, text[q], q, r) /\ s \in Scan(V, n) /\ r \in Scan(V, n)
      BY <2>1 DEF GrowingRun
    <2>3. \A j \in DOMAIN s.opens : Begun(u, text, s.opens[j])
      BY <1>2
    <2>4. DOMAIN s.opens = 1 .. l /\ l \in Nat
      <3>1. s.opens \in Seq(ScanElement(V, n))
        BY <2>2, ScanOf
      <3> QED BY <3>1
    <2>5. ASSUME NEW j \in DOMAIN r.opens PROVE Begun(u, text, r.opens[j])
      <3>1. CASE j \in DOMAIN s.opens
        <4>1. Keeps(s.opens[j], r.opens[j])
          BY <2>2, <3>1 DEF Grown, Extends
        <4> QED BY <2>3, <3>1, <4>1 DEF Keeps, Begun
      <3>2. CASE j \notin DOMAIN s.opens
        <4>1. Opens(s, text[q]) /\ DOMAIN r.opens = 1 .. (l + 1)
              /\ IsOf(r.opens[l + 1], text[q], q, Entered(s, text[q].tag))
          BY <2>2, <2>5, <3>2 DEF Grown
        <4>2. j = l + 1
          BY <2>4, <2>5, <3>2, <4>1
        <4> QED BY <2>1, <4>1, <4>2 DEF IsOf, Begun
      <3> QED BY <3>1, <3>2
    <2> QED BY <2>1, <2>5 DEF q
  <1>3. m \in T
    <2> HIDE DEF T, n
    <2>1. m \in 0 .. n
      BY DEF n
    <2> QED BY <1>0, <1>1, <1>2, <2>1, InductUpTo
  <1> QED BY <1>3

-------------------------------------------------------------------------------
(* The root of a replacement bears the identity that it is pinned to.        *)

\* The elements that are harvested where one is pinned.
PinnedToHarvest(opens, at) == {i \in DOMAIN opens : opens[i].at = at \/ IsHarvested(opens[i])}

PinnedHarvest(text, at, h) ==
    /\ Apart(h, Len(text))
    /\ \A i \in DOMAIN h : \E j \in DOMAIN scanOpenTags(text) : h[i] = scanOpenTags(text)[j]
    /\ \A j \in DOMAIN scanOpenTags(text) :
          scanOpenTags(text)[j].at = at => \E i \in DOMAIN h : h[i] = scanOpenTags(text)[j]

LEMMA HarvestPinned ==
    ASSUME NEW V, NEW text \in Seq(Page(V)), NEW at
    PROVE  PinnedHarvest(text, at, Harvest(text, at))
  <1> DEFINE opens == scanOpenTags(text)
             S == PinnedToHarvest(opens, at)
             n == Len(opens)
             h == Harvest(text, at)
  <1>1. opens \in Seq(ScanElement(V, Len(text)))
    BY ElementsTyped
  <1>2. h = Subsequence(opens, S)
    BY DEF Harvest, PinnedToHarvest
  <1>3. h \in Seq(ScanElement(V, Len(text))) /\ Apart(opens, Len(text))
    BY HarvestTyped, HarvestApart
  <1> HIDE DEF opens, h
  <1>4. DOMAIN opens = 1 .. n
    BY <1>1
  <1>5. S \cap (1 .. n) = S /\ S \subseteq DOMAIN opens
    BY <1>4 DEF PinnedToHarvest
  <1> HIDE DEF S, n
  <1>6. \E by : Picks(by, opens, S \cap (1 .. n), Subsequence(opens, S))
    BY <1>1, SubsequencePicks DEF n
  <1>7. PICK by : Picks(by, opens, S, h)
    BY <1>2, <1>5, <1>6
  <1>8. Apart(h, Len(text))
    BY <1>3, <1>5, <1>7, PicksApart
  <1>9. DOMAIN h = 1 .. Len(h)
    BY <1>3
  <1>10. \A i \in DOMAIN h : \E j \in DOMAIN opens : h[i] = opens[j]
    BY <1>5, <1>7, <1>9 DEF Picks
  <1>11. \A j \in S : \E i \in DOMAIN h : h[i] = opens[j]
    BY <1>7, <1>9 DEF Picks
  <1>12. \A j \in DOMAIN opens : opens[j].at = at => j \in S
    BY DEF S, PinnedToHarvest
  <1> QED BY <1>8, <1>10, <1>11, <1>12 DEF PinnedHarvest, opens, h

\* The artifact of the pinned element.
PinnedAs(a, e, aid) ==
    a.aid = aid /\ \E c : a.text = StampedOpenTag(e.text, aid, c)

LEMMA PinnedArtifact ==
    ASSUME NEW V, NEW e, e.text \in Seq(V), Bare(e.text), NEW text, NEW headings, NEW aid, aid # NoAID
    PROVE  PinnedAs(Artifact(text, e, headings, aid, e.at), e, aid)
  <1>1. StripAID(e.text) = e.text
    BY BareStays
  <1> QED BY <1>1 DEF Artifact, PinnedAs

LEMMA ArtifactIsAt ==
    ASSUME NEW text, NEW e, NEW headings, NEW aid, NEW at
    PROVE  Artifact(text, e, headings, aid, at).at = e.at
  BY DEF Artifact

LEMMA PinnedIsBorne ==
    ASSUME NEW V, NEW s, PlainText(s, V), NEW j \in DOMAIN scanOpenTags(s),
           NEW at, at = scanOpenTags(s)[j].at, NEW aid, IsAID(aid), aid # NoAID
    PROVE  \E c : StampAt(s, aid, at).html[at] =
                      WithText(s[at], StampedOpenTag(scanOpenTags(s)[j].text, aid, c))
  <1> DEFINE opens == scanOpenTags(s)
             e == opens[j]
             h == Harvest(s, at)
             heads == collectHeadings(s)
             a == ArtifactsOf(s, h, heads, aid, at)
             n == Len(s)
             m == Len(h)
  <1>1. TagWords \subseteq V /\ s \in Seq(Page(V)) /\ BareElements(opens)
    BY DEF PlainText
  <1>2. PinnedHarvest(s, at, h) /\ h \in Seq(ScanElement(V, n)) /\ opens \in Seq(ScanElement(V, n))
    BY <1>1, HarvestPinned, HarvestTyped, ElementsTyped
  <1>3. PICK k \in DOMAIN h : h[k] = e
    BY <1>2 DEF PinnedHarvest
  <1>4. StampAt(s, aid, at) = Stamped(s, a)
    <2>1. h[k].at = at
      BY <1>3
    <2> HIDE DEF h
    <2> QED BY <2>1 DEF StampAt, StampElements, h
  <1>5. StampAt(s, aid, at).html = Rewrite(s, a)
    BY <1>4 DEF Stamped
  <1>6. PICK R, W : V \subseteq W /\ AllFine(a, R, W)
    BY <1>1, <1>2, ArtifactsAreFine
  <1>7. AreArtifacts(a, s, h, heads, aid, at)
    BY <1>2, ArtifactsEach
  <1> HIDE DEF a, h, heads
  <1>8. a \in Seq(R) /\ Len(a) = m /\ m \in Nat /\ DOMAIN a = 1 .. m /\ DOMAIN h = 1 .. m
    <2>1. a \in Seq(R) /\ Len(a) = m
      BY <1>6, <1>7 DEF AllFine, AreArtifacts
    <2> QED BY <1>2, <2>1
  <1>9. \A i \in DOMAIN a : a[i].text \in Seq(W) /\ Fine(a[i].text)
    <2>1. \A i \in DOMAIN a : a[i] \in R
      BY <1>8
    <2> QED BY <1>6, <2>1 DEF AllFine
  <1>10. \A i \in DOMAIN a : a[i] = Artifact(s, h[i], heads, aid, at)
    BY <1>7, <1>8 DEF AreArtifacts
  <1>11. \A i \in DOMAIN a : a[i].at = h[i].at
    BY <1>10, ArtifactIsAt
  <1>12. Apart(a, n)
    BY <1>2, <1>8, <1>11 DEF Apart, PinnedHarvest
  <1>13. s \in Seq(Page(W))
    BY <1>1, <1>6, PageGrows
  <1> DEFINE w == Rewrite(s, a)
  <1>14. Rewritten(s, a, Len(a), w)
    BY <1>8, <1>9, <1>12, <1>13, RewrittenEach DEF n
  <1> HIDE DEF w
  <1>15. w[a[k].at] = WithText(s[a[k].at], a[k].text)
    BY <1>3, <1>8, <1>14 DEF Rewritten
  <1>16. e.text \in Seq(V) /\ Bare(e.text) /\ e.at = at
    <2>1. e \in ScanElement(V, n)
      BY <1>2
    <2> HIDE DEF e
    <2>2. e.text \in Seq(V)
      BY <2>1 DEF ScanElement
    <2> QED BY <1>1, <2>2 DEF BareElements, e
  <1> HIDE DEF e
  <1>17. a[k] = Artifact(s, e, heads, aid, e.at)
    BY <1>3, <1>8, <1>10, <1>16
  <1>18. \E c : a[k].text = StampedOpenTag(e.text, aid, c)
    <2>1. PinnedAs(Artifact(s, e, heads, aid, e.at), e, aid)
      BY <1>16, PinnedArtifact
    <2> QED BY <1>17, <2>1 DEF PinnedAs
  <1>19. a[k].at = at
    BY <1>3, <1>8, <1>11, <1>16
  <1>20. \E c : w[at] = WithText(s[at], StampedOpenTag(e.text, aid, c))
    BY <1>15, <1>18, <1>19
  <1> QED BY <1>5, <1>20 DEF w, e, opens

\* Behind the same beginning an open tag is an element again.
LEMMA StillElement ==
    ASSUME NEW V, NEW base \in Seq(Page(V)), NEW raw \in Seq(Page(V)),
           NEW j \in DOMAIN scanOpenTags(base), NEW at, at = scanOpenTags(base)[j].at,
           at \in 1 .. Len(raw), SameBeginning(base, raw, at - 1), raw[at].kind = "open"
    PROVE  \E i \in DOMAIN scanOpenTags(raw) : scanOpenTags(raw)[i].at = at
  <1>1. PICK u : ScanRun(u, V, base)
    BY ScanRuns
  <1>2. PICK v : ScanRun(v, V, raw)
    BY ScanRuns
  <1>3. GrowingRun(u, V, base) /\ GrowingRun(v, V, raw)
    BY <1>1, <1>2, RunGrows
  <1> DEFINE n == Len(base)
  <1>4. n \in Nat /\ n \in 0 .. n /\ Len(raw) \in Nat
    OBVIOUS
  <1>5. scanOpenTags(base) = u[n].opens /\ scanOpenTags(raw) = v[Len(raw)].opens
    BY <1>1, <1>2 DEF ScanRun
  <1>6. Begun(u, base, u[n].opens[j])
    BY <1>3, <1>4, <1>5, FoundIsEntered
  <1>7. u[at - 1].mode = "data"
    BY <1>5, <1>6 DEF Begun, Opens
  <1>8. at - 1 \in 0 .. (at - 1) /\ v[at - 1] = u[at - 1]
    BY <1>1, <1>2, <1>4, BeginningsScanAlike
  <1>9. Opens(v[at - 1], raw[at])
    BY <1>7, <1>8 DEF Opens
  <1> HIDE DEF n
  <1>10. GrowingRun(v, V, raw)
    BY <1>3
  <1>11. \E i \in DOMAIN v[Len(raw)].opens :
            LET e == v[Len(raw)].opens[i] IN
            e.at = at /\ e.ns = Entered(v[at - 1], raw[at].tag)
    BY ONLY <1>9, <1>10, raw \in Seq(Page(V)), at \in 1 .. Len(raw), EnteredIsFound
  <1> QED BY <1>5, <1>11

\* A found element is one of the text's.
LEMMA FoundIsElement ==
    ASSUME NEW V, NEW base \in Seq(Page(V)), NEW aid, NEW e \in ElementByAID(base, aid)
    PROVE  \E j \in DOMAIN scanOpenTags(base) : scanOpenTags(base)[j] = e
  <1> DEFINE h == Harvest(base, NoPin)
  <1>1. PinnedHarvest(base, NoPin, h)
    BY HarvestPinned
  <1>2. \E i \in DOMAIN h : h[i] = e
    <2> HIDE DEF h
    <2> QED BY DEF ElementByAID, FirstBearer, h
  <1> QED BY <1>1, <1>2 DEF PinnedHarvest

LEMMA TextWasPinned ==
    ASSUME NEW raw, SomePage(raw), StandsApart(raw), NEW j \in DOMAIN scanOpenTags(raw),
           NEW at, at = scanOpenTags(raw)[j].at, NEW aid, IsAID(aid), aid # NoAID,
           stampAids(raw, aid, at) = StampAids(raw),
           NEW s, NEW w, NEW a, NEW V, NEW W, StampsTo(raw, s, w, a, V, W)
    PROVE  \E c : w[at] = WithText(s[at], StampedOpenTag(scanOpenTags(s)[j].text, aid, c))
  <1> DEFINE before == scanOpenTags(raw)
             after == scanOpenTags(s)
  <1>1. SameTree(before, after)
    BY TreeOf DEF StampsTo
  <1>2. stripAllAIDs(raw) = s /\ StampAids(raw).html = w /\ PlainText(s, V)
    BY DEF StampsTo
  <1>3. stampAids(raw, aid, at) = StampAt(s, aid, PinnedAt(before, after, at))
    BY <1>2 DEF stampAids, StampStripped
  <1> HIDE DEF before, after
  <1>4. PinnedAt(before, after, at) = at
    <2> DEFINE n == {i \in DOMAIN before : before[i].at = at}
               k == CHOOSE i \in n : i \in DOMAIN after
    <2>1. j \in n /\ j \in DOMAIN after
      BY <1>1 DEF SameTree, before
    <2>2. k \in n /\ k \in DOMAIN after
      BY <2>1
    <2> HIDE DEF k
    <2>3. after[k].at = at
      BY <1>1, <2>2 DEF SameTree
    <2>4. \E i \in n : i \in DOMAIN after
      BY <2>1
    <2>5. PinnedAt(before, after, at) = after[k].at
      BY <2>4 DEF PinnedAt, k
    <2> QED BY <2>3, <2>5
  <1>5. w = StampAt(s, aid, at).html
    BY <1>2, <1>3, <1>4
  <1>6. j \in DOMAIN after /\ after[j].at = at
    BY <1>1 DEF SameTree, before
  <1> QED BY <1>2, <1>5, <1>6, PinnedIsBorne DEF after

\* A tag grows by its identity.
LEMMA StampedIsLonger ==
    ASSUME NEW V, TagWords \subseteq V, NEW t \in Seq(V), Bare(t), NEW aid, IsAID(aid), NEW c
    PROVE  /\ StampedOpenTag(t, aid, c) # t
           /\ AidValues(StampedOpenTag(t, aid, c)) = {<<aid>>}
  <1> DEFINE W == V \cup {aid}
             x == StampedOpenTag(t, aid, c)
  <1>1. TagWords \subseteq W /\ aid \in W /\ V \subseteq W
    OBVIOUS
  <1> HIDE DEF W
  <1>2. t \in Seq(W)
    BY <1>1, SeqGrows
  <1> HIDE DEF x
  <1>3. AidValues(x) = {<<aid>>}
    BY <1>1, <1>2, StampedIsFound DEF x
  <1>4. PICK p, end : BorneAs(x, t, p, end, aid, c)
    BY <1>1, <1>2, StampedIsBorne DEF x
  <1>5. Len(x) = Len(t) + 6 /\ Len(t) \in Nat
    BY <1>4 DEF BorneAs, Borne
  <1>6. Len(x) # Len(t)
    BY <1>5
  <1>7. x # t
    BY <1>6, Zenon
  <1> QED BY <1>3, <1>7 DEF x

\* The artifact of the element at this place, in the stamped text.
LEMMA StampedAtPlace ==
    ASSUME NEW raw, NEW s, NEW w, NEW a, NEW V, NEW W, StampsTo(raw, s, w, a, V, W),
           NEW j \in DOMAIN scanOpenTags(s), IsHarvested(scanOpenTags(s)[j])
    PROVE  \E k \in DOMAIN Harvest(w, NoPin) :
              LET f == Harvest(w, NoPin)[k] IN
              f.at = scanOpenTags(s)[j].at /\ f.text = w[scanOpenTags(s)[j].at].text
  <1> DEFINE opens == scanOpenTags(s)
             found == scanOpenTags(w)
             h == Harvest(w, NoPin)
             o == opens[j]
             p == found[j]
  <1>1. PlainText(s, V) /\ StampedAs(s, w, a, W) /\ w \in Seq(Page(W))
    BY DEF StampsTo, StampedAs
  <1>2. j \in DOMAIN found /\ ElementStamped(o, p) /\ p.text = w[o.at].text
    BY <1>1, StampedElements
  <1>3. PICK by : Picks(by, found, ToHarvest(found), h)
    BY <1>1, HarvestPicks DEF Harvests
  <1>4. h \in Seq(ScanElement(W, Len(w)))
    BY <1>1, HarvestTyped
  <1>5. IsHarvested(o)
    OBVIOUS
  <1> HIDE DEF opens, found, h
  <1>6. IsHarvested(p) /\ p.at = o.at
    <2> HIDE DEF o, p
    <2> QED BY <1>2, <1>5 DEF ElementStamped, Twins, StampOf, IsHarvested
  <1>7. j \in ToHarvest(found)
    BY <1>2, <1>6 DEF ToHarvest
  <1>8. \E k \in DOMAIN h : h[k] = p
    <2>1. DOMAIN h = 1 .. Len(h)
      BY <1>4
    <2> QED BY <1>3, <1>7, <2>1 DEF Picks
  <1> QED BY <1>2, <1>6, <1>8 DEF h, o, opens

\* An element that a replacement was pinned to is the only bearer of its identity.
LEMMA PinnedIsTheBearer ==
    ASSUME NEW raw, SomePage(raw), StandsApart(raw), NEW j \in DOMAIN scanOpenTags(raw),
           NEW at, at = scanOpenTags(raw)[j].at, NEW aid,
           Cardinality(Matches(StampAids(raw), aid)) = 1,
           stampAids(raw, aid, at) = StampAids(raw)
    PROVE  Bearers(Harvest(StampAids(raw).html, NoPin), aid) = {at}
  <1>1. PICK s, w, a, V, W : StampsTo(raw, s, w, a, V, W)
    BY Stamping
  <1> DEFINE aids == StampAids(raw).aids
             found == Harvest(w, NoPin)
             M == Matches(StampAids(raw), aid)
             o == scanOpenTags(s)[j]
  <1>2. w = StampAids(raw).html /\ StampAids(raw) = Stamped(s, a) /\ StampedAs(s, w, a, W) /\ PlainText(s, V)
    BY <1>1 DEF StampsTo
  <1>3. Served(w, aids)
    BY <1>2, StampIsOne, StampIsServed
  <1>4. DOMAIN found = DOMAIN aids
        /\ \A i \in DOMAIN aids : AidValues(found[i].text) = {<<aids[i].aid>>} /\ aids[i].aid[1] = "aid"
    BY <1>3 DEF Served
  <1>5. ListsAIDs(aids)
    <2>1. IsFine(StampAids(raw))
      BY StampedAidsAreFine DEF StampAids
    <2> QED BY <2>1 DEF IsFine
  <1>6. DOMAIN found = 1 .. Len(found) /\ Len(found) \in Nat
    <2>1. w \in Seq(Page(W))
      BY <1>2 DEF StampedAs
    <2>2. found \in Seq(ScanElement(W, Len(w)))
      BY <2>1, HarvestTyped
    <2> QED BY <2>2
  <1>7. M = {i \in DOMAIN aids : aids[i].aid = aid}
    BY DEF Matches
  <1>8. \E m : M = {m}
    <2>1. IsFiniteSet(DOMAIN aids)
      BY <1>4, <1>6, FS_Interval
    <2>2. IsFiniteSet(M)
      BY <1>7, <2>1, FS_Subset
    <2> HIDE DEF M
    <2>3. Cardinality(M) = 1
      BY DEF M
    <2> QED BY <2>2, <2>3, FS_Singleton
  <1>9. PICK m : M = {m}
    BY <1>8
  <1> HIDE DEF aids, found, M
  <1>10. IsAID(aid) /\ aid[1] = "aid"
    <2>1. m \in DOMAIN aids /\ aids[m].aid = aid
      BY <1>7, <1>9
    <2> QED BY <1>4, <1>5, <2>1 DEF ListsAIDs
  <1>11. aid # NoAID
    <2>1. NoAID[1] = "none"
      BY DEF NoAID
    <2> QED BY <1>10, <2>1
  <1>12. PICK c : w[at] = WithText(s[at], StampedOpenTag(o.text, aid, c))
    BY <1>1, <1>10, <1>11, TextWasPinned
  <1>13. j \in DOMAIN scanOpenTags(s) /\ AtElement(raw, s, w, a, o, scanOpenTags(raw)[j])
    BY <1>1, ElementsAreAt
  <1>14. o \in ScanElement(V, Len(s)) /\ TagWords \subseteq V /\ s \in Seq(Page(V))
         /\ o.at \in 1 .. Len(s) /\ o.text = s[o.at].text
    <2>1. TagWords \subseteq V /\ s \in Seq(Page(V))
      BY <1>2 DEF PlainText
    <2>2. scanOpenTags(s) \in Seq(ScanElement(V, Len(s))) /\ OfPieces(scanOpenTags(s), s, Len(s))
      BY <2>1, ElementsTyped, ElementsFound
    <2> QED BY <1>13, <2>1, <2>2 DEF OfPieces
  <1> HIDE DEF o
  <1>15. o.at = at /\ Bare(o.text) /\ TagStamped(s, w, a, o) /\ o.text \in Seq(V)
    BY <1>13, <1>14 DEF AtElement, ScanElement
  <1> DEFINE x == StampedOpenTag(o.text, aid, c)
  <1>16. x # o.text /\ AidValues(x) = {<<aid>>}
    BY <1>10, <1>14, <1>15, StampedIsLonger
  <1> HIDE DEF x
  <1>17. s[at] \in Page(V) /\ w[at] = WithText(s[at], x) /\ s[at].text = o.text
    BY <1>12, <1>14, <1>15 DEF x
  <1>18. w[at].text = x
    <2> DEFINE piece == s[at]
    <2>1. piece \in Page(V) /\ w[at] = WithText(piece, x)
      BY <1>17
    <2> HIDE DEF piece
    <2> QED BY <2>1, WithTextOf
  <1>19. IsHarvested(o)
    BY <1>15, <1>16, <1>17, <1>18 DEF TagStamped
  <1>20. PICK k \in DOMAIN found : found[k].at = at /\ found[k].text = x
    BY <1>1, <1>13, <1>15, <1>18, <1>19, StampedAtPlace DEF found, o
  <1>21. \A i \in DOMAIN found : <<aid>> \in AidValues(found[i].text) => i = m
    <2> SUFFICES ASSUME NEW i \in DOMAIN found, <<aid>> \in AidValues(found[i].text) PROVE i = m
      OBVIOUS
    <2>1. i \in DOMAIN aids /\ <<aid>> = <<aids[i].aid>>
      BY <1>4
    <2>2. aids[i].aid = aid
      BY <2>1
    <2> QED BY <1>7, <1>9, <2>1, <2>2
  <1>22. <<aid>> \in AidValues(found[k].text)
    BY <1>16, <1>20
  <1>23. {i \in DOMAIN found : <<aid>> \in AidValues(found[i].text)} = {k}
    BY <1>20, <1>21, <1>22
  <1>24. Bearers(found, aid) = {at}
    BY <1>20, <1>23 DEF Bearers
  <1> QED BY <1>2, <1>24 DEF found

-------------------------------------------------------------------------------
(* A replacement is published in its place.                                  *)

\* What is published of a text in which the fragment stands in the place of an element.
PublishedInPlace(raw, text, at, aid) ==
    /\ Meanings(StampAids(raw).html) = Meanings(text)
    /\ Tree(StampAids(raw).html) = Tree(text)
    /\ Bearers(Harvest(StampAids(raw).html, NoPin), aid) = {at}

LEMMA BearingIsPublished ==
    ASSUME NEW V, NEW base \in Seq(Page(V)), NEW aid, NEW e \in ElementByAID(base, aid),
           NEW fragment, NEW text, NEW raw, NEW canonical,
           Fits(base, e.at, CloseEnd(e), fragment, text), Bearing(V, text, raw, e.at, aid),
           StandsApart(raw), Cardinality(Matches(StampAids(raw), canonical)) = 1,
           stampAids(raw, canonical, e.at) = StampAids(raw)
    PROVE  PublishedInPlace(raw, text, e.at, canonical)
  <1> DEFINE at == e.at
  <1>1. /\ TagWords \subseteq V /\ raw \in Seq(Page(V)) /\ text \in Seq(Page(V)) /\ Len(raw) = Len(text)
        /\ text[at].kind = "open" /\ raw[at] = WithText(text[at], InjectRootAID(text[at].text, aid))
        /\ \A k \in 1 .. Len(text) : k # at => raw[k] = text[k]
    BY DEF Bearing
  <1>2. SomePage(raw) /\ IsDocument(raw)
    BY <1>1 DEF SomePage, StandsApart
  <1>3. Tree(raw) = Tree(text) /\ Meanings(raw) = Meanings(text)
    BY <1>2, BearingReadsAlike
  <1>4. Tree(StampAids(raw).html) = Tree(raw) /\ Meanings(StampAids(raw).html) = Meanings(raw)
    BY <1>2, PublishingKeepsElements, PublishingKeepsTheMeaning
  <1>5. PICK j \in DOMAIN scanOpenTags(base) : scanOpenTags(base)[j] = e
    BY FoundIsElement
  <1>6. at \in 1 .. Len(raw) /\ text[at] \in Page(V)
    BY <1>1 DEF Bearing
  <1>7. raw[at].kind = "open"
    <2> DEFINE piece == text[at]
               x == InjectRootAID(piece.text, aid)
    <2>1. piece \in Page(V) /\ raw[at] = WithText(piece, x) /\ piece.kind = "open"
      BY <1>1, <1>6
    <2> HIDE DEF piece, x
    <2> QED BY <2>1, WithTextOf
  <1>8. SameBeginning(base, raw, at - 1)
    <2>1. /\ Len(base) \in Nat /\ at \in 1 .. Len(base)
          /\ \A k \in 1 .. (at - 1) : text[k] = base[k]
      BY DEF Fits
    <2>2. \A k \in 1 .. (at - 1) : raw[k] = base[k]
      BY <1>1, <1>6, <2>1
    <2> HIDE DEF at
    <2>3. at - 1 \in Nat /\ at - 1 <= Len(base) /\ at - 1 <= Len(raw)
      <3>1. at \in Nat \ {0} /\ at <= Len(base) /\ at <= Len(raw) /\ Len(raw) \in Nat
        BY <1>1, <1>6, <2>1
      <3> QED BY <2>1, <3>1
    <2> QED BY <2>2, <2>3 DEF SameBeginning
  <1>9. PICK i \in DOMAIN scanOpenTags(raw) : scanOpenTags(raw)[i].at = at
    BY <1>1, <1>5, <1>6, <1>7, <1>8, StillElement
  <1>10. Bearers(Harvest(StampAids(raw).html, NoPin), canonical) = {at}
    BY <1>2, <1>9, PinnedIsTheBearer
  <1> QED BY <1>3, <1>4, <1>10 DEF PublishedInPlace

\* The element at a place is the one that was found there.
LEMMA ElementIsFound ==
    ASSUME NEW V, NEW base \in Seq(Page(V)), NEW aid, NEW e \in ElementByAID(base, aid)
    PROVE  Element(base, e.at) = e
  <1> DEFINE h == Harvest(base, NoPin)
             k == CHOOSE i \in DOMAIN h : h[i].at = e.at
  <1>1. h \in Seq(ScanElement(V, Len(base))) /\ Apart(h, Len(base))
    BY HarvestTyped, HarvestApart
  <1>2. PICK i \in DOMAIN h : h[i] = e
    <2> HIDE DEF h
    <2> QED BY DEF ElementByAID, FirstBearer, h
  <1>3. Element(base, e.at) = h[k]
    BY DEF Element
  <1> HIDE DEF h
  <1>4. k \in DOMAIN h /\ h[k].at = h[i].at
    BY <1>2
  <1> HIDE DEF k
  <1>5. k = i
    <2>1. DOMAIN h = 1 .. Len(h) /\ Len(h) \in Nat /\ Len(base) \in Nat
      BY <1>1
    <2>2. h[i].at \in 1 .. Len(base)
      BY <1>1, <1>2 DEF Apart
    <2>3. ~(k < i) /\ ~(i < k)
      BY <1>1, <1>2, <1>4, <2>1, <2>2 DEF Apart
    <2> QED BY <1>2, <1>4, <2>1, <2>3
  <1> QED BY <1>2, <1>3, <1>5

\* A step that replaces an element.
EditOf(e, text, raw, aid, fragment) ==
    /\ e \in ElementByAID(html, aid) /\ fragment \in Fragments
    /\ Element(html, edit'.at) = e /\ text = WithFragment(e) /\ raw = Replaced(html, e, aid, fragment)
    /\ edit'.at = e.at /\ edit'.fragment = fragment
    /\ Fits(html, e.at, CloseEnd(e), fragment, text)
    /\ \E V : html \in Seq(Page(V)) /\ Bearing(V, text, raw, e.at, aid)
    /\ StandsApart(raw) /\ html' = StampAids(raw).html
    /\ PublishedInPlace(raw, text, e.at, StampAids(fragment).aids[1].aid)

LEMMA ReplacingIsEdit ==
    ASSUME PublishedIsFine, EditsStandApart, published,
           NEW aid \in {index[i].aid : i \in DOMAIN index}, NEW fragment \in Fragments,
           ReplaceElement(aid, fragment)
    PROVE  \E e, text, raw : EditOf(e, text, raw, aid, fragment)
  <1> DEFINE canonical == StampAids(fragment).aids[1].aid
  <1>1. SomePage(html) /\ IsAID(aid)
    BY DEF PublishedIsFine, ListsAIDs
  <1>2. PICK e \in ElementByAID(html, aid) :
            /\ PublishReplaced(e.at, Replaced(html, e, aid, fragment), canonical)
            /\ edit' = [at |-> e.at, fragment |-> fragment]
    BY DEF ReplaceElement
  <1>3. /\ IsHarvestableReplacementRoot(fragment)
        /\ \A i \in DOMAIN fragment : ~HasDataOdoc(fragment[i].text)
        /\ edits < MaxEdits
    BY DEF ReplaceElement
  <1> DEFINE raw == Replaced(html, e, aid, fragment)
             text == Replacement(html, e, fragment)
  <1>4. /\ Cardinality(Matches(StampAids(raw), canonical)) = 1
        /\ Publish(stampAids(raw, canonical, e.at))
    BY <1>2 DEF PublishReplaced
  <1>5. ReplacementStandsApart(aid, fragment, e)
    BY <1>3 DEF EditsStandApart
  <1>6. StandsApart(raw) /\ stampAids(raw, canonical, e.at) = StampAids(raw)
    BY <1>3, <1>4, <1>5 DEF ReplacementStandsApart
  <1>7. Fits(html, e.at, CloseEnd(e), fragment, text)
        /\ \E V : html \in Seq(Page(V)) /\ Bearing(V, text, raw, e.at, aid)
    BY <1>1, <1>3, ReplacedBears
  <1>8. PICK V : html \in Seq(Page(V)) /\ Bearing(V, text, raw, e.at, aid)
    BY <1>7
  <1>9. edit'.at = e.at /\ edit'.fragment = fragment
    BY <1>2
  <1>10. text = WithFragment(e)
    BY <1>9 DEF Replacement, WithFragment
  <1>11. Element(html, edit'.at) = e
    BY <1>8, <1>9, ElementIsFound
  <1> HIDE DEF raw, text
  <1>12. html' = StampAids(raw).html
    BY <1>4, <1>6 DEF Publish
  <1>13. PublishedInPlace(raw, text, e.at, canonical)
    BY <1>4, <1>6, <1>7, <1>8, BearingIsPublished
  <1>14. EditOf(e, text, raw, aid, fragment)
    BY <1>6, <1>7, <1>9, <1>10, <1>11, <1>12, <1>13 DEF EditOf, raw
  <1> QED BY <1>14

-------------------------------------------------------------------------------
(* What stands outside of the replaced element.                              *)

\* An element that is stamped bears the hash of what it is in the text without identities.
HashOf(s, o) == aidFor(o.tag, Inner(s, o), o.text)

LEMMA BareBearsHash ==
    ASSUME NEW V, NEW e, e.text \in Seq(V), Bare(e.text), NEW text, NEW headings
    PROVE  Artifact(text, e, headings, NoAID, NoPin).aid = HashOf(text, e)
  <1> DEFINE aid == aidFor(e.tag, Inner(text, e), e.text)
  <1>1. StripAID(e.text) = e.text
    BY BareStays
  <1>2. Len(aid) = 4 /\ Len(NoAID) = 1
    BY DEF aidFor, NoAID
  <1> HIDE DEF aid
  <1>3. aid # NoAID
    <2>1. Len(aid) # Len(NoAID)
      BY <1>2
    <2> QED BY <2>1, Zenon
  <1>4. saltAwayFromPinned(e.tag, Inner(text, e), e.text, NoAID) = aid
    BY <1>3 DEF saltAwayFromPinned, aid
  <1> QED BY <1>1, <1>4 DEF Artifact, HashOf, aid

LEMMA StampedBearsHash ==
    ASSUME NEW V, NEW s, PlainText(s, V), NEW w, NEW W, StampedAs(s, w, ArtifactsIn(s), W),
           NEW j \in DOMAIN scanOpenTags(s), IsHarvested(scanOpenTags(s)[j])
    PROVE  AidValues(w[scanOpenTags(s)[j].at].text) = {<<HashOf(s, scanOpenTags(s)[j])>>}
  <1> DEFINE a == ArtifactsIn(s)
             h == Harvest(s, NoPin)
             o == scanOpenTags(s)[j]
             piece == s[o.at]
  <1>1. s \in Seq(Page(V)) /\ BareElements(scanOpenTags(s)) /\ StampedAs(s, w, a, W)
    BY DEF PlainText
  <1>2. TagStamped(s, w, a, o)
    BY <1>1, TagsStamped
  <1>3. h \in Seq(ScanElement(V, Len(s))) /\ OfPieces(scanOpenTags(s), s, Len(s))
        /\ scanOpenTags(s) \in Seq(ScanElement(V, Len(s)))
    BY <1>1, HarvestTyped, ElementsFound, ElementsTyped
  <1>4. AreArtifacts(a, s, h, collectHeadings(s), NoAID, NoPin) /\ DOMAIN a = DOMAIN h
    BY <1>1, <1>3, ArtifactsEach DEF ArtifactsIn, StampedAs
  <1>5. o.at \in 1 .. Len(s) /\ o \in ScanElement(V, Len(s)) /\ Bare(o.text) /\ IsHarvested(o)
    BY <1>1, <1>3 DEF OfPieces, BareElements
  <1> HIDE DEF a, h, o
  <1>6. PICK m \in DOMAIN a : /\ h[m] = o
                              /\ w[o.at] = WithText(piece, a[m].text)
                              /\ StampOf(a[m].text, o, a[m].aid)
    BY <1>2, <1>5 DEF TagStamped, h
  <1>7. m \in 1 .. Len(h)
    BY <1>3, <1>4, <1>6
  <1>8. a[m] = Artifact(s, o, collectHeadings(s), NoAID, NoPin)
    BY <1>4, <1>6, <1>7 DEF AreArtifacts
  <1>9. a[m].aid = HashOf(s, o)
    <2>1. o.text \in Seq(V)
      BY <1>5 DEF ScanElement
    <2> QED BY <1>5, <1>8, <2>1, BareBearsHash
  <1>10. piece \in Page(V)
    BY <1>1, <1>5
  <1> HIDE DEF piece
  <1>11. w[o.at].text = a[m].text
    BY <1>6, <1>10, WithTextOf
  <1> QED BY <1>6, <1>9, <1>11 DEF StampOf, o

\* A piece stands in another text as it does here: it is the same piece, and an element
\* of the same namespace or none.
Stands(x, k, y, i) ==
    /\ k \in 1 .. Len(x) /\ i \in 1 .. Len(y) /\ y[i] = x[k]
    /\ \A j \in DOMAIN scanOpenTags(x) :
          scanOpenTags(x)[j].at = k =>
             \E l \in DOMAIN scanOpenTags(y) :
                scanOpenTags(y)[l].at = i /\ scanOpenTags(y)[l].ns = scanOpenTags(x)[j].ns
    /\ \A l \in DOMAIN scanOpenTags(y) :
          scanOpenTags(y)[l].at = i => \E j \in DOMAIN scanOpenTags(x) : scanOpenTags(x)[j].at = k

\* Then it is the same piece still when the identities are taken out.
LEMMA StandingIsCleaned ==
    ASSUME NEW V, NEW x \in Seq(Page(V)), NEW y \in Seq(Page(V)), NEW p, NEW q,
           CleansTo(x, p), CleansTo(y, q), NEW k, NEW i, Stands(x, k, y, i)
    PROVE  q[i] = p[k]
  <1> DEFINE o == scanOpenTags(x)
             f == scanOpenTags(y)
  <1>1. /\ k \in 1 .. Len(x) /\ i \in 1 .. Len(y) /\ y[i] = x[k]
        /\ \A j \in DOMAIN o : o[j].at = k => \E l \in DOMAIN f : f[l].at = i /\ f[l].ns = o[j].ns
        /\ \A l \in DOMAIN f : f[l].at = i => \E j \in DOMAIN o : o[j].at = k
    BY DEF Stands
  <1>2. /\ Len(p) = Len(x)
        /\ \A j \in DOMAIN o : p[o[j].at] = WithText(x[o[j].at], Cleaned(o[j]))
        /\ (\A j \in DOMAIN o : o[j].at # k) => p[k] = x[k]
    BY <1>1 DEF CleansTo
  <1>3. /\ Len(q) = Len(y)
        /\ \A l \in DOMAIN f : q[f[l].at] = WithText(y[f[l].at], Cleaned(f[l]))
        /\ (\A l \in DOMAIN f : f[l].at # i) => q[i] = y[i]
    BY <1>1 DEF CleansTo
  <1>4. OfPieces(o, x, Len(x)) /\ OfPieces(f, y, Len(y))
    BY ElementsFound
  <1> HIDE DEF o, f
  <1>5. CASE \A j \in DOMAIN o : o[j].at # k
    BY <1>1, <1>2, <1>3, <1>5
  <1>6. ASSUME NEW j \in DOMAIN o, o[j].at = k PROVE q[i] = p[k]
    <2>1. PICK l \in DOMAIN f : f[l].at = i /\ f[l].ns = o[j].ns
      BY <1>1, <1>6
    <2> DEFINE c == o[j]
               d == f[l]
    <2>2. c.tag = x[k].tag /\ c.text = x[k].text /\ d.tag = y[i].tag /\ d.text = y[i].text
      BY <1>4, <1>6, <2>1 DEF OfPieces
    <2>3. d.tag = c.tag /\ d.text = c.text /\ d.ns = c.ns
      BY <1>1, <2>1, <2>2
    <2>4. p[k] = WithText(x[k], Cleaned(c)) /\ q[i] = WithText(y[i], Cleaned(d))
      BY <1>2, <1>3, <1>6, <2>1
    <2> HIDE DEF c, d
    <2>5. Cleaned(d) = Cleaned(c)
      BY <2>3 DEF Cleaned
    <2> QED BY <1>1, <2>4, <2>5
  <1> QED BY <1>5, <1>6

\* Behind the same beginning.
LEMMA BeginningStands ==
    ASSUME NEW V, NEW x \in Seq(Page(V)), NEW y \in Seq(Page(V)), NEW m, SameBeginning(x, y, m),
           NEW k \in 1 .. m
    PROVE  Stands(x, k, y, k)
  <1>1. PICK u : ScanRun(u, V, x)
    BY ScanRuns
  <1>2. PICK v : ScanRun(v, V, y)
    BY ScanRuns
  <1>3. GrowingRun(u, V, x) /\ GrowingRun(v, V, y)
    BY <1>1, <1>2, RunGrows
  <1> DEFINE n == Len(x)
             r == Len(y)
  <1>4. n \in Nat /\ n \in 0 .. n /\ r \in Nat /\ r \in 0 .. r
    OBVIOUS
  <1>5. scanOpenTags(x) = u[n].opens /\ scanOpenTags(y) = v[r].opens
    BY <1>1, <1>2 DEF ScanRun
  <1>6. k \in 1 .. n /\ k \in 1 .. r /\ k - 1 \in 0 .. m /\ y[k] = x[k]
    BY <1>4 DEF SameBeginning
  <1>7. v[k - 1] = u[k - 1]
    BY <1>1, <1>2, <1>4, <1>6, BeginningsScanAlike
  <1>8. ASSUME NEW j \in DOMAIN u[n].opens, u[n].opens[j].at = k
        PROVE  \E l \in DOMAIN v[r].opens : v[r].opens[l].at = k /\ v[r].opens[l].ns = u[n].opens[j].ns
    <2>1. Begun(u, x, u[n].opens[j])
      BY <1>3, <1>4, FoundIsEntered
    <2>2. Opens(u[k - 1], x[k]) /\ u[n].opens[j].ns = Entered(u[k - 1], x[k].tag)
      BY <1>8, <2>1 DEF Begun
    <2>3. Opens(v[k - 1], y[k]) /\ u[n].opens[j].ns = Entered(v[k - 1], y[k].tag)
      BY <1>6, <1>7, <2>2
    <2>4. GrowingRun(v, V, y) /\ k \in 1 .. Len(y)
      BY <1>3, <1>6
    <2>5. \E l \in DOMAIN v[Len(y)].opens :
             LET e == v[Len(y)].opens[l] IN e.at = k /\ e.ns = Entered(v[k - 1], y[k].tag)
      BY ONLY <2>3, <2>4, y \in Seq(Page(V)), EnteredIsFound
    <2> QED BY <2>3, <2>5
  <1>9. ASSUME NEW l \in DOMAIN v[r].opens, v[r].opens[l].at = k
        PROVE  \E j \in DOMAIN u[n].opens : u[n].opens[j].at = k
    <2>1. Begun(v, y, v[r].opens[l])
      BY <1>3, <1>4, FoundIsEntered
    <2>2. Opens(u[k - 1], x[k])
      BY <1>6, <1>7, <1>9, <2>1 DEF Begun
    <2>3. GrowingRun(u, V, x) /\ k \in 1 .. Len(x)
      BY <1>3, <1>6
    <2>4. \E j \in DOMAIN u[Len(x)].opens :
             LET e == u[Len(x)].opens[j] IN e.at = k /\ e.ns = Entered(u[k - 1], x[k].tag)
      BY ONLY <2>2, <2>3, x \in Seq(Page(V)), EnteredIsFound
    <2> QED BY <2>4
  <1> QED BY <1>5, <1>6, <1>8, <1>9 DEF Stands

\* What the scan takes the next piece for.
ModeAfter(s, piece, ns, r) ==
    /\ s.mode = "comment" => r.mode = IF piece.kind = "-->" THEN "data" ELSE "comment"
    /\ s.mode = "raw" => r.mode = IF piece = Close(s.opens[s.raw].tag) THEN "data" ELSE "raw"
    /\ s.mode = "data" =>
          r.mode = IF piece.kind = "<!--" THEN "comment"
                   ELSE IF piece.kind = "open" /\ ns = "html" /\ piece.tag \in rawTextTags THEN "raw"
                   ELSE "data"
    /\ r.mode = "raw" =>
          r.opens[r.raw].tag = IF s.mode = "raw" THEN s.opens[s.raw].tag ELSE piece.tag

LEMMA ModeSteps ==
    ASSUME NEW V, NEW n, NEW s \in Scan(V, n), NEW piece \in Page(V), NEW at \in 1 .. n
    PROVE  ModeAfter(s, piece, Entered(s, piece.tag), ScanPiece(s, piece, at))
  <1> DEFINE r == ScanPiece(s, piece, at)
             ns == Entered(s, piece.tag)
  <1>1. Steps(s, piece, at, r)
    BY ScanSteps
  <1> HIDE DEF r
  <1>2. CASE s.mode = "comment" /\ piece.kind = "-->" /\ r = [s EXCEPT !.mode = "data"]
    <2>1. r.mode = "data"
      BY <1>2, ModeEffect DEF InMode
    <2> QED BY <1>2, <2>1 DEF ModeAfter, r
  <1>3. CASE s.mode = "comment" /\ piece.kind # "-->" /\ r = s
    BY <1>3 DEF ModeAfter, r
  <1>4. CASE s.mode = "raw" /\ piece = Close(s.opens[s.raw].tag) /\ r = RawClosed(s, at)
    <2>1. r.mode = "data"
      BY <1>4, RawEffect DEF EndsRaw
    <2> QED BY <1>4, <2>1 DEF ModeAfter, r
  <1>5. CASE s.mode = "raw" /\ piece # Close(s.opens[s.raw].tag) /\ r = s
    BY <1>5 DEF ModeAfter, r
  <1>6. CASE s.mode = "data" /\ piece.kind = "<!--" /\ r = [s EXCEPT !.mode = "comment"]
    <2>1. r.mode = "comment"
      BY <1>6, ModeEffect DEF InMode
    <2> QED BY <1>6, <2>1 DEF ModeAfter, r
  <1>7. CASE s.mode = "data" /\ piece.kind = "open" /\ r = OpenElement(s, piece, at)
    <2> DEFINE b == Before(s, piece.tag)
               k == Len(b.opens) + 1
    <2>1. b \in Scan(V, n) /\ ns \in Namespaces /\ r = PushElement(b, piece, at, ns)
      BY <1>7, OpenPushes
    <2> HIDE DEF b, ns
    <2>2. Pushes(b, piece, at, ns, r)
      BY <1>7, <2>1, PushEffect
    <2>3. /\ r.mode = IF ns = "html" /\ piece.tag \in rawTextTags THEN "raw" ELSE "data"
          /\ r.raw = IF ns = "html" /\ piece.tag \in rawTextTags THEN k ELSE 0
          /\ r.opens[k] = NewElement(piece, at, ns)
      BY <2>2 DEF Pushes
    <2>4. NewElement(piece, at, ns).tag = piece.tag
      BY DEF NewElement
    <2> HIDE DEF k
    <2>5. r.mode = "raw" => r.opens[r.raw].tag = piece.tag
      BY <2>3, <2>4
    <2> QED BY <1>7, <2>3, <2>5 DEF ModeAfter, r, ns
  <1>8. CASE s.mode = "data" /\ piece.kind = "close" /\ r = CloseTag(s, piece.tag, at)
    <2>1. r.mode = s.mode
      BY <1>8, CloseTagExtends
    <2> QED BY <1>8, <2>1 DEF ModeAfter, r
  <1>9. CASE s.mode = "data" /\ piece.kind \notin {"<!--", "open", "close"} /\ r = s
    BY <1>9 DEF ModeAfter, r
  <1> QED BY <1>1, <1>2, <1>3, <1>4, <1>5, <1>6, <1>7, <1>8, <1>9 DEF Steps

SameMode(s, r) ==
    r.mode = s.mode /\ (s.mode = "raw" => r.opens[r.raw].tag = s.opens[s.raw].tag)

LEMMA SameModeSteps ==
    ASSUME NEW s, NEW r, SameMode(s, r), s.mode \in {"data", "comment", "raw"}, NEW piece, NEW a, NEW b,
           s.mode = "data" /\ piece.kind = "open" => b = a,
           NEW q, NEW z, ModeAfter(s, piece, a, q), ModeAfter(r, piece, b, z)
    PROVE  SameMode(q, z)
  BY DEF SameMode, ModeAfter

\* From this place on the second text has what the first has, and its elements.
Follows(x, first, y, g) ==
    /\ g \in Int /\ first \in 1 .. Len(x) /\ Len(y) = Len(x) + g
    /\ first + g \in 1 .. Len(y)
    /\ \A k \in first .. Len(x) : y[k + g] = x[k]
    /\ \A i \in DOMAIN scanOpenTags(x) :
          scanOpenTags(x)[i].at >= first =>
             \E l \in DOMAIN scanOpenTags(y) :
                /\ scanOpenTags(y)[l].at = scanOpenTags(x)[i].at + g
                /\ scanOpenTags(y)[l].ns = scanOpenTags(x)[i].ns

\* Then it stands there as in the first, if it begins with an element.
LEMMA FollowingStands ==
    ASSUME NEW V, NEW x \in Seq(Page(V)), NEW y \in Seq(Page(V)), NEW first, NEW g,
           Follows(x, first, y, g), NEW j \in DOMAIN scanOpenTags(x), scanOpenTags(x)[j].at = first,
           NEW k \in first .. Len(x)
    PROVE  Stands(x, k, y, k + g)
  <1>1. PICK u : ScanRun(u, V, x)
    BY ScanRuns
  <1>2. PICK v : ScanRun(v, V, y)
    BY ScanRuns
  <1>3. GrowingRun(u, V, x) /\ GrowingRun(v, V, y)
    BY <1>1, <1>2, RunGrows
  <1> DEFINE n == Len(x)
             r == Len(y)
  <1>4. n \in Nat /\ n \in 0 .. n /\ r \in Nat /\ r \in 0 .. r
    OBVIOUS
  <1>5. scanOpenTags(x) = u[n].opens /\ scanOpenTags(y) = v[r].opens
    BY <1>1, <1>2 DEF ScanRun
  <1>6. /\ g \in Int /\ first \in 1 .. n /\ r = n + g /\ first + g \in 1 .. r
        /\ \A i \in first .. n : y[i + g] = x[i]
        /\ \A i \in DOMAIN u[n].opens :
              u[n].opens[i].at >= first =>
                 \E l \in DOMAIN v[r].opens :
                    v[r].opens[l].at = u[n].opens[i].at + g /\ v[r].opens[l].ns = u[n].opens[i].ns
    BY <1>5 DEF Follows
  <1>7. /\ \A i \in 0 .. n : u[i] \in Scan(V, n)
        /\ \A i \in 1 .. n : u[i] = ScanPiece(u[i - 1], x[i], i) /\ x[i] \in Page(V)
        /\ \A i \in 0 .. r : v[i] \in Scan(V, r)
        /\ \A i \in 1 .. r : v[i] = ScanPiece(v[i - 1], y[i], i) /\ y[i] \in Page(V)
    BY <1>1, <1>2 DEF ScanRun
  <1>8. j \in DOMAIN u[n].opens /\ u[n].opens[j].at = first /\ k \in first .. n
    BY <1>5
  <1>9. \A i \in DOMAIN u[n].opens : Begun(u, x, u[n].opens[i])
    BY <1>3, <1>4, FoundIsEntered
  <1>10. \A l \in DOMAIN v[r].opens : Begun(v, y, v[r].opens[l])
    BY <1>3, <1>4, FoundIsEntered
  <1>11. \A i \in 1 .. n : Opens(u[i - 1], x[i]) =>
            \E c \in DOMAIN u[n].opens :
               u[n].opens[c].at = i /\ u[n].opens[c].ns = Entered(u[i - 1], x[i].tag)
    BY <1>3, EnteredIsFound
  <1> DEFINE at(d) == (first - 1) + d
             T == {d \in Nat : SameMode(u[at(d)], v[at(d) + g])}
  <1> HIDE DEF n, r
  <1>12. 0 \in T
    <2>1. first >= first
      BY <1>6
    <2>2. PICK l \in DOMAIN v[r].opens : v[r].opens[l].at = first + g
      BY <1>6, <1>8, <2>1
    <2>3. u[first - 1].mode = "data" /\ v[(first + g) - 1].mode = "data"
      BY <1>8, <1>9, <1>10, <2>2 DEF Begun, Opens
    <2>4. at(0) = first - 1 /\ at(0) + g = (first + g) - 1
      BY <1>6
    <2> HIDE DEF at
    <2>5. SameMode(u[at(0)], v[at(0) + g])
      BY <2>3, <2>4 DEF SameMode
    <2> QED BY <2>5
  <1>13. ASSUME NEW d \in 0 .. ((n - first + 1) - 1), d \in T PROVE d + 1 \in T
    <2> DEFINE i == at(d + 1)
               e == i + g
    <2>1. i \in first .. n /\ i \in 1 .. n /\ i - 1 = at(d) /\ i - 1 \in 0 .. n
          /\ e \in 1 .. r /\ e - 1 = at(d) + g /\ e - 1 \in 0 .. r /\ d + 1 \in Nat
      BY <1>4, <1>6
    <2>2. SameMode(u[at(d)], v[at(d) + g])
      BY <1>13
    <2> HIDE DEF at, i
    <2>3. SameMode(u[i - 1], v[e - 1])
      BY <2>1, <2>2
    <2>4. u[i - 1] \in Scan(V, n) /\ u[i] = ScanPiece(u[i - 1], x[i], i) /\ x[i] \in Page(V)
      BY <1>7, <2>1
    <2>5. v[e - 1] \in Scan(V, r) /\ v[e] = ScanPiece(v[e - 1], y[e], e) /\ y[e] = x[i]
      BY <1>6, <1>7, <2>1
    <2> DEFINE piece == x[i]
               a == Entered(u[i - 1], piece.tag)
               b == Entered(v[e - 1], piece.tag)
    <2>6. ASSUME u[i - 1].mode = "data", piece.kind = "open" PROVE b = a
      <3>1. PICK c \in DOMAIN u[n].opens : u[n].opens[c].at = i /\ u[n].opens[c].ns = a
        BY <1>11, <2>1, <2>6 DEF Opens
      <3>2. i >= first
        BY <1>6, <2>1
      <3>3. PICK l \in DOMAIN v[r].opens : v[r].opens[l].at = e /\ v[r].opens[l].ns = a
        BY <1>6, <3>1, <3>2
      <3>4. Begun(v, y, v[r].opens[l])
        BY <1>10
      <3> QED BY <2>5, <3>3, <3>4 DEF Begun
    <2> HIDE DEF a, b, e
    <2>7. ModeAfter(u[i - 1], piece, a, u[i])
      BY <2>1, <2>4, ModeSteps DEF a
    <2>8. ModeAfter(v[e - 1], piece, b, v[e])
      BY <2>1, <2>4, <2>5, ModeSteps DEF b
    <2>9. u[i - 1].mode \in {"data", "comment", "raw"}
      BY <2>4, ScanOf
    <2> HIDE DEF piece
    <2>10. SameMode(u[i], v[e])
      BY <2>3, <2>6, <2>7, <2>8, <2>9, SameModeSteps
    <2> QED BY <2>1, <2>10 DEF i, e
  <1>14. \A d \in 0 .. (n - first + 1) : d \in T
    <2> HIDE DEF T
    <2>1. n - first + 1 \in Nat
      BY <1>4, <1>6
    <2> QED BY <1>12, <1>13, <2>1, InductUpTo
  <1>15. SameMode(u[k - 1], v[(k + g) - 1])
    <2>1. k - first \in 0 .. (n - first + 1) /\ at(k - first) = k - 1 /\ at(k - first) + g = (k + g) - 1
      BY <1>4, <1>6, <1>8
    <2>2. k - first \in T
      BY <1>14, <2>1
    <2> HIDE DEF at
    <2> QED BY <2>1, <2>2
  <1>16. k \in 1 .. n /\ k + g \in 1 .. r /\ y[k + g] = x[k]
    BY <1>4, <1>6, <1>8
  <1>17. ASSUME NEW i \in DOMAIN u[n].opens, u[n].opens[i].at = k
         PROVE  \E l \in DOMAIN v[r].opens :
                   v[r].opens[l].at = k + g /\ v[r].opens[l].ns = u[n].opens[i].ns
    <2>1. k >= first
      BY <1>6, <1>8
    <2> QED BY <1>6, <1>17, <2>1
  <1>18. ASSUME NEW l \in DOMAIN v[r].opens, v[r].opens[l].at = k + g
         PROVE  \E i \in DOMAIN u[n].opens : u[n].opens[i].at = k
    <2>1. v[(k + g) - 1].mode = "data" /\ y[k + g].kind = "open"
      BY <1>10, <1>18 DEF Begun, Opens
    <2>2. Opens(u[k - 1], x[k])
      BY <1>15, <1>16, <2>1 DEF Opens, SameMode
    <2> QED BY <1>11, <1>16, <2>2
  <1> QED BY <1>5, <1>16, <1>17, <1>18 DEF Stands, n, r

-------------------------------------------------------------------------------
\* x is p still with identities, and has its elements.
BaresTo(x, p) ==
    /\ CleansTo(x, p) /\ Tree(x) = Tree(p)
    /\ (\E V : x \in Seq(Page(V))) /\ (\E V : p \in Seq(Page(V)))

\* An element whose identity is taken out.
BareElement(e, o) ==
    /\ o.at = e.at /\ o.close = e.close /\ o.tag = e.tag /\ o.ns = e.ns /\ o.text = Cleaned(e)
    /\ (o.ns # "html" /\ SelfCloses(o.text)) <=> (e.ns # "html" /\ SelfCloses(e.text))

LEMMA BareAreElements ==
    ASSUME NEW x, NEW p, BaresTo(x, p)
    PROVE  /\ DOMAIN scanOpenTags(p) = DOMAIN scanOpenTags(x)
           /\ \A i \in DOMAIN scanOpenTags(x) : BareElement(scanOpenTags(x)[i], scanOpenTags(p)[i])
  <1> DEFINE o == scanOpenTags(x)
             f == scanOpenTags(p)
  <1>1. PICK V : x \in Seq(Page(V))
    BY DEF BaresTo
  <1>2. PICK W : p \in Seq(Page(W))
    BY DEF BaresTo
  <1>3. SameTree(o, f)
    <2>1. Tree(x) = Tree(p)
      BY DEF BaresTo
    <2> QED BY <2>1, TreeOf
  <1>4. OfPieces(o, x, Len(x)) /\ OfPieces(f, p, Len(p))
    BY <1>1, <1>2, ElementsFound
  <1>5. \A i \in DOMAIN o : p[o[i].at] = WithText(x[o[i].at], Cleaned(o[i]))
    BY DEF BaresTo, CleansTo
  <1> HIDE DEF o, f
  <1>6. DOMAIN f = DOMAIN o
    BY <1>3 DEF SameTree
  <1>7. ASSUME NEW i \in DOMAIN o PROVE BareElement(o[i], f[i])
    <2> DEFINE e == o[i]
               b == f[i]
               piece == x[e.at]
    <2>1. /\ b.at = e.at /\ b.close = e.close /\ b.tag = e.tag /\ b.ns = e.ns
          /\ (b.ns # "html" /\ SelfCloses(b.text)) <=> (e.ns # "html" /\ SelfCloses(e.text))
      BY <1>3 DEF SameTree
    <2>2. b.text = p[b.at].text /\ e.at \in 1 .. Len(x)
      BY <1>4, <1>6 DEF OfPieces
    <2>3. p[e.at] = WithText(piece, Cleaned(e))
      BY <1>5
    <2>4. piece \in Page(V)
      BY <1>1, <2>2
    <2> HIDE DEF e, b, piece
    <2>5. b.text = Cleaned(e)
      BY <2>1, <2>2, <2>3, <2>4, WithTextOf
    <2> QED BY <2>1, <2>5 DEF BareElement, e, b
  <1> QED BY <1>6, <1>7 DEF o, f

\* The same element in another text, moved by g; without identities it contains the same.
ClosesItself(e) == IsVoid(e) \/ (e.ns # "html" /\ SelfCloses(e.text))

Again(e, p, f, q, g) ==
    /\ f.at = e.at + g /\ f.tag = e.tag /\ f.text = e.text /\ f.ns = e.ns
    /\ ~ClosesItself(e) =>
          /\ f.close = e.close + g
          /\ \A k \in (e.at + 1) .. (e.close - 1) : q[k + g] = p[k]

SamePieces(p, i, j, q, g) ==
    i \in Int /\ j \in Int /\ g \in Int /\ \A k \in i .. j : q[k + g] = p[k]

Part(p, i, j) == SubSeq(p, i, j)

LEMMA SubSeqAgain ==
    ASSUME NEW p, NEW q, NEW g, NEW i, NEW j, SamePieces(p, i, j, q, g)
    PROVE  Part(q, i + g, j + g) = Part(p, i, j)
  <1>0. i \in Int /\ j \in Int /\ g \in Int /\ \A k \in i .. j : q[k + g] = p[k]
    BY DEF SamePieces
  <1>1. SubSeq(p, i, j) = [k \in 1 .. (1 + j - i) |-> p[i + k - 1]]
    BY <1>0 DEF SubSeq
  <1>2. SubSeq(q, i + g, j + g) = [k \in 1 .. (1 + (j + g) - (i + g)) |-> q[(i + g) + k - 1]]
    BY <1>0 DEF SubSeq
  <1>3. 1 .. (1 + (j + g) - (i + g)) = 1 .. (1 + j - i)
    BY <1>0
  <1>4. ASSUME NEW k \in 1 .. (1 + j - i) PROVE q[(i + g) + k - 1] = p[i + k - 1]
    <2>1. i + k - 1 \in i .. j /\ (i + g) + k - 1 = (i + k - 1) + g
      BY <1>0
    <2> QED BY <1>0, <2>1
  <1> QED BY <1>1, <1>2, <1>3, <1>4 DEF Part

Placed(e, g) == e.at \in Int /\ e.close \in Int /\ g \in Int

SameHash(p, o, q, b, at) ==
    HashOf(q, b) = HashOf(p, o) /\ (IsHarvested(b) <=> IsHarvested(o)) /\ b.at = at

LEMMA AgainSameHash ==
    ASSUME NEW p, NEW q, NEW g, NEW e, NEW f, Again(e, p, f, q, g), Placed(e, g),
           NEW o, BareElement(e, o), NEW b, BareElement(f, b)
    PROVE  SameHash(p, o, q, b, e.at + g)
  <1>0. e.at \in Int /\ e.close \in Int /\ g \in Int
    BY DEF Placed
  <1>1. f.at = e.at + g /\ f.tag = e.tag /\ f.text = e.text /\ f.ns = e.ns
    BY DEF Again
  <1>2. Cleaned(f) = Cleaned(e) /\ (ClosesItself(f) <=> ClosesItself(e))
    BY <1>1 DEF Cleaned, ClosesItself, IsVoid
  <1>3. o.at = e.at /\ o.close = e.close /\ o.tag = e.tag /\ o.text = Cleaned(e)
        /\ (ClosesItself(o) <=> ClosesItself(e))
    BY DEF BareElement, ClosesItself, IsVoid
  <1>4. b.at = f.at /\ b.close = f.close /\ b.tag = f.tag /\ b.text = Cleaned(f)
        /\ (ClosesItself(b) <=> ClosesItself(f))
    BY DEF BareElement, ClosesItself, IsVoid
  <1>5. Inner(q, b) = Inner(p, o)
    <2>1. CASE ClosesItself(e)
      <3>1. ClosesItself(o) /\ ClosesItself(b)
        BY <1>2, <1>3, <1>4, <2>1
      <3> QED BY <3>1 DEF Inner, ClosesItself
    <2>2. CASE ~ClosesItself(e)
      <3>1. ~ClosesItself(o) /\ ~ClosesItself(b)
        BY <1>2, <1>3, <1>4, <2>2
      <3>2. f.close = e.close + g /\ \A k \in (e.at + 1) .. (e.close - 1) : q[k + g] = p[k]
        BY <2>2 DEF Again
      <3> DEFINE i == e.at + 1
                 j == e.close - 1
      <3>3. i \in Int /\ j \in Int /\ \A k \in i .. j : q[k + g] = p[k]
        BY <1>0, <3>2
      <3>4. i + g = b.at + 1 /\ j + g = b.close - 1 /\ i = o.at + 1 /\ j = o.close - 1
        BY <1>0, <1>1, <1>3, <1>4, <3>2
      <3> HIDE DEF i, j
      <3>5. Inner(q, b) = Part(q, b.at + 1, b.close - 1) /\ Inner(p, o) = Part(p, o.at + 1, o.close - 1)
        BY <3>1 DEF Inner, ClosesItself, Part
      <3>6. Part(q, i + g, j + g) = Part(p, i, j)
        <4>1. SamePieces(p, i, j, q, g)
          BY <1>0, <3>3 DEF SamePieces
        <4> QED BY <4>1, SubSeqAgain
      <3> QED BY <3>4, <3>5, <3>6
    <2> QED BY <2>1, <2>2
  <1>6. b.tag = o.tag /\ b.text = o.text
    BY <1>1, <1>2, <1>3, <1>4
  <1> QED BY <1>1, <1>4, <1>5, <1>6 DEF HashOf, IsHarvested, SameHash

\* w is x with the identities of what is in p, which is x without any.
StampMade(x, p, w) ==
    BaresTo(x, p) /\ \E V, W : PlainText(p, V) /\ StampedAs(p, w, ArtifactsIn(p), W)

LEMMA ServedIsMade ==
    ASSUME NEW text, NEW aids, IsStampOf(text, aids)
    PROVE  \E p : StampMade(text, p, text)
  <1>1. PICK V, s : PlainText(s, V) /\ text = StampAids(s).html
    BY DEF IsStampOf
  <1> DEFINE a == ArtifactsIn(s)
  <1>2. stripAllAIDs(s) = s
    BY <1>1, PlainIsClean
  <1>3. text = Rewrite(s, a)
    BY <1>1, <1>2, StampOfPlain DEF Stamped
  <1>4. PICK W : StampedAs(s, text, a, W)
    BY <1>1, <1>3, PlainIsStamped
  <1>5. stripAllAIDs(text) = s
    BY <1>1, <1>4, StampedIsClean
  <1>6. TagWords \subseteq W /\ text \in Seq(Page(W)) /\ s \in Seq(Page(W))
    BY <1>4 DEF StampedAs
  <1>7. CleansTo(text, s)
    BY <1>5, <1>6, StrippingCleans
  <1>8. Tree(text) = Tree(s)
    BY <1>1, StampingKeepsTheElements
  <1> HIDE DEF a
  <1>9. BaresTo(text, s)
    BY <1>6, <1>7, <1>8 DEF BaresTo
  <1> QED BY <1>1, <1>4, <1>9 DEF StampMade, a

LEMMA PublishedIsMade ==
    ASSUME NEW raw, SomePage(raw), StandsApart(raw)
    PROVE  \E p : StampMade(raw, p, StampAids(raw).html)
  <1>1. PICK V : TagWords \subseteq V /\ raw \in Seq(Page(V))
    BY DEF SomePage
  <1> DEFINE s == stripAllAIDs(raw)
             a == ArtifactsIn(s)
  <1>2. PlainText(s, V) /\ CleansTo(raw, s)
    BY <1>1, StrippedIsPlain, StrippingCleans
  <1>3. StampAids(raw).html = Rewrite(s, a)
    BY StampOfPlain DEF Stamped
  <1>4. PICK W : StampedAs(s, StampAids(raw).html, a, W)
    BY <1>2, <1>3, PlainIsStamped
  <1>5. Tree(s) = Tree(raw)
    BY DEF StandsApart
  <1>6. s \in Seq(Page(V))
    BY <1>2 DEF PlainText
  <1> HIDE DEF s, a
  <1>7. BaresTo(raw, s)
    BY <1>1, <1>2, <1>5, <1>6 DEF BaresTo
  <1> QED BY <1>2, <1>4, <1>7 DEF StampMade, a

\* An element that stands in the other text again bears there the identity that it had.
LEMMA AgainSameIdentity ==
    ASSUME NEW x, NEW p, NEW w, StampMade(x, p, w), NEW y, NEW q, NEW v, StampMade(y, q, v),
           NEW g \in Int, NEW i \in DOMAIN scanOpenTags(x), NEW j \in DOMAIN scanOpenTags(y),
           Again(scanOpenTags(x)[i], p, scanOpenTags(y)[j], q, g), IsHarvested(scanOpenTags(p)[i])
    PROVE  AidValues(v[scanOpenTags(x)[i].at + g].text) = AidValues(w[scanOpenTags(x)[i].at].text)
  <1> DEFINE e == scanOpenTags(x)[i]
             f == scanOpenTags(y)[j]
             o == scanOpenTags(p)[i]
             b == scanOpenTags(q)[j]
  <1>1. BaresTo(x, p) /\ BaresTo(y, q)
    BY DEF StampMade
  <1>2. i \in DOMAIN scanOpenTags(p) /\ j \in DOMAIN scanOpenTags(q) /\ BareElement(e, o) /\ BareElement(f, b)
    BY <1>1, BareAreElements
  <1>3. Placed(e, g)
    <2>1. PICK V : x \in Seq(Page(V))
      BY <1>1 DEF BaresTo
    <2>2. scanOpenTags(x) \in Seq(ScanElement(V, Len(x)))
      BY <2>1, ElementsTyped
    <2>3. e \in ScanElement(V, Len(x))
      BY <2>2
    <2> HIDE DEF e
    <2> QED BY <2>1, <2>3 DEF ScanElement, Placed
  <1>4. HashOf(q, b) = HashOf(p, o) /\ (IsHarvested(b) <=> IsHarvested(o)) /\ b.at = e.at + g
    <2> HIDE DEF e, f, o, b
    <2>1. Again(e, p, f, q, g)
      BY DEF e, f
    <2>2. SameHash(p, o, q, b, e.at + g)
      BY <1>2, <1>3, <2>1, AgainSameHash
    <2> QED BY <2>2 DEF SameHash
  <1>5. PICK V, W : PlainText(p, V) /\ StampedAs(p, w, ArtifactsIn(p), W)
    BY DEF StampMade
  <1>6. PICK M, N : PlainText(q, M) /\ StampedAs(q, v, ArtifactsIn(q), N)
    BY DEF StampMade
  <1>7. AidValues(w[o.at].text) = {<<HashOf(p, o)>>}
    BY <1>2, <1>5, StampedBearsHash
  <1>8. AidValues(v[b.at].text) = {<<HashOf(q, b)>>}
    BY <1>2, <1>4, <1>6, StampedBearsHash
  <1>9. o.at = e.at
    <2> HIDE DEF e, o
    <2> QED BY <1>2 DEF BareElement
  <1> HIDE DEF o, b
  <1> QED BY <1>4, <1>7, <1>8, <1>9

\* What is harvested of a stamped text.
LEMMA HarvestedIsHarvested ==
    ASSUME NEW x, NEW p, StampMade(x, p, x), NEW k \in DOMAIN Harvest(x, NoPin)
    PROVE  \E i \in DOMAIN scanOpenTags(x) :
              /\ Harvest(x, NoPin)[k] = scanOpenTags(x)[i] /\ IsHarvested(scanOpenTags(p)[i])
              /\ scanOpenTags(x)[i].text = x[scanOpenTags(x)[i].at].text
  <1> DEFINE found == scanOpenTags(x)
             opens == scanOpenTags(p)
             h == Harvest(x, NoPin)
  <1>1. PICK V, W : PlainText(p, V) /\ StampedAs(p, x, ArtifactsIn(p), W)
    BY DEF StampMade
  <1>2. x \in Seq(Page(W))
    BY <1>1 DEF StampedAs
  <1>3. PICK by : Picks(by, found, ToHarvest(found), h)
    BY <1>2, HarvestPicks DEF Harvests
  <1>4. h \in Seq(ScanElement(W, Len(x))) /\ OfPieces(found, x, Len(x))
    BY <1>2, HarvestTyped, ElementsFound
  <1>5. /\ DOMAIN found = DOMAIN opens
        /\ \A i \in DOMAIN opens : ElementStamped(opens[i], found[i])
    BY <1>1, StampedElements
  <1> HIDE DEF h, found, opens
  <1>6. PICK i \in DOMAIN found : h[k] = found[i] /\ IsHarvested(found[i])
    <2>1. k \in 1 .. Len(h)
      BY <1>4 DEF h
    <2> QED BY <1>3, <2>1 DEF Picks, ToHarvest
  <1>7. IsHarvested(opens[i])
    <2> DEFINE e == found[i]
               o == opens[i]
    <2>1. ElementStamped(o, e) /\ IsHarvested(e)
      BY <1>5, <1>6
    <2> HIDE DEF e, o
    <2>2. IsHarvested(o)
      BY <2>1 DEF ElementStamped, Twins, IsHarvested
    <2> QED BY <2>2 DEF o
  <1>8. found[i].text = x[found[i].at].text
    BY <1>4 DEF OfPieces
  <1> QED BY <1>6, <1>7, <1>8 DEF found, opens, h

\* A step of the scan gives an element no end but its own place.
Moved(s, r, at) == \A i \in DOMAIN s.opens : r.opens[i].close \in {s.opens[i].close, at}

LEMMA PopMoves ==
    ASSUME NEW V, NEW n, NEW s \in Scan(V, n), NEW tag, NEW at
    PROVE  Moved(s, PopForeign(s, tag), at)
  <1> DEFINE r == PopForeign(s, tag)
  <1>1. PopsForeign(s, tag, r)
    BY PopForeignEffect
  <1>2. s.opens \in Seq(ScanElement(V, n))
    BY ScanOf
  <1> HIDE DEF r
  <1>3. ASSUME NEW i \in DOMAIN s.opens PROVE r.opens[i].close = s.opens[i].close
    <2>1. s.opens[i] \in ScanElement(V, n)
      BY <1>2
    <2>2. Popped(s.opens[i]).close = s.opens[i].close
      BY <2>1, PoppedElement
    <2> QED BY <1>1, <2>2 DEF PopsForeign
  <1> QED BY <1>3 DEF Moved, r

LEMMA CloseTagMoves ==
    ASSUME NEW V, NEW n, NEW s \in Scan(V, n), NEW at, NEW tag
    PROVE  Moved(s, CloseTag(s, tag, at), at)
  <1> DEFINE same == {k \in DOMAIN s.stack : s.opens[s.stack[k]].tag = tag}
             popped == IF ~(Len(s.stack) \in same) /\ tag \in {"p", "br"} THEN PopForeign(s, tag) ELSE s
             k == CHOOSE i \in same : \A j \in same : j <= i
             c == CloseAt(popped, k, at)
  <1>1. /\ popped \in Scan(V, n) /\ popped.stack = s.stack
        /\ DOMAIN popped.opens = DOMAIN s.opens /\ Moved(s, popped, at)
    <2> DEFINE x == PopForeign(s, tag)
    <2>1. x \in Scan(V, n) /\ x.stack = s.stack /\ DOMAIN x.opens = DOMAIN s.opens
      BY PopForeignTyped
    <2>2. Moved(s, x, at) /\ Moved(s, s, at)
      BY PopMoves DEF Moved
    <2>3. popped = x \/ popped = s
      OBVIOUS
    <2> HIDE DEF x, popped
    <2> QED BY <2>1, <2>2, <2>3
  <1>2. ASSUME same # {} PROVE k \in same
    <2>1. s.stack \in Seq(Nat)
      BY ScanOf
    <2>2. same \in SUBSET Nat /\ Len(s.stack) \in Nat /\ \A i \in same : i <= Len(s.stack)
      BY <2>1
    <2> HIDE DEF same
    <2>3. \E i \in same : \A j \in same : j <= i
      BY <1>2, <2>2, GreatestOf
    <2> QED BY <2>3
  <1>3. same # {} => k \in DOMAIN popped.stack
    BY <1>1, <1>2
  <1>4. CloseTag(s, tag, at) \in {popped, c}
        /\ (same = {} => CloseTag(s, tag, at) = popped)
    BY DEF CloseTag
  <1> HIDE DEF popped, k, same
  <1>5. ASSUME same # {} PROVE Moved(s, c, at)
    <2>1. ClosesAt(popped, k, at, c)
      BY <1>1, <1>3, <1>5, CloseAtEffect
    <2>2. popped.opens \in Seq(ScanElement(V, n))
      BY <1>1, ScanOf
    <2> HIDE DEF c
    <2>3. ASSUME NEW i \in DOMAIN s.opens PROVE c.opens[i].close \in {s.opens[i].close, at}
      <3> DEFINE e == popped.opens[i]
      <3>1. e \in ScanElement(V, n) /\ e.close \in {s.opens[i].close, at}
        BY <1>1, <2>2 DEF Moved
      <3>2. c.opens[i] \in {e, Closed(e, at)}
        BY <1>1, <2>1 DEF ClosesAt
      <3>3. Closed(e, at).close = at
        BY <3>1, ClosedElement DEF Ends
      <3> HIDE DEF e
      <3> QED BY <3>1, <3>2, <3>3
    <2> QED BY <2>3 DEF Moved
  <1> HIDE DEF c
  <1> QED BY <1>1, <1>4, <1>5

LEMMA PieceMoves ==
    ASSUME NEW V, NEW n, NEW s \in Scan(V, n), NEW piece \in Page(V), NEW at \in 1 .. n
    PROVE  /\ Moved(s, ScanPiece(s, piece, at), at)
           /\ Opens(s, piece) => ScanPiece(s, piece, at).opens[Len(s.opens) + 1].close = at
  <1> DEFINE r == ScanPiece(s, piece, at)
  <1>1. Steps(s, piece, at, r)
    BY ScanSteps
  <1>2. s.opens \in Seq(ScanElement(V, n))
    BY ScanOf
  <1> HIDE DEF r
  <1>3. ASSUME r = s PROVE Moved(s, r, at)
    BY <1>3 DEF Moved
  <1>4. ASSUME r = [s EXCEPT !.mode = "data"] \/ r = [s EXCEPT !.mode = "comment"] PROVE Moved(s, r, at)
    <2>1. CASE r = [s EXCEPT !.mode = "data"]
      <3>1. InMode(s, "data", r)
        BY <2>1, ModeEffect
      <3> QED BY <3>1 DEF InMode, Moved
    <2>2. CASE r = [s EXCEPT !.mode = "comment"]
      <3>1. InMode(s, "comment", r)
        BY <2>2, ModeEffect
      <3> QED BY <3>1 DEF InMode, Moved
    <2> QED BY <1>4, <2>1, <2>2
  <1>5. ASSUME r = RawClosed(s, at) PROVE Moved(s, r, at)
    <2>1. EndsRaw(s, at, r)
      BY <1>5, RawEffect
    <2>2. ASSUME NEW i \in DOMAIN s.opens PROVE r.opens[i].close \in {s.opens[i].close, at}
      <3> DEFINE e == s.opens[i]
      <3>1. e \in ScanElement(V, n) /\ r.opens[i] \in {e, Closed(e, at)}
        BY <1>2, <2>1 DEF EndsRaw
      <3>2. Closed(e, at).close = at
        BY <3>1, ClosedElement DEF Ends
      <3> HIDE DEF e
      <3> QED BY <3>1, <3>2 DEF e
    <2> QED BY <2>2 DEF Moved
  <1>6. ASSUME r = CloseTag(s, piece.tag, at) PROVE Moved(s, r, at)
    BY <1>6, CloseTagMoves
  <1>7. ASSUME Opens(s, piece), r = OpenElement(s, piece, at)
        PROVE  Moved(s, r, at) /\ r.opens[Len(s.opens) + 1].close = at
    <2> DEFINE b == Before(s, piece.tag)
               ns == Entered(s, piece.tag)
    <2>0. piece.kind = "open"
      BY <1>7 DEF Opens
    <2>1. b \in Scan(V, n) /\ ns \in Namespaces /\ r = PushElement(b, piece, at, ns)
      BY <1>7, <2>0, OpenPushes
    <2>2. DOMAIN b.opens = DOMAIN s.opens /\ Moved(s, b, at)
      <3> DEFINE x == PopForeign(s, piece.tag)
      <3>1. DOMAIN x.opens = DOMAIN s.opens
        BY PopForeignTyped
      <3>2. Moved(s, x, at) /\ Moved(s, s, at)
        BY PopMoves DEF Moved
      <3>3. b \in {s, x}
        BY DEF Before
      <3> HIDE DEF x, b
      <3> QED BY <3>1, <3>2, <3>3
    <2> HIDE DEF b, ns
    <2>3. Pushes(b, piece, at, ns, r)
      BY <2>0, <2>1, PushEffect
    <2>4. Len(b.opens) = Len(s.opens)
      <3>1. b.opens \in Seq(ScanElement(V, n))
        BY <2>1, ScanOf
      <3>2. DOMAIN b.opens = 1 .. Len(b.opens) /\ DOMAIN s.opens = 1 .. Len(s.opens)
            /\ Len(b.opens) \in Nat /\ Len(s.opens) \in Nat
        BY <1>2, <3>1
      <3> DEFINE c == Len(b.opens)
                 d == Len(s.opens)
      <3>3. c \in Nat /\ d \in Nat /\ 1 .. c = 1 .. d
        BY <2>2, <3>2
      <3> HIDE DEF c, d
      <3>4. c \in 1 .. c \/ c = 0
        BY <3>3
      <3>5. d \in 1 .. d \/ d = 0
        BY <3>3
      <3>6. c <= d /\ d <= c
        BY <3>3, <3>4, <3>5
      <3> QED BY <3>3, <3>6 DEF c, d
    <2>5. r.opens[Len(b.opens) + 1] = NewElement(piece, at, ns)
          /\ \A i \in DOMAIN b.opens : r.opens[i] = b.opens[i]
      BY <2>3 DEF Pushes
    <2>6. NewElement(piece, at, ns).close = at
      BY DEF NewElement
    <2> QED BY <2>2, <2>4, <2>5, <2>6 DEF Moved
  <1> QED BY <1>1, <1>3, <1>4, <1>5, <1>6, <1>7 DEF Steps, Opens, r

\* So no element ends before its tag.
LEMMA EndsBehind ==
    ASSUME NEW V, NEW text \in Seq(Page(V)), NEW i \in DOMAIN scanOpenTags(text)
    PROVE  scanOpenTags(text)[i].at <= scanOpenTags(text)[i].close
  <1>1. PICK u : ScanRun(u, V, text)
    BY ScanRuns
  <1>2. GrowingRun(u, V, text)
    BY <1>1, RunGrows
  <1> DEFINE n == Len(text)
             Behind(o) == \A j \in DOMAIN o : o[j].at <= o[j].close
             T == {k \in Nat : Behind(u[k].opens)}
  <1>3. n \in Nat /\ \A k \in 1 .. n : text[k] \in Page(V)
    OBVIOUS
  <1>4. /\ \A k \in 0 .. n : u[k] \in Scan(V, n) /\ OfPieces(u[k].opens, text, k)
        /\ \A k \in 1 .. n : Grown(u[k - 1], text[k], k, u[k])
    BY <1>2 DEF GrowingRun
  <1>5. /\ u[0] = NewScan /\ scanOpenTags(text) = u[n].opens
        /\ \A k \in 1 .. n : u[k] = ScanPiece(u[k - 1], text[k], k)
    BY <1>1 DEF ScanRun
  <1> HIDE DEF n
  <1>6. 0 \in T
    <2>1. u[0].opens = <<>> /\ DOMAIN <<>> = {}
      BY <1>5 DEF NewScan
    <2> QED BY <2>1
  <1>7. ASSUME NEW k \in 0 .. (n - 1), k \in T PROVE k + 1 \in T
    <2> DEFINE at == k + 1
               s == u[k]
               r == u[at]
               m == Len(s.opens) + 1
    <2>1. k \in Nat /\ at \in Nat /\ at \in 1 .. n /\ at \in 0 .. n /\ k \in 0 .. n /\ at - 1 = k
      BY <1>3
    <2> HIDE DEF at
    <2>2. s \in Scan(V, n) /\ OfPieces(s.opens, text, k) /\ OfPieces(r.opens, text, at)
          /\ Grown(s, text[at], at, r)
      BY <1>4, <2>1
    <2>3. text[at] \in Page(V) /\ r = ScanPiece(s, text[at], at)
      BY <1>3, <1>5, <2>1
    <2>4. Behind(s.opens)
      BY <1>7
    <2>5. DOMAIN s.opens = 1 .. Len(s.opens) /\ Len(s.opens) \in Nat
          /\ \A j \in DOMAIN s.opens : s.opens[j] \in ScanElement(V, n)
      <3>1. s.opens \in Seq(ScanElement(V, n))
        BY <2>2, ScanOf
      <3> QED BY <3>1
    <2> HIDE DEF s, r
    <2>6. Moved(s, r, at) /\ (Opens(s, text[at]) => r.opens[m].close = at)
      BY <2>1, <2>2, <2>3, PieceMoves
    <2>7. ASSUME NEW j \in DOMAIN s.opens PROVE r.opens[j].at <= r.opens[j].close
      <3>1. r.opens[j].at = s.opens[j].at
        BY <2>2 DEF Grown, Extends, Keeps
      <3>2. s.opens[j].at \in 1 .. k /\ s.opens[j].at <= s.opens[j].close
        BY <2>2, <2>4 DEF OfPieces
      <3>3. r.opens[j].close \in {s.opens[j].close, at}
        BY <2>6 DEF Moved
      <3> QED BY <2>1, <3>1, <3>2, <3>3 DEF at
    <2>8. ASSUME Opens(s, text[at]) PROVE r.opens[m].at <= r.opens[m].close
      <3>1. r.opens[m].at = at /\ r.opens[m].close = at
        BY <2>2, <2>6, <2>8 DEF Grown, IsOf
      <3> QED BY <2>1, <3>1
    <2>9. \A j \in DOMAIN r.opens : j \in DOMAIN s.opens \/ (Opens(s, text[at]) /\ j = m)
      BY <2>2, <2>5 DEF Grown
    <2> HIDE DEF m
    <2>10. Behind(r.opens)
      BY <2>7, <2>8, <2>9
    <2> QED BY <2>1, <2>10 DEF r, at
  <1>8. \A k \in 0 .. n : k \in T
    <2> HIDE DEF T
    <2> QED BY <1>3, <1>6, <1>7, InductUpTo
  <1>9. n \in T
    BY <1>3, <1>8
  <1> QED BY <1>5, <1>9

\* y is x with something else from at to last; g is what it has more.
Around(x, at, last, y, g) ==
    /\ at \in 1 .. Len(x) /\ last \in 1 .. Len(x) /\ g \in Int
    /\ Len(y) = Len(x) + g /\ at - 1 <= Len(y)
    /\ \A k \in 1 .. (at - 1) : y[k] = x[k]
    /\ \A k \in (last + 1) .. Len(x) : k + g \in 1 .. Len(y) /\ y[k + g] = x[k]

LEMMA BearingIsAround ==
    ASSUME NEW V, NEW base \in Seq(Page(V)), NEW at, NEW last, NEW fragment, NEW text, NEW raw, NEW aid,
           Fits(base, at, last, fragment, text), Bearing(V, text, raw, at, aid)
    PROVE  Around(base, at, last, raw, Len(text) - Len(base))
  <1> DEFINE n == Len(base)
             f == Len(fragment)
             m == Len(text)
             g == m - n
  <1>1. /\ n \in Nat /\ at \in 1 .. n /\ last \in 1 .. n /\ f \in Nat \ {0}
        /\ m = (at - 1) + f + (n - last)
        /\ \A k \in 1 .. (at - 1) : text[k] = base[k]
        /\ \A k \in 1 .. (n - last) : text[(at - 1) + f + k] = base[last + k]
    BY DEF Fits
  <1>2. Len(raw) = m /\ \A k \in 1 .. m : k # at => raw[k] = text[k]
    BY DEF Bearing
  <1> HIDE DEF n, f, m
  <1>3. g \in Int /\ m = n + g /\ at - 1 <= m /\ m \in Nat
    BY <1>1
  <1>4. ASSUME NEW k \in 1 .. (at - 1) PROVE raw[k] = base[k]
    <2>1. k \in 1 .. m /\ k # at
      BY <1>1, <1>3
    <2> QED BY <1>1, <1>2, <2>1
  <1>5. ASSUME NEW k \in (last + 1) .. n PROVE k + g \in 1 .. m /\ raw[k + g] = base[k]
    <2> DEFINE d == k - last
    <2>1. d \in 1 .. (n - last) /\ (at - 1) + f + d = k + g /\ last + d = k
      BY <1>1
    <2>2. k + g \in 1 .. m /\ k + g # at
      BY <1>1
    <2>3. text[(at - 1) + f + d] = base[last + d]
      BY <1>1, <2>1
    <2> HIDE DEF d
    <2> QED BY <1>2, <2>1, <2>2, <2>3
  <1> QED BY <1>1, <1>2, <1>3, <1>4, <1>5 DEF Around, n, m

\* What stands outside is read as it was.
ReadOver(x, at, last, y, g) ==
    \A i \in DOMAIN scanOpenTags(x) :
        LET e == scanOpenTags(x)[i] IN
        /\ e.close < at =>
              \E j \in DOMAIN scanOpenTags(y) :
                 LET f == scanOpenTags(y)[j] IN f.at = e.at /\ f.close = e.close /\ f.ns = e.ns
        /\ e.at > last =>
              \E j \in DOMAIN scanOpenTags(y) :
                 LET f == scanOpenTags(y)[j] IN f.at = e.at + g /\ f.close = e.close + g /\ f.ns = e.ns

\* Two elements with the same piece.
LEMMA SamePiece ==
    ASSUME NEW V, NEW x \in Seq(Page(V)), NEW y \in Seq(Page(V)),
           NEW i \in DOMAIN scanOpenTags(x), NEW j \in DOMAIN scanOpenTags(y),
           y[scanOpenTags(y)[j].at] = x[scanOpenTags(x)[i].at]
    PROVE  /\ scanOpenTags(y)[j].tag = scanOpenTags(x)[i].tag
           /\ scanOpenTags(y)[j].text = scanOpenTags(x)[i].text
  <1> DEFINE o == scanOpenTags(x)
             f == scanOpenTags(y)
  <1>1. OfPieces(o, x, Len(x)) /\ OfPieces(f, y, Len(y))
    BY ElementsFound
  <1> HIDE DEF o, f
  <1>2. o[i].tag = x[o[i].at].tag /\ o[i].text = x[o[i].at].text
    BY <1>1 DEF OfPieces, o
  <1>3. f[j].tag = y[f[j].at].tag /\ f[j].text = y[f[j].at].text
    BY <1>1 DEF OfPieces, f
  <1> QED BY <1>2, <1>3 DEF o, f

LEMMA BeforeIsAgain ==
    ASSUME NEW V, NEW x \in Seq(Page(V)), NEW y \in Seq(Page(V)), NEW at, NEW last, NEW g,
           Around(x, at, last, y, g), ReadOver(x, at, last, y, g),
           NEW p, BaresTo(x, p), NEW q, BaresTo(y, q),
           NEW i \in DOMAIN scanOpenTags(x), CloseEnd(scanOpenTags(x)[i]) < at
    PROVE  \E j \in DOMAIN scanOpenTags(y) : Again(scanOpenTags(x)[i], p, scanOpenTags(y)[j], q, 0)
  <1> DEFINE e == scanOpenTags(x)[i]
             found == scanOpenTags(y)
             n == Len(x)
             r == Len(y)
  <1>1. n \in Nat /\ r \in Nat
    OBVIOUS
  <1>2. /\ at \in 1 .. n /\ at - 1 <= r /\ \A k \in 1 .. (at - 1) : y[k] = x[k]
    BY DEF Around
  <1>3. e.at \in 1 .. n /\ e.close \in 1 .. n /\ e.at <= e.close
    <2>1. scanOpenTags(x) \in Seq(ScanElement(V, n))
      BY ElementsTyped
    <2>2. e \in ScanElement(V, n) /\ e.at <= e.close
      BY <2>1, EndsBehind
    <2> HIDE DEF e
    <2> QED BY <2>2 DEF ScanElement
  <1>4. SameBeginning(x, y, at - 1)
    BY <1>1, <1>2 DEF SameBeginning
  <1>5. e.at <= at - 1
    BY <1>2, <1>3 DEF CloseEnd
  <1>6. e.at \in 1 .. (at - 1)
    BY <1>2, <1>3, <1>5
  <1>7. y[e.at] = x[e.at]
    BY <1>2, <1>6
  <1>8. CleansTo(x, p) /\ CleansTo(y, q)
    BY DEF BaresTo
  <1>9. CASE ClosesItself(e)
    <2>1. Stands(x, e.at, y, e.at)
      BY <1>4, <1>6, BeginningStands
    <2>2. PICK j \in DOMAIN found : found[j].at = e.at /\ found[j].ns = e.ns
      BY <2>1 DEF Stands
    <2>3. y[found[j].at] = x[e.at]
      BY <1>7, <2>2
    <2>4. found[j].tag = e.tag /\ found[j].text = e.text
      BY <2>3, SamePiece
    <2>5. found[j].at = e.at + 0
      BY <1>3, <2>2
    <2> HIDE DEF e, found
    <2>6. Again(e, p, found[j], q, 0)
      BY <1>9, <2>2, <2>4, <2>5 DEF Again
    <2> QED BY <2>6 DEF e, found
  <1>10. CASE ~ClosesItself(e)
    <2>1. e.close < at
      BY <1>10 DEF CloseEnd, ClosesItself
    <2>2. PICK j \in DOMAIN found : found[j].at = e.at /\ found[j].close = e.close /\ found[j].ns = e.ns
      BY <2>1 DEF ReadOver
    <2>3. y[found[j].at] = x[e.at]
      BY <1>7, <2>2
    <2>4. found[j].tag = e.tag /\ found[j].text = e.text
      BY <2>3, SamePiece
    <2>5. found[j].at = e.at + 0 /\ found[j].close = e.close + 0
      BY <1>3, <2>2
    <2>6. ASSUME NEW k \in (e.at + 1) .. (e.close - 1) PROVE q[k + 0] = p[k]
      <3>1. k \in 1 .. (at - 1) /\ k + 0 = k
        BY <1>2, <1>3, <2>1
      <3>2. Stands(x, k, y, k)
        BY <1>4, <3>1, BeginningStands
      <3>3. q[k] = p[k]
        BY <1>8, <3>2, StandingIsCleaned
      <3> QED BY <3>1, <3>3
    <2> HIDE DEF e, found
    <2>7. Again(e, p, found[j], q, 0)
      BY <2>2, <2>4, <2>5, <2>6 DEF Again
    <2> QED BY <2>7 DEF e, found
  <1> QED BY <1>9, <1>10

LEMMA AfterIsAgain ==
    ASSUME NEW V, NEW x \in Seq(Page(V)), NEW y \in Seq(Page(V)), NEW at, NEW last, NEW g,
           Around(x, at, last, y, g), ReadOver(x, at, last, y, g),
           NEW p, BaresTo(x, p), NEW q, BaresTo(y, q),
           NEW i \in DOMAIN scanOpenTags(x), scanOpenTags(x)[i].at > last
    PROVE  \E j \in DOMAIN scanOpenTags(y) : Again(scanOpenTags(x)[i], p, scanOpenTags(y)[j], q, g)
  <1> DEFINE e == scanOpenTags(x)[i]
             found == scanOpenTags(y)
             n == Len(x)
             r == Len(y)
  <1>1. n \in Nat /\ r \in Nat
    OBVIOUS
  <1>2. /\ last \in 1 .. n /\ g \in Int /\ r = n + g
        /\ \A k \in (last + 1) .. n : k + g \in 1 .. r /\ y[k + g] = x[k]
    BY DEF Around
  <1>3. e.at \in 1 .. n /\ e.close \in 1 .. n
    <2>1. scanOpenTags(x) \in Seq(ScanElement(V, n))
      BY ElementsTyped
    <2>2. e \in ScanElement(V, n)
      BY <2>1
    <2> HIDE DEF e
    <2> QED BY <2>2 DEF ScanElement
  <1>4. \A k \in e.at .. n : k \in (last + 1) .. n
    BY <1>2, <1>3
  <1>5. y[e.at + g] = x[e.at] /\ e.at + g \in 1 .. r
    BY <1>1, <1>2, <1>3, <1>4
  <1>6. CleansTo(x, p) /\ CleansTo(y, q)
    BY DEF BaresTo
  <1>7. PICK j \in DOMAIN found : found[j].at = e.at + g /\ found[j].close = e.close + g /\ found[j].ns = e.ns
    BY DEF ReadOver
  <1>8. y[found[j].at] = x[e.at]
    BY <1>5, <1>7
  <1>9. found[j].tag = e.tag /\ found[j].text = e.text
    BY <1>8, SamePiece
  <1>10. Follows(x, e.at, y, g)
    <2>1. ASSUME NEW c \in DOMAIN scanOpenTags(x), scanOpenTags(x)[c].at >= e.at
          PROVE  \E l \in DOMAIN scanOpenTags(y) :
                    /\ scanOpenTags(y)[l].at = scanOpenTags(x)[c].at + g
                    /\ scanOpenTags(y)[l].ns = scanOpenTags(x)[c].ns
      <3>1. scanOpenTags(x)[c].at \in 1 .. n
        BY ElementsFound DEF OfPieces
      <3>2. scanOpenTags(x)[c].at > last
        BY <1>2, <1>3, <2>1, <3>1
      <3> QED BY <3>2 DEF ReadOver
    <2>2. \A k \in e.at .. n : y[k + g] = x[k]
      BY <1>2, <1>4
    <2> HIDE DEF e
    <2> QED BY <1>2, <1>3, <1>5, <2>1, <2>2 DEF Follows
  <1>11. ASSUME NEW k \in (e.at + 1) .. (e.close - 1) PROVE q[k + g] = p[k]
    <2>1. k \in e.at .. n
      BY <1>3
    <2>2. Stands(x, k, y, k + g)
      BY <1>10, <2>1, FollowingStands
    <2> QED BY <1>6, <2>2, StandingIsCleaned
  <1> HIDE DEF e, found
  <1>12. Again(e, p, found[j], q, g)
    BY <1>7, <1>9, <1>11 DEF Again
  <1> QED BY <1>12 DEF e, found

LEMMA TreeAt ==
    ASSUME NEW s
    PROVE  /\ DOMAIN Tree(s) = DOMAIN scanOpenTags(s)
           /\ \A i \in DOMAIN scanOpenTags(s) :
                 /\ Tree(s)[i].at = scanOpenTags(s)[i].at
                 /\ Tree(s)[i].close = scanOpenTags(s)[i].close
                 /\ Tree(s)[i].ns = scanOpenTags(s)[i].ns
  BY DEF Tree

\* The promise that what stands outside is read on, element by element.
LEMMA ReadsOnEach ==
    ASSUME NEW V, html \in Seq(Page(V)), NEW raw \in Seq(Page(V)), NEW text, Tree(raw) = Tree(text),
           NEW old, ReadsOn(old, text), Len(text) - Len(html) \in Int
    PROVE  ReadOver(html, old.at, CloseEnd(old), raw, Len(text) - Len(html))
  <1> DEFINE x == scanOpenTags(html)
             y == scanOpenTags(raw)
             g == Len(text) - Len(html)
             last == CloseEnd(old)
             before == Tree(html)
             after == Tree(raw)
             kept == {Shifted(before[i], 0) : i \in {j \in DOMAIN before : before[j].close < old.at}}
             moved == {Shifted(before[i], g) : i \in {j \in DOMAIN before : before[j].at > last}}
             read == {Shifted(after[i], 0) : i \in DOMAIN after}
  <1>1. kept \cup moved \subseteq read
    BY DEF ReadsOn
  <1>2. /\ DOMAIN before = DOMAIN x
        /\ \A i \in DOMAIN x : before[i].at = x[i].at /\ before[i].close = x[i].close /\ before[i].ns = x[i].ns
    BY TreeAt
  <1>3. /\ DOMAIN after = DOMAIN y
        /\ \A i \in DOMAIN y : after[i].at = y[i].at /\ after[i].close = y[i].close /\ after[i].ns = y[i].ns
    BY TreeAt
  <1>4. \A i \in DOMAIN x : x[i].at \in Int /\ x[i].close \in Int
    <2>1. x \in Seq(ScanElement(V, Len(html)))
      BY ElementsTyped
    <2> HIDE DEF x
    <2>2. \A e \in ScanElement(V, Len(html)) : e.at \in Int /\ e.close \in Int
      BY DEF ScanElement
    <2> QED BY <2>1, <2>2
  <1>5. \A i \in DOMAIN y : y[i].at \in Int /\ y[i].close \in Int
    <2>1. y \in Seq(ScanElement(V, Len(raw)))
      BY ElementsTyped
    <2> HIDE DEF y
    <2>2. \A e \in ScanElement(V, Len(raw)) : e.at \in Int /\ e.close \in Int
      BY DEF ScanElement
    <2> QED BY <2>1, <2>2
  <1> HIDE DEF x, y, last, before, after
  <1>6. ASSUME NEW i \in DOMAIN x, x[i].close < old.at
        PROVE  \E j \in DOMAIN y : y[j].at = x[i].at /\ y[j].close = x[i].close /\ y[j].ns = x[i].ns
    <2>1. Shifted(before[i], 0) \in read
      BY <1>1, <1>2, <1>6
    <2>2. PICK j \in DOMAIN y : Shifted(before[i], 0) = Shifted(after[j], 0)
      BY <1>3, <2>1
    <2>3. y[j].at + 0 = x[i].at + 0 /\ y[j].close + 0 = x[i].close + 0 /\ y[j].ns = x[i].ns
      BY <1>2, <1>3, <2>2 DEF Shifted
    <2>4. y[j].at = x[i].at /\ y[j].close = x[i].close
      BY <1>4, <1>5, <2>3
    <2> QED BY <2>3, <2>4
  <1>7. ASSUME NEW i \in DOMAIN x, x[i].at > last
        PROVE  \E j \in DOMAIN y : y[j].at = x[i].at + g /\ y[j].close = x[i].close + g /\ y[j].ns = x[i].ns
    <2>1. Shifted(before[i], g) \in read
      BY <1>1, <1>2, <1>7
    <2>2. PICK j \in DOMAIN y : Shifted(before[i], g) = Shifted(after[j], 0)
      BY <1>3, <2>1
    <2>3. y[j].at + 0 = x[i].at + g /\ y[j].close + 0 = x[i].close + g /\ y[j].ns = x[i].ns
      BY <1>2, <1>3, <2>2 DEF Shifted
    <2>4. y[j].at = x[i].at + g /\ y[j].close = x[i].close + g
      BY <1>4, <1>5, <2>3
    <2> QED BY <2>3, <2>4
  <1> QED BY <1>6, <1>7 DEF ReadOver, x, y, last

\* Outside of what was replaced every element keeps its identity.
LEMMA EditKeepsOthers ==
    ASSUME IsStampOf(html, index), NEW e, NEW text, NEW raw, NEW aid, NEW fragment,
           EditOf(e, text, raw, aid, fragment), ReadsOn(e, text)
    PROVE  OthersKeepTheirs(e)
  <1> DEFINE g == Len(text) - Len(html)
             h == Harvest(html, NoPin)
             w == StampAids(raw).html
  <1>1. /\ Fits(html, e.at, CloseEnd(e), fragment, text)
        /\ StandsApart(raw) /\ html' = w
    BY DEF EditOf
  <1>2. PICK V : html \in Seq(Page(V)) /\ Bearing(V, text, raw, e.at, aid)
    BY DEF EditOf
  <1>3. TagWords \subseteq V /\ raw \in Seq(Page(V)) /\ Len(raw) = Len(text) /\ IsDocument(raw)
    BY <1>1, <1>2 DEF Bearing, StandsApart
  <1>4. Around(html, e.at, CloseEnd(e), raw, g)
    BY <1>1, <1>2, BearingIsAround
  <1>5. Tree(raw) = Tree(text)
    BY <1>2, <1>3, BearingReadsAlike
  <1>6. g \in Int
    BY <1>4 DEF Around
  <1>7. ReadOver(html, e.at, CloseEnd(e), raw, g)
    BY <1>2, <1>3, <1>5, <1>6, ReadsOnEach
  <1>8. PICK p : StampMade(html, p, html)
    BY ServedIsMade
  <1>9. PICK q : StampMade(raw, q, w)
    BY <1>1, <1>3, PublishedIsMade DEF SomePage
  <1>10. BaresTo(html, p) /\ BaresTo(raw, q)
    BY <1>8, <1>9 DEF StampMade
  <1>11. Len(w) = Len(raw)
    <2>1. PICK W : StampedAs(q, w, ArtifactsIn(q), W)
      BY <1>9 DEF StampMade
    <2>2. Len(w) = Len(q) /\ Len(q) = Len(raw)
      BY <1>10, <2>1 DEF StampedAs, BaresTo, CleansTo
    <2> QED BY <2>2
  <1> HIDE DEF g, w
  <1>12. ASSUME NEW k \in DOMAIN h, CloseEnd(h[k]) < e.at
         PROVE  AidValues(w[h[k].at].text) = AidValues(h[k].text)
    <2>1. PICK i \in DOMAIN scanOpenTags(html) :
              /\ h[k] = scanOpenTags(html)[i] /\ IsHarvested(scanOpenTags(p)[i])
              /\ scanOpenTags(html)[i].text = html[scanOpenTags(html)[i].at].text
      BY <1>8, HarvestedIsHarvested
    <2>2. PICK j \in DOMAIN scanOpenTags(raw) : Again(scanOpenTags(html)[i], p, scanOpenTags(raw)[j], q, 0)
      <3>1. CloseEnd(scanOpenTags(html)[i]) < e.at
        BY <1>12, <2>1
      <3> QED BY <1>2, <1>3, <1>4, <1>7, <1>10, <3>1, BeforeIsAgain
    <2>3. AidValues(w[scanOpenTags(html)[i].at + 0].text) = AidValues(html[scanOpenTags(html)[i].at].text)
      BY <1>8, <1>9, <2>1, <2>2, AgainSameIdentity
    <2>4. scanOpenTags(html)[i].at + 0 = scanOpenTags(html)[i].at
      <3>1. scanOpenTags(html)[i].at \in 1 .. Len(html) /\ Len(html) \in Nat
        BY <1>2, ElementsFound DEF OfPieces
      <3> QED BY <3>1
    <2> QED BY <2>1, <2>3, <2>4
  <1>13. ASSUME NEW k \in DOMAIN h, h[k].at > CloseEnd(e)
         PROVE  AidValues(w[h[k].at + g].text) = AidValues(h[k].text)
    <2>1. PICK i \in DOMAIN scanOpenTags(html) :
              /\ h[k] = scanOpenTags(html)[i] /\ IsHarvested(scanOpenTags(p)[i])
              /\ scanOpenTags(html)[i].text = html[scanOpenTags(html)[i].at].text
      BY <1>8, HarvestedIsHarvested
    <2>2. PICK j \in DOMAIN scanOpenTags(raw) : Again(scanOpenTags(html)[i], p, scanOpenTags(raw)[j], q, g)
      <3>1. scanOpenTags(html)[i].at > CloseEnd(e)
        BY <1>13, <2>1
      <3> QED BY <1>2, <1>3, <1>4, <1>7, <1>10, <3>1, AfterIsAgain
    <2>3. AidValues(w[scanOpenTags(html)[i].at + g].text) = AidValues(html[scanOpenTags(html)[i].at].text)
      BY <1>6, <1>8, <1>9, <2>1, <2>2, AgainSameIdentity
    <2> QED BY <2>1, <2>3
  <1>14. Len(html') - Len(html) = g
    BY <1>1, <1>3, <1>11 DEF g
  <1> HIDE DEF h
  <1>15. \A k \in DOMAIN h : /\ CloseEnd(h[k]) < e.at => AidValues(html'[h[k].at].text) = AidValues(h[k].text)
                             /\ h[k].at > CloseEnd(e) => AidValues(html'[h[k].at + (Len(html') - Len(html))].text) = AidValues(h[k].text)
    BY <1>1, <1>12, <1>13, <1>14
  <1> QED BY <1>15 DEF OthersKeepTheirs, h

\* An edit publishes the base version with the fragment in the place of the element.
LEMMA EditIsPublished ==
    ASSUME IsStampOf(html, index), NEW e, NEW text, NEW raw, NEW aid, NEW fragment,
           EditOf(e, text, raw, aid, fragment)
    PROVE  \E old \in {Element(html, edit'.at)} : \E t \in {WithFragment(old)} :
              /\ InPlace(old.at, t)
              /\ ReadsOn(old, t) => OthersKeepTheirs(old)
  <1>1. Element(html, edit'.at) = e /\ text = WithFragment(e)
        /\ edit'.fragment = fragment /\ html' = StampAids(raw).html
        /\ PublishedInPlace(raw, text, e.at, StampAids(fragment).aids[1].aid)
    BY DEF EditOf
  <1>2. InPlace(e.at, text)
    BY <1>1 DEF InPlace, PublishedInPlace
  <1>3. ReadsOn(e, text) => OthersKeepTheirs(e)
    BY EditKeepsOthers
  <1> QED BY <1>1, <1>2, <1>3

\* The next version is the base version with the fragment in the place of the element: the
\* text around it is as it was, the root of the fragment is the only artifact with the
\* identity that the fragment has of its own, and where what stands outside is read on,
\* every other element keeps its identity (ReplaceElementAuthorized, ReplaceElementByAIDAt,
\* InjectRootAIDAt, StampAidsPinned).
THEOREM ReplacementIsInPlace ==
    Spec /\ []AuthorStandsApart /\ []EditsStandApart => ReplacementIsPublished
  <1>1. PublishedIsFine /\ EditedRoundTrip /\ RoundTrip /\ EditsStandApart /\ [Next]_vars =>
            [Edited => \E old \in {Element(html, edit'.at)} : \E text \in {WithFragment(old)} :
                          /\ InPlace(old.at, text)
                          /\ ReadsOn(old, text) => OthersKeepTheirs(old)]_vars
    <2> SUFFICES ASSUME PublishedIsFine, EditedRoundTrip, RoundTrip, EditsStandApart, Next, Edited
                 PROVE  \E old \in {Element(html, edit'.at)} : \E text \in {WithFragment(old)} :
                           /\ InPlace(old.at, text)
                           /\ ReadsOn(old, text) => OthersKeepTheirs(old)
      OBVIOUS
    <2>1. ~Write /\ ~FirstPublish /\ ~Republish
      BY DEF Edited, Write, FirstPublish, Republish
    <2>2. PICK aid \in {index[i].aid : i \in DOMAIN index}, fragment \in Fragments :
              ReplaceElement(aid, fragment)
      BY <2>1 DEF Next
    <2>3. published
      BY <2>2 DEF ReplaceElement
    <2>4. PICK e, text, raw : EditOf(e, text, raw, aid, fragment)
      BY <2>2, <2>3, ReplacingIsEdit
    <2>5. IsStampOf(html, index)
      BY <2>3 DEF EditedRoundTrip
    <2> QED BY <2>4, <2>5, EditIsPublished
  <1> QED BY <1>1, EditedRoundTripHolds, RoundTripHolds, PublishedHolds, PTL
          DEF Spec, ReplacementIsPublished
==============================================================================
