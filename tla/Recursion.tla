------------------------------- MODULE Recursion -------------------------------
(***************************************************************************)
(* Induction over the natural numbers, stated with sets instead of          *)
(* predicates, and the functions that a recursion over 0 .. n defines: what *)
(* the proofs about loops over a log or a text rest on; and the loop that   *)
(* keeps some of the elements of a sequence.                                *)
(***************************************************************************)
EXTENDS Integers, Sequences, Subsequences, TLAPS, WellFoundedInduction

\* A set of natural numbers has a least member.
LEMMA LeastOf ==
    ASSUME NEW S \in SUBSET Nat, S # {}
    PROVE  \E m \in S : \A n \in S : m <= n
  <1> DEFINE R == OpToRel(<, Nat)
  <1>1. IsWellFoundedOn(R, Nat)
    BY NatLessThanWellFounded
  <1>2. \A x, y \in Nat : y < x => <<y, x>> \in R
    BY DEF OpToRel
  <1> HIDE DEF R
  <1>3. PICK x \in S : \A y \in S : ~(<<y, x>> \in R)
    BY <1>1, WFMin
  <1>4. ASSUME NEW y \in S PROVE x <= y
    <2>1. x \in Nat /\ y \in Nat /\ ~(y < x)
      BY <1>3, <1>2
    <2> QED BY <2>1
  <1> QED BY <1>4

\* A bounded one has a greatest.
LEMMA GreatestOf ==
    ASSUME NEW S \in SUBSET Nat, S # {}, NEW b \in Nat, \A n \in S : n <= b
    PROVE  \E m \in S : \A n \in S : n <= m
  <1> DEFINE T == {k \in Nat : b - k \in S}
  <1>1. T # {}
    <2>1. PICK s \in S : TRUE
      OBVIOUS
    <2>2. b - s \in Nat /\ b - (b - s) = s
      BY <2>1
    <2> QED BY <2>2
  <1>2. PICK k \in T : \A j \in T : k <= j
    <2>1. T \in SUBSET Nat
      OBVIOUS
    <2> HIDE DEF T
    <2> QED BY <1>1, <2>1, LeastOf
  <1>3. ASSUME NEW n \in S PROVE n <= b - k
    <2>1. b - n \in Nat /\ b - (b - n) = n
      OBVIOUS
    <2>2. b - n \in T
      BY <2>1
    <2>3. k <= b - n
      BY <1>2, <2>2
    <2> QED BY <2>3
  <1> QED BY <1>3

\* Induction, for a set of numbers.
LEMMA Induct ==
    ASSUME NEW S, 0 \in S, \A n \in Nat : n \in S => n + 1 \in S
    PROVE  \A n \in Nat : n \in S
  <1> SUFFICES ASSUME Nat \ S # {} PROVE FALSE
    OBVIOUS
  <1>1. PICK m \in Nat \ S : \A n \in Nat \ S : m <= n
    BY LeastOf
  <1>2. m # 0 /\ m - 1 \in Nat /\ m - 1 \in S
    BY <1>1
  <1> QED BY <1>1, <1>2

\* Induction up to a bound.
LEMMA InductUpTo ==
    ASSUME NEW n \in Nat, NEW S, 0 \in S, \A k \in 0 .. (n - 1) : k \in S => k + 1 \in S
    PROVE  \A k \in 0 .. n : k \in S
  <1> DEFINE T == {k \in Nat : k <= n => k \in S}
  <1>1. 0 \in T
    OBVIOUS
  <1>2. ASSUME NEW k \in Nat, k \in T PROVE k + 1 \in T
    <2>1. SUFFICES ASSUME k + 1 <= n PROVE k + 1 \in S
      OBVIOUS
    <2>2. k \in 0 .. (n - 1) /\ k \in S
      BY <1>2, <2>1
    <2> QED BY <2>2
  <1>3. \A k \in Nat : k \in T
    <2> HIDE DEF T
    <2> QED BY <1>1, <1>2, Induct
  <1> QED BY <1>3

\* A loop of n steps over values in V, and a run of it.
IsLoop(V, n, c, step) == n \in Nat /\ c \in V /\ step \in [1 .. n -> [V -> V]]
IsRun(g, V, n, c, step) ==
    /\ g \in [0 .. n -> V]
    /\ g[0] = c
    /\ \A i \in 1 .. n : g[i] = step[i][g[i - 1]]

\* A recursion that starts in V and whose steps stay in V defines a function.
LEMMA Iterates ==
    ASSUME NEW V, NEW n, NEW c, NEW step, IsLoop(V, n, c, step)
    PROVE  \E g : IsRun(g, V, n, c, step)
  <1>l. n \in Nat /\ c \in V /\ step \in [1 .. n -> [V -> V]]
    BY DEF IsLoop
  <1> DEFINE S == {k \in 0 .. n : \E g \in [0 .. k -> V] :
                       g[0] = c /\ \A i \in 1 .. k : g[i] = step[i][g[i - 1]]}
  <1>1. 0 \in S
    <2> USE <1>l
    <2> DEFINE z == [i \in 0 .. 0 |-> c]
    <2>1. z \in [0 .. 0 -> V] /\ z[0] = c
      OBVIOUS
    <2>2. \A i \in 1 .. 0 : FALSE
      OBVIOUS
    <2> HIDE DEF z
    <2> QED BY <2>1, <2>2
  <1>2. ASSUME NEW k \in 0 .. (n - 1), k \in S PROVE k + 1 \in S
    <2>1. PICK g \in [0 .. k -> V] : g[0] = c /\ \A i \in 1 .. k : g[i] = step[i][g[i - 1]]
      BY <1>2
    <2> DEFINE h == [i \in 0 .. (k + 1) |-> IF i = k + 1 THEN step[k + 1][g[k]] ELSE g[i]]
    <2>2. step[k + 1][g[k]] \in V
      BY <1>l
    <2>3. h \in [0 .. (k + 1) -> V]
      BY <2>2
    <2>4. h[0] = c /\ h[k + 1] = step[k + 1][g[k]] /\ \A i \in 0 .. k : h[i] = g[i]
      BY <2>1
    <2> HIDE DEF h
    <2>5. ASSUME NEW i \in 1 .. (k + 1) PROVE h[i] = step[i][h[i - 1]]
      <3>1. CASE i = k + 1
        <4>1. i - 1 = k /\ k \in 0 .. k
          BY <3>1
        <4> QED BY <2>4, <3>1, <4>1
      <3>2. CASE i # k + 1
        <4>1. i \in 1 .. k /\ i \in 0 .. k /\ i - 1 \in 0 .. k
          BY <3>2
        <4> QED BY <2>1, <2>4, <4>1
      <3> QED BY <3>1, <3>2
    <2>6. k + 1 \in 0 .. n
      BY <1>l
    <2>7. \E f \in [0 .. (k + 1) -> V] :
             f[0] = c /\ \A i \in 1 .. (k + 1) : f[i] = step[i][f[i - 1]]
      BY <2>3, <2>4, <2>5, Zenon
    <2> QED BY <2>6, <2>7
  <1>3. \A k \in 0 .. n : k \in S
    <2> HIDE DEF S
    <2> QED BY <1>l, <1>1, <1>2, InductUpTo
  <1>4. n \in S
    <2> HIDE DEF S
    <2> QED BY <1>l, <1>3
  <1> QED BY <1>4 DEF IsRun
\* Two loops, u of n steps and w of m, whose steps bear ids f and g.  The steps whose
\* ids are in X are matched, in the same order; X, and Q relates the values before
\* and after a matched step of both, or an unmatched step of one.
Matched(f, g, X, i, j) == f[i] = g[j] /\ f[i] \in X
InLockstep(n, m, f, g, X, Q, u, w) ==
    /\ n \in Nat /\ m \in Nat
    /\ \A i \in 1 .. n : f[i] \in X => \E j \in 1 .. m : g[j] = f[i]
    /\ \A j \in 1 .. m : g[j] \in X => \E i \in 1 .. n : f[i] = g[j]
    /\ \A h, i \in 1 .. n : \A j, k \in 1 .. m :
          Matched(f, g, X, h, j) /\ Matched(f, g, X, i, k) => (h < i <=> j < k)
    /\ <<u[0], w[0]>> \in Q
    /\ \A i \in 1 .. n : \A j \in 0 .. m :
          f[i] \notin X /\ <<u[i - 1], w[j]>> \in Q => <<u[i], w[j]>> \in Q
    /\ \A i \in 0 .. n : \A j \in 1 .. m :
          g[j] \notin X /\ <<u[i], w[j - 1]>> \in Q => <<u[i], w[j]>> \in Q
    /\ \A i \in 1 .. n : \A j \in 1 .. m :
          Matched(f, g, X, i, j) /\ <<u[i - 1], w[j - 1]>> \in Q => <<u[i], w[j]>> \in Q

LEMMA Lockstep ==
    ASSUME NEW n, NEW m, NEW f, NEW g, NEW X, NEW Q, NEW u, NEW w,
           InLockstep(n, m, f, g, X, Q, u, w)
    PROVE  <<u[n], w[m]>> \in Q
  <1> DEFINE Met(i, j) == Matched(f, g, X, i, j)
             Even(i, j) == \A h \in 1 .. n : \A k \in 1 .. m : Met(h, k) => (h <= i <=> k <= j)
             T == {s \in Nat : \A i \in 0 .. n : \A j \in 0 .. m :
                                  i + j <= s /\ Even(i, j) => <<u[i], w[j]>> \in Q}
  <1>0. n \in Nat /\ m \in Nat
    BY DEF InLockstep
  <1>m. /\ \A i \in 1 .. n : f[i] \in X => \E j \in 1 .. m : Met(i, j)
        /\ \A j \in 1 .. m : g[j] \in X => \E i \in 1 .. n : Met(i, j)
        /\ \A i, j : Met(i, j) => f[i] \in X /\ g[j] \in X
    BY DEF InLockstep, Matched
  <1>o. \A h, i \in 1 .. n : \A j, k \in 1 .. m : Met(h, j) /\ Met(i, k) => (h < i <=> j < k)
    BY DEF InLockstep
  <1>q. /\ <<u[0], w[0]>> \in Q
        /\ \A i \in 1 .. n : \A j \in 0 .. m :
              f[i] \notin X /\ <<u[i - 1], w[j]>> \in Q => <<u[i], w[j]>> \in Q
        /\ \A i \in 0 .. n : \A j \in 1 .. m :
              g[j] \notin X /\ <<u[i], w[j - 1]>> \in Q => <<u[i], w[j]>> \in Q
        /\ \A i \in 1 .. n : \A j \in 1 .. m :
              Met(i, j) /\ <<u[i - 1], w[j - 1]>> \in Q => <<u[i], w[j]>> \in Q
    BY DEF InLockstep
  <1> HIDE DEF Met
  <1>1. 0 \in T
    <2>1. ASSUME NEW i \in 0 .. n, NEW j \in 0 .. m, i + j <= 0 PROVE i = 0 /\ j = 0
      BY <1>0, <2>1
    <2> QED BY <1>q, <2>1
  <1>2. ASSUME NEW s \in Nat, s \in T PROVE s + 1 \in T
    <2> SUFFICES ASSUME NEW i \in 0 .. n, NEW j \in 0 .. m, i + j <= s + 1, Even(i, j)
                 PROVE  <<u[i], w[j]>> \in Q
      OBVIOUS
    <2>0. i \in Nat /\ j \in Nat /\ i <= n /\ j <= m
      BY <1>0
    <2>1. ASSUME i # 0, f[i] \notin X PROVE <<u[i], w[j]>> \in Q
      <3>1. i \in 1 .. n /\ i - 1 \in 0 .. n /\ (i - 1) + j <= s
        BY <1>0, <2>0, <2>1
      <3>2. \A h \in 1 .. n : \A k \in 1 .. m : Met(h, k) => h # i
        BY <1>m, <2>1
      <3>3. Even(i - 1, j)
        <4> SUFFICES ASSUME NEW h \in 1 .. n, NEW k \in 1 .. m, Met(h, k)
                     PROVE  h <= i - 1 <=> k <= j
          OBVIOUS
        <4>1. h # i /\ (h <= i <=> k <= j)
          BY <3>2
        <4> QED BY <1>0, <2>0, <4>1
      <3>4. <<u[i - 1], w[j]>> \in Q
        BY <1>2, <3>1, <3>3
      <3> QED BY <1>q, <2>1, <3>1, <3>4
    <2>2. ASSUME j # 0, g[j] \notin X PROVE <<u[i], w[j]>> \in Q
      <3>1. j \in 1 .. m /\ j - 1 \in 0 .. m /\ i + (j - 1) <= s
        BY <1>0, <2>0, <2>2
      <3>2. \A h \in 1 .. n : \A k \in 1 .. m : Met(h, k) => k # j
        BY <1>m, <2>2
      <3>3. Even(i, j - 1)
        <4> SUFFICES ASSUME NEW h \in 1 .. n, NEW k \in 1 .. m, Met(h, k)
                     PROVE  h <= i <=> k <= j - 1
          OBVIOUS
        <4>1. k # j /\ (h <= i <=> k <= j)
          BY <3>2
        <4> QED BY <1>0, <2>0, <4>1
      <3>4. <<u[i], w[j - 1]>> \in Q
        BY <1>2, <3>1, <3>3
      <3> QED BY <1>q, <2>2, <3>1, <3>4
    <2>3. ASSUME i # 0, f[i] \in X, j # 0 => g[j] \in X PROVE <<u[i], w[j]>> \in Q
      <3>1. i \in 1 .. n
        BY <2>0, <2>3
      <3>2. PICK l \in 1 .. m : Met(i, l)
        BY <1>m, <2>3, <3>1
      <3>3. l <= j
        BY <2>0, <3>1, <3>2
      <3>4. j \in 1 .. m
        BY <1>0, <2>0, <3>3
      <3>5. PICK h \in 1 .. n : Met(h, j)
        BY <1>m, <2>3, <3>4
      <3>6. h <= i
        BY <2>0, <3>4, <3>5
      <3>7. ~(h < i)
        BY <1>o, <1>0, <3>1, <3>2, <3>3, <3>4, <3>5
      <3>8. Met(i, j)
        BY <1>0, <3>5, <3>6, <3>7
      <3>9. i - 1 \in 0 .. n /\ j - 1 \in 0 .. m /\ (i - 1) + (j - 1) <= s
        BY <1>0, <2>0, <3>1, <3>4
      <3>10. Even(i - 1, j - 1)
        <4> SUFFICES ASSUME NEW b \in 1 .. n, NEW k \in 1 .. m, Met(b, k)
                     PROVE  b <= i - 1 <=> k <= j - 1
          OBVIOUS
        <4>1. b < i <=> k < j
          BY <1>o, <3>1, <3>4, <3>8
        <4> QED BY <1>0, <2>0, <4>1
      <3>11. <<u[i - 1], w[j - 1]>> \in Q
        BY <1>2, <3>9, <3>10
      <3> QED BY <1>q, <3>1, <3>4, <3>8, <3>11
    <2>4. ASSUME i = 0, j # 0, g[j] \in X PROVE FALSE
      <3>1. j \in 1 .. m
        BY <2>0, <2>4
      <3>2. PICK h \in 1 .. n : Met(h, j)
        BY <1>m, <2>4, <3>1
      <3>3. h <= i
        BY <2>0, <3>1, <3>2
      <3> QED BY <2>4, <3>2, <3>3
    <2> QED BY <1>q, <2>0, <2>1, <2>2, <2>3, <2>4
  <1>3. \A s \in Nat : s \in T
    <2> HIDE DEF T
    <2> QED BY <1>1, <1>2, Induct
  <1>4. n \in 0 .. n /\ m \in 0 .. m /\ n + m \in Nat
    BY <1>0
  <1>5. Even(n, m)
    BY <1>0
  <1> QED BY <1>3, <1>4, <1>5

\* Appending makes a sequence longer by one.
LEMMA OneLonger ==
    ASSUME NEW V, NEW s \in Seq(V), NEW x \in V
    PROVE  Append(s, x) \in Seq(V) /\ Len(Append(s, x)) = Len(s) + 1
  OBVIOUS

-------------------------------------------------------------------------------
(* Subsequences.                                                           *)

\* The loop that collects a subsequence, one element at a time.
LEMMA SubsequenceLoop ==
    ASSUME NEW V, NEW s \in Seq(V), NEW S
    PROVE  \E u \in [0 .. Len(s) -> Seq(V)] :
              /\ Subsequence(s, S) = u[Len(s)]
              /\ u[0] = <<>>
              /\ \A i \in 1 .. Len(s) :
                    u[i] = IF i \in S THEN Append(u[i - 1], s[i]) ELSE u[i - 1]
  <1> DEFINE n == Len(s)
             body(g) == [i \in 0 .. n |-> IF i = 0 THEN <<>>
                                          ELSE IF i \in S THEN Append(g[i - 1], s[i]) ELSE g[i - 1]]
             step == [i \in 1 .. n |-> [q \in Seq(V) |-> IF i \in S THEN Append(q, s[i]) ELSE q]]
             u == CHOOSE g : g = body(g)
  <1>1. n \in Nat /\ \A i \in 1 .. n : s[i] \in V
    OBVIOUS
  <1>2. step \in [1 .. n -> [Seq(V) -> Seq(V)]]
    BY <1>1
  <1>3. \A i \in 1 .. n : \A q \in Seq(V) : step[i][q] = IF i \in S THEN Append(q, s[i]) ELSE q
    OBVIOUS
  <1>4. <<>> \in Seq(V)
    OBVIOUS
  <1>5. Subsequence(s, S) = u[n]
    BY DEF Subsequence
  <1> HIDE DEF n, step
  <1>6. PICK g : IsRun(g, Seq(V), n, <<>>, step)
    BY <1>1, <1>2, <1>4, Iterates DEF IsLoop
  <1>7. \A i \in 1 .. n : g[i - 1] \in Seq(V)
    BY <1>1, <1>6 DEF IsRun
  <1>8. \A i \in 1 .. n : g[i] = IF i \in S THEN Append(g[i - 1], s[i]) ELSE g[i - 1]
    BY <1>3, <1>6, <1>7 DEF IsRun
  <1>9. g = body(g)
    <2>1. g = [i \in 0 .. n |-> g[i]] /\ g[0] = <<>>
      BY <1>6 DEF IsRun
    <2>2. \A i \in 0 .. n : i # 0 => i \in 1 .. n
      BY <1>1
    <2> QED BY <1>8, <2>1, <2>2
  <1>10. u = body(u)
    BY <1>9
  <1>11. u[0] = <<>> /\ \A i \in 1 .. n : u[i] = IF i \in S THEN Append(u[i - 1], s[i]) ELSE u[i - 1]
    <2> DEFINE e == body(u)
    <2>1. e[0] = <<>> /\ \A i \in 1 .. n : e[i] = IF i \in S THEN Append(u[i - 1], s[i]) ELSE u[i - 1]
      BY <1>1
    <2>2. u = e
      BY <1>10
    <2> HIDE DEF e, u
    <2> QED BY <2>1, <2>2
  <1>12. u = [i \in 0 .. n |-> u[i]]
    BY <1>10
  <1> HIDE DEF u
  <1> DEFINE T == {k \in Nat : u[k] \in Seq(V)}
  <1>13. 0 \in T
    BY <1>4, <1>11
  <1>14. ASSUME NEW k \in 0 .. (n - 1), k \in T PROVE k + 1 \in T
    <2>1. k + 1 \in 1 .. n /\ (k + 1) - 1 = k /\ u[k] \in Seq(V)
      BY <1>1, <1>14
    <2>2. u[k + 1] = IF k + 1 \in S THEN Append(u[k], s[k + 1]) ELSE u[k]
      BY <1>11, <2>1
    <2>3. s[k + 1] \in V
      BY <1>1, <2>1
    <2>4. u[k + 1] \in Seq(V)
      BY <2>1, <2>2, <2>3
    <2> QED BY <2>1, <2>4
  <1>15. \A k \in 0 .. n : k \in T
    <2> HIDE DEF T
    <2> QED BY <1>1, <1>13, <1>14, InductUpTo
  <1>16. u \in [0 .. n -> Seq(V)]
    BY <1>12, <1>15
  <1> QED BY <1>5, <1>11, <1>16 DEF n

\* at says from where in s each element of r was taken: from the places in S, all
\* of them, in ascending order.
Picks(at, s, S, r) ==
    /\ at \in [1 .. Len(r) -> S]
    /\ \A k \in 1 .. Len(r) : r[k] = s[at[k]]
    /\ \A j, k \in 1 .. Len(r) : j < k => at[j] < at[k]
    /\ \A i \in S : \E k \in 1 .. Len(r) : at[k] = i

LEMMA SubsequencePicks ==
    ASSUME NEW V, NEW s \in Seq(V), NEW S
    PROVE  /\ Subsequence(s, S) \in Seq(V)
           /\ \E at : Picks(at, s, S \cap (1 .. Len(s)), Subsequence(s, S))
  <1> DEFINE n == Len(s)
  <1>1. n \in Nat /\ \A i \in 1 .. n : s[i] \in V
    OBVIOUS
  <1>2. PICK u \in [0 .. n -> Seq(V)] :
            /\ Subsequence(s, S) = u[n]
            /\ u[0] = <<>>
            /\ \A i \in 1 .. n : u[i] = IF i \in S THEN Append(u[i - 1], s[i]) ELSE u[i - 1]
    BY SubsequenceLoop
  <1> DEFINE T == {k \in Nat : \E at : Picks(at, s, S \cap (1 .. k), u[k])}
  <1> HIDE DEF n
  <1>3. 0 \in T
    <2> DEFINE at == [k \in 1 .. 0 |-> 0]
    <2>1. Len(u[0]) = 0 /\ S \cap (1 .. 0) = {}
      BY <1>2
    <2>2. Picks(at, s, S \cap (1 .. 0), u[0])
      BY <2>1 DEF Picks
    <2> QED BY <2>2
  <1>4. ASSUME NEW k \in 0 .. (n - 1), k \in T PROVE k + 1 \in T
    <2>0. k \in Nat /\ k + 1 \in 1 .. n /\ (k + 1) - 1 = k /\ u[k] \in Seq(V)
      BY <1>1
    <2>1. PICK at : Picks(at, s, S \cap (1 .. k), u[k])
      BY <1>4
    <2>2. u[k + 1] = IF k + 1 \in S THEN Append(u[k], s[k + 1]) ELSE u[k]
      BY <1>2, <2>0
    <2>3. CASE k + 1 \in S
      <3> DEFINE m == Len(u[k])
                 r == u[k + 1]
                 new == [j \in 1 .. (m + 1) |-> IF j = m + 1 THEN k + 1 ELSE at[j]]
      <3>1. m \in Nat
        BY <2>0
      <3>2. Len(r) = m + 1 /\ r[m + 1] = s[k + 1] /\ \A j \in 1 .. m : r[j] = u[k][j]
        BY <1>1, <2>0, <2>2, <2>3
      <3>3. S \cap (1 .. (k + 1)) = (S \cap (1 .. k)) \cup {k + 1}
        BY <2>0, <2>3
      <3> HIDE DEF r, m
      <3>4. new[m + 1] = k + 1 /\ \A j \in 1 .. m : new[j] = at[j]
        BY <3>1
      <3>5. new = [j \in 1 .. (m + 1) |-> new[j]]
        OBVIOUS
      <3> HIDE DEF new
      <3>6. /\ \A j \in 1 .. m : at[j] \in S \cap (1 .. k) /\ u[k][j] = s[at[j]]
            /\ \A i, j \in 1 .. m : i < j => at[i] < at[j]
            /\ \A i \in S \cap (1 .. k) : \E j \in 1 .. m : at[j] = i
        BY <2>1 DEF Picks, m
      <3>7. \A j \in 1 .. (m + 1) : j = m + 1 \/ j \in 1 .. m
        BY <3>1
      <3>8. new \in [1 .. (m + 1) -> S \cap (1 .. (k + 1))]
        BY <3>3, <3>4, <3>5, <3>6, <3>7
      <3>9. \A j \in 1 .. (m + 1) : r[j] = s[new[j]]
        BY <3>2, <3>4, <3>6, <3>7
      <3>10. ASSUME NEW i \in 1 .. (m + 1), NEW j \in 1 .. (m + 1), i < j PROVE new[i] < new[j]
        <4>1. i \in 1 .. m
          BY <3>1, <3>10
        <4>2. new[i] = at[i] /\ at[i] \in 1 .. k
          BY <3>4, <3>6, <4>1
        <4>3. CASE j = m + 1
          BY <2>0, <3>4, <4>2, <4>3
        <4>4. CASE j \in 1 .. m
          BY <3>4, <3>6, <3>10, <4>1, <4>4
        <4> QED BY <3>7, <4>3, <4>4
      <3>11. ASSUME NEW i \in S \cap (1 .. (k + 1)) PROVE \E j \in 1 .. (m + 1) : new[j] = i
        <4>1. CASE i = k + 1
          <5>1. m + 1 \in 1 .. (m + 1)
            BY <3>1
          <5> QED BY <3>4, <4>1, <5>1
        <4>2. CASE i \in S \cap (1 .. k)
          <5>1. PICK j \in 1 .. m : at[j] = i
            BY <3>6, <4>2
          <5>2. j \in 1 .. (m + 1)
            BY <3>1
          <5> QED BY <3>4, <5>1, <5>2
        <4> QED BY <3>3, <4>1, <4>2
      <3>12. Picks(new, s, S \cap (1 .. (k + 1)), u[k + 1])
        BY <3>2, <3>8, <3>9, <3>10, <3>11 DEF Picks, r
      <3> QED BY <2>0, <3>12
    <2>4. CASE k + 1 \notin S
      <3>1. S \cap (1 .. (k + 1)) = S \cap (1 .. k)
        BY <2>0, <2>4
      <3>2. Picks(at, s, S \cap (1 .. (k + 1)), u[k + 1])
        BY <2>1, <2>2, <2>4, <3>1
      <3> QED BY <2>0, <3>2
    <2> QED BY <2>3, <2>4
  <1>5. \A k \in 0 .. n : k \in T
    <2> HIDE DEF T
    <2> QED BY <1>1, <1>3, <1>4, InductUpTo
  <1>6. n \in 0 .. n /\ u[n] \in Seq(V)
    BY <1>1, <1>2
  <1> QED BY <1>2, <1>5, <1>6 DEF n

\* There is one sequence of the elements at the places in S.
LEMMA PickedIsUnique ==
    ASSUME NEW V, NEW s, NEW S \in SUBSET Nat, NEW r \in Seq(V), NEW q \in Seq(V),
           NEW at, NEW by, Picks(at, s, S, r), Picks(by, s, S, q)
    PROVE  r = q
  <1> DEFINE m == Len(r)
             n == Len(q)
             T == {k \in Nat : \A j \in 1 .. k : (j <= m <=> j <= n) /\ (j <= m => at[j] = by[j])}
  <1>0. m \in Nat /\ n \in Nat /\ r = [k \in 1 .. m |-> r[k]] /\ q = [k \in 1 .. n |-> q[k]]
    OBVIOUS
  <1>1. /\ \A k \in 1 .. m : at[k] \in S /\ at[k] \in Nat /\ r[k] = s[at[k]]
        /\ \A j, k \in 1 .. m : j < k => at[j] < at[k]
        /\ \A i \in S : \E k \in 1 .. m : at[k] = i
    BY DEF Picks
  <1>2. /\ \A k \in 1 .. n : by[k] \in S /\ by[k] \in Nat /\ q[k] = s[by[k]]
        /\ \A j, k \in 1 .. n : j < k => by[j] < by[k]
        /\ \A i \in S : \E k \in 1 .. n : by[k] = i
    BY DEF Picks
  <1> HIDE DEF m, n
  <1>3. 0 \in T
    OBVIOUS
  <1>4. ASSUME NEW k \in Nat, k \in T PROVE k + 1 \in T
    <2> DEFINE l == k + 1
    <2>0. l \in Nat /\ \A j \in 1 .. l : j \in 1 .. k \/ j = l
      OBVIOUS
    <2>1. \A j \in 1 .. k : (j <= m <=> j <= n) /\ (j <= m => at[j] = by[j])
      BY <1>4
    <2>2. ASSUME l \in 1 .. m PROVE \E i \in 1 .. n : i >= l /\ by[i] = at[l]
      <3>1. PICK i \in 1 .. n : by[i] = at[l]
        BY <1>1, <1>2, <2>2
      <3>2. ~(i < l)
        <4> SUFFICES ASSUME i < l PROVE FALSE
          OBVIOUS
        <4>1. i \in 1 .. k /\ i \in 1 .. m /\ i <= n
          BY <1>0, <2>2
        <4>2. at[i] = at[l] /\ at[i] < at[l]
          BY <1>1, <2>1, <2>2, <3>1, <4>1
        <4> QED BY <1>1, <2>2, <4>2
      <3> QED BY <2>0, <3>1, <3>2
    <2>3. ASSUME l \in 1 .. n PROVE \E i \in 1 .. m : i >= l /\ at[i] = by[l]
      <3>1. PICK i \in 1 .. m : at[i] = by[l]
        BY <1>1, <1>2, <2>3
      <3>2. ~(i < l)
        <4> SUFFICES ASSUME i < l PROVE FALSE
          OBVIOUS
        <4>1. i \in 1 .. k /\ i \in 1 .. n /\ i <= m
          BY <1>0, <2>1, <2>3
        <4>2. by[i] = by[l] /\ by[i] < by[l]
          BY <1>2, <2>1, <2>3, <3>1, <4>1
        <4> QED BY <1>2, <2>3, <4>2
      <3> QED BY <2>0, <3>1, <3>2
    <2>4. l \in 1 .. m <=> l \in 1 .. n
      BY <1>0, <2>2, <2>3
    <2>5. ASSUME l \in 1 .. m PROVE at[l] = by[l]
      <3>0. l \in 1 .. n
        BY <2>4, <2>5
      <3>1. PICK i \in 1 .. n : i >= l /\ by[i] = at[l]
        BY <2>2, <2>5
      <3>2. PICK h \in 1 .. m : h >= l /\ at[h] = by[l]
        BY <2>3, <3>0
      <3>3. by[l] <= by[i]
        BY <1>2, <3>0, <3>1
      <3>4. at[l] <= at[h]
        BY <1>1, <2>5, <3>2
      <3> QED BY <1>1, <1>2, <2>5, <3>0, <3>1, <3>2, <3>3, <3>4
    <2>6. (l <= m <=> l <= n) /\ (l <= m => at[l] = by[l])
      BY <1>0, <2>4, <2>5
    <2> QED BY <2>0, <2>1, <2>6
  <1>5. \A k \in Nat : k \in T
    <2> HIDE DEF T
    <2> QED BY <1>3, <1>4, Induct
  <1>6. m = n
    BY <1>0, <1>5
  <1>7. \A k \in 1 .. m : at[k] = by[k]
    BY <1>0, <1>5
  <1>8. \A k \in 1 .. m : r[k] = q[k]
    BY <1>1, <1>2, <1>6, <1>7
  <1> QED BY <1>0, <1>6, <1>8

\* Where every place is picked, nothing changes.
LEMMA AllPicked ==
    ASSUME NEW V, NEW s \in Seq(V)
    PROVE  Subsequence(s, DOMAIN s) = s
  <1> DEFINE n == Len(s)
             r == Subsequence(s, DOMAIN s)
             by == [k \in 1 .. n |-> k]
  <1>1. n \in Nat /\ DOMAIN s = 1 .. n /\ (1 .. n) \cap (1 .. n) = 1 .. n /\ 1 .. n \in SUBSET Nat
    OBVIOUS
  <1>2. r \in Seq(V) /\ \E at : Picks(at, s, 1 .. n, r)
    BY <1>1, SubsequencePicks
  <1>3. Picks(by, s, 1 .. n, s)
    BY <1>1 DEF Picks
  <1> HIDE DEF by, r
  <1>4. PICK at : Picks(at, s, 1 .. n, r)
    BY <1>2
  <1>5. r = s
    BY <1>1, <1>2, <1>3, <1>4, PickedIsUnique
  <1> QED BY <1>5 DEF r
===============================================================================
