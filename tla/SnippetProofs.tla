---------------------------- MODULE SnippetProofs ----------------------------
(***************************************************************************)
(* What a snippet and an excerpt show of a text, for any texts, terms and  *)
(* lengths.                                                                *)
(***************************************************************************)
EXTENDS Snippet, SequenceTheorems, WellFoundedInduction, TLAPS

-----------------------------------------------------------------------------
\* Numbers, and what is joined of sequences.

\* Every set of naturals that isn't empty has a least one.
LEMMA Least ==
    ASSUME NEW S \in SUBSET Nat, S # {}
    PROVE  \E n \in S : \A m \in S : n <= m
<1>1. PICK n \in S : \A m \in S : <<m, n>> \notin OpToRel(<, Nat)
  BY NatLessThanWellFounded, WFMin
<1>2. ASSUME NEW m \in S PROVE n <= m
  <2>1. <<m, n>> \in Nat \X Nat /\ <<m, n>>[1] = m /\ <<m, n>>[2] = n
    OBVIOUS
  <2>2. ~(<<m, n>>[1] < <<m, n>>[2])
    BY <1>1, <2>1, Zenon DEF OpToRel
  <2> QED
    BY <2>1, <2>2
<1> QED
  BY <1>2

\* A loop's invariant that holds at first and after every pass holds after the last.
LEMMA Loop ==
    ASSUME NEW N \in Nat, NEW S, 0 \in S, \A n \in 0 .. N - 1 : n \in S => n + 1 \in S
    PROVE  \A n \in 0 .. N : n \in S
<1> SUFFICES ASSUME NEW bad \in 0 .. N, bad \notin S PROVE FALSE
  OBVIOUS
<1> DEFINE T == {n \in 0 .. N : n \notin S}
<1>1. PICK n \in T : \A m \in T : n <= m
  <2>1. T \in SUBSET Nat /\ T # {}
    OBVIOUS
  <2> HIDE DEF T
  <2> QED
    BY <2>1, Least
<1>2. n # 0 /\ n - 1 \in 0 .. N - 1 /\ n - 1 \in S
  BY <1>1
<1> QED
  BY <1>1, <1>2

\* Every finite part of the naturals that isn't empty has a greatest one.
LEMMA MaxFacts ==
    ASSUME NEW N \in Nat, NEW S \in SUBSET (0 .. N), S # {}
    PROVE  Max(S) \in S /\ \A n \in S : n <= Max(S)
<1> DEFINE T == {b \in 0 .. N : \A n \in S : n <= b}
<1>1. PICK b \in T : \A c \in T : b <= c
  <2>1. N \in T
    OBVIOUS
  <2>2. T \in SUBSET Nat /\ T # {}
    BY <2>1
  <2> HIDE DEF T
  <2> QED
    BY <2>2, Least
<1>2. b \in S
  <2> SUFFICES ASSUME b \notin S PROVE FALSE
    OBVIOUS
  <2>1. PICK n \in S : TRUE
    OBVIOUS
  <2>2. \A m \in S : m <= b - 1
    BY <1>1
  <2>3. b - 1 \in T
    BY <1>1, <2>1, <2>2
  <2> QED
    BY <1>1, <2>3
<1>3. \A n \in S : b >= n
  BY <1>1
<1>4. \E x \in S : \A y \in S : x >= y
  BY <1>2, <1>3
<1>5. Max(S) \in S /\ \A n \in S : Max(S) >= n
  BY <1>4 DEF Max
<1> QED
  BY <1>5

LEMMA MinFacts ==
    ASSUME NEW S \in SUBSET Nat, S # {}
    PROVE  Min(S) \in S /\ \A n \in S : Min(S) <= n
BY Least DEF Min

LEMMA MaxOfTwo ==
    ASSUME NEW a \in Int
    PROVE  Max({0, a}) = IF a > 0 THEN a ELSE 0
<1> DEFINE m == IF a > 0 THEN a ELSE 0
<1>1. m \in {0, a} /\ \A y \in {0, a} : m >= y
  OBVIOUS
<1>2. Max({0, a}) \in {0, a} /\ \A y \in {0, a} : Max({0, a}) >= y
  BY <1>1 DEF Max
<1> QED
  BY <1>2

LEMMA MinOfTwo ==
    ASSUME NEW a \in Int, NEW b \in Int
    PROVE  Min({a, b}) = IF a <= b THEN a ELSE b
<1> DEFINE m == IF a <= b THEN a ELSE b
<1>1. m \in {a, b} /\ \A y \in {a, b} : m <= y
  OBVIOUS
<1>2. Min({a, b}) \in {a, b} /\ \A y \in {a, b} : Min({a, b}) <= y
  BY <1>1 DEF Min
<1> QED
  BY <1>2

\* What is joined up to each of some pieces is as its definition says.
LEMMA JoinedDef ==
    ASSUME NEW pieces, Len(pieces) \in Nat
    PROVE  /\ JoinedTo(pieces)[0] = <<>>
           /\ \A n \in 1 .. Len(pieces) :
                JoinedTo(pieces)[n] = JoinedTo(pieces)[n - 1] \o pieces[n]
<1> DEFINE N == Len(pieces)
           Pass(g, n) == IF n = 0 THEN <<>> ELSE g[n - 1] \o pieces[n]
           Runs(n) == \E g : g = [k \in 0 .. n |-> Pass(g, k)]
           S == {n \in 0 .. N : Runs(n)}
<1>0. N \in Nat
  OBVIOUS
<1> HIDE DEF N
<1>1. 0 \in S
  <2> DEFINE g == [k \in 0 .. 0 |-> <<>>]
  <2>1. g = [k \in 0 .. 0 |-> Pass(g, k)]
    OBVIOUS
  <2> HIDE DEF g
  <2>2. Runs(0)
    BY <2>1
  <2> HIDE DEF Runs
  <2> QED
    BY <1>0, <2>2
<1>2. ASSUME NEW n \in 0 .. N - 1, n \in S PROVE n + 1 \in S
  <2>0. n \in Nat /\ n + 1 \in 0 .. N
    BY <1>0
  <2>1. PICK g : g = [k \in 0 .. n |-> Pass(g, k)]
    BY <1>2
  <2> DEFINE h == [k \in 0 .. n + 1 |-> IF k <= n THEN g[k] ELSE Pass(g, n + 1)]
  <2>2. ASSUME NEW k \in 0 .. n + 1 PROVE h[k] = Pass(h, k)
    <3>1. CASE k <= n
      <4>1. k \in 0 .. n /\ h[k] = g[k]
        BY <2>0, <3>1
      <4>2. g[k] = Pass(g, k)
        <5> HIDE DEF Pass, h
        <5> QED
          BY <2>1, <4>1
      <4>3. k # 0 => h[k - 1] = g[k - 1]
        BY <2>0, <3>1
      <4> HIDE DEF h
      <4> QED
        BY <4>1, <4>2, <4>3
    <3>2. CASE k = n + 1
      <4>1. h[k] = Pass(g, k) /\ k # 0 /\ h[k - 1] = g[k - 1]
        BY <2>0, <3>2
      <4> HIDE DEF h
      <4> QED
        BY <4>1
    <3> QED
      BY <2>0, <3>1, <3>2
  <2>3. h = [k \in 0 .. n + 1 |-> Pass(h, k)]
    BY <2>2
  <2> HIDE DEF h
  <2>4. Runs(n + 1)
    BY <2>3
  <2> HIDE DEF Runs
  <2> QED
    BY <2>0, <2>4
<1>3. Runs(N)
  <2> HIDE DEF Runs
  <2>1. \A n \in 0 .. N : n \in S
    <3> HIDE DEF S
    <3> QED
      BY <1>0, <1>1, <1>2, Loop
  <2> QED
    BY <1>0, <2>1
<1>4. JoinedTo(pieces) = [k \in 0 .. N |-> Pass(JoinedTo(pieces), k)]
  BY <1>3 DEF JoinedTo, N
<1>5. \A n \in 0 .. N : JoinedTo(pieces)[n] = Pass(JoinedTo(pieces), n)
  <2> HIDE DEF Pass
  <2> QED
    BY <1>4
<1>6. 0 \in 0 .. N /\ \A n \in 1 .. N : n \in 0 .. N /\ n # 0
  BY <1>0
<1> QED
  BY <1>5, <1>6 DEF N

\* And so are the hits that are found before each index.
LEMMA FoundDef ==
    ASSUME NEW runes, Len(runes) \in Nat, NEW ts
    PROVE  /\ FoundBefore(runes, ts)[0] = {}
           /\ \A n \in 1 .. Len(runes) :
                FoundBefore(runes, ts)[n] =
                    IF /\ Hit(runes, ts, n - 1)
                       /\ \A index \in FoundBefore(runes, ts)[n - 1] : Past(runes, ts, index) < n
                    THEN FoundBefore(runes, ts)[n - 1] \cup {n - 1} ELSE FoundBefore(runes, ts)[n - 1]
<1> DEFINE N == Len(runes)
           Pass(g, n) == IF n = 0 THEN {}
                         ELSE IF /\ Hit(runes, ts, n - 1)
                                 /\ \A index \in g[n - 1] : Past(runes, ts, index) < n
                              THEN g[n - 1] \cup {n - 1} ELSE g[n - 1]
           Runs(n) == \E g : g = [k \in 0 .. n |-> Pass(g, k)]
           S == {n \in 0 .. N : Runs(n)}
<1>0. N \in Nat
  OBVIOUS
<1> HIDE DEF N
<1>1. 0 \in S
  <2> DEFINE g == [k \in 0 .. 0 |-> {}]
  <2>1. g = [k \in 0 .. 0 |-> Pass(g, k)]
    OBVIOUS
  <2> HIDE DEF g
  <2>2. Runs(0)
    BY <2>1
  <2> HIDE DEF Runs
  <2> QED
    BY <1>0, <2>2
<1>2. ASSUME NEW n \in 0 .. N - 1, n \in S PROVE n + 1 \in S
  <2>0. n \in Nat /\ n + 1 \in 0 .. N
    BY <1>0
  <2>1. PICK g : g = [k \in 0 .. n |-> Pass(g, k)]
    BY <1>2
  <2> DEFINE h == [k \in 0 .. n + 1 |-> IF k <= n THEN g[k] ELSE Pass(g, n + 1)]
  <2>2. ASSUME NEW k \in 0 .. n + 1 PROVE h[k] = Pass(h, k)
    <3>1. CASE k <= n
      <4>1. k \in 0 .. n /\ h[k] = g[k]
        BY <2>0, <3>1
      <4>2. g[k] = Pass(g, k)
        <5> HIDE DEF Pass, h
        <5> QED
          BY <2>1, <4>1
      <4>3. k # 0 => h[k - 1] = g[k - 1]
        BY <2>0, <3>1
      <4> HIDE DEF h
      <4> QED
        BY <4>1, <4>2, <4>3
    <3>2. CASE k = n + 1
      <4>1. h[k] = Pass(g, k) /\ k # 0 /\ h[k - 1] = g[k - 1]
        BY <2>0, <3>2
      <4> HIDE DEF h
      <4> QED
        BY <4>1
    <3> QED
      BY <2>0, <3>1, <3>2
  <2>3. h = [k \in 0 .. n + 1 |-> Pass(h, k)]
    BY <2>2
  <2> HIDE DEF h
  <2>4. Runs(n + 1)
    BY <2>3
  <2> HIDE DEF Runs
  <2> QED
    BY <2>0, <2>4
<1>3. Runs(N)
  <2> HIDE DEF Runs
  <2>1. \A n \in 0 .. N : n \in S
    <3> HIDE DEF S
    <3> QED
      BY <1>0, <1>1, <1>2, Loop
  <2> QED
    BY <1>0, <2>1
<1>4. FoundBefore(runes, ts) = [k \in 0 .. N |-> Pass(FoundBefore(runes, ts), k)]
  BY <1>3 DEF FoundBefore, N
<1>5. \A n \in 0 .. N : FoundBefore(runes, ts)[n] = Pass(FoundBefore(runes, ts), n)
  <2> HIDE DEF Pass
  <2> QED
    BY <1>4
<1>6. 0 \in 0 .. N /\ \A n \in 1 .. N : n \in 0 .. N /\ n # 0
  BY <1>0
<1> QED
  BY <1>5, <1>6 DEF N

\* one sequence after another, as a whole
Cat(s, t) == s \o t

LEMMA CatFacts ==
    ASSUME NEW A, NEW s \in Seq(A), NEW t \in Seq(A)
    PROVE  /\ Cat(s, t) \in Seq(A) /\ Len(Cat(s, t)) = Len(s) + Len(t)
           /\ Cat(s, <<>>) = s /\ Cat(<<>>, t) = t
BY DEF Cat

LEMMA CatElements ==
    ASSUME NEW A, NEW s \in Seq(A), NEW t \in Seq(A)
    PROVE  /\ \A n \in 1 .. Len(s) : Cat(s, t)[n] = s[n]
           /\ \A n \in 1 .. Len(t) : Cat(s, t)[Len(s) + n] = t[n]
BY DEF Cat

LEMMA CatAssociates ==
    ASSUME NEW A, NEW s \in Seq(A), NEW t \in Seq(A), NEW u \in Seq(A)
    PROVE  Cat(Cat(s, t), u) = Cat(s, Cat(t, u))
BY DEF Cat

LEMMA JoinedCat ==
    ASSUME NEW pieces, Len(pieces) \in Nat, NEW n \in 1 .. Len(pieces)
    PROVE  JoinedTo(pieces)[n] = Cat(JoinedTo(pieces)[n - 1], pieces[n])
BY JoinedDef DEF Cat

\* how much is ahead of the n-th piece
Ahead(pieces, n) == Len(JoinedTo(pieces)[n - 1])

LEMMA JoinedSteps ==
    ASSUME NEW A, NEW pieces \in Seq(Seq(A))
    PROVE  /\ \A n \in 0 .. Len(pieces) : JoinedTo(pieces)[n] \in Seq(A)
           /\ Ahead(pieces, 1) = 0
           /\ \A n \in 1 .. Len(pieces) + 1 : Ahead(pieces, n) \in Nat
           /\ \A n \in 1 .. Len(pieces) : Ahead(pieces, n + 1) = Ahead(pieces, n) + Len(pieces[n])
<1> DEFINE N == Len(pieces)
           S == {n \in 0 .. N : JoinedTo(pieces)[n] \in Seq(A)}
<1>0. N \in Nat /\ \A n \in 1 .. N : pieces[n] \in Seq(A)
  OBVIOUS
<1>1. 0 \in S
  <2>1. JoinedTo(pieces)[0] = <<>>
    BY <1>0, JoinedDef
  <2>2. JoinedTo(pieces)[0] \in Seq(A)
    BY <2>1, EmptySeq
  <2> QED
    BY <1>0, <2>2
<1>2. ASSUME NEW n \in 0 .. N - 1, n \in S PROVE n + 1 \in S
  <2>1. n + 1 \in 1 .. N /\ (n + 1) - 1 = n /\ n + 1 \in 0 .. N
    BY <1>0
  <2>2. JoinedTo(pieces)[n + 1] = JoinedTo(pieces)[n] \o pieces[n + 1]
    BY <1>0, <2>1, JoinedDef
  <2>3. JoinedTo(pieces)[n] \in Seq(A) /\ pieces[n + 1] \in Seq(A)
    BY <1>0, <1>2, <2>1
  <2>4. JoinedTo(pieces)[n] \o pieces[n + 1] \in Seq(A)
    BY <2>3, ConcatProperties
  <2>5. JoinedTo(pieces)[n + 1] \in Seq(A)
    BY <2>2, <2>4, Zenon
  <2> QED
    BY <2>1, <2>5
<1>3. \A n \in 0 .. N : n \in S
  <2> HIDE DEF S, N
  <2> QED
    BY <1>0, <1>1, <1>2, Loop
<1>4. Ahead(pieces, 1) = 0
  <2>1. JoinedTo(pieces)[0] = <<>>
    BY <1>0, JoinedDef
  <2>2. Len(JoinedTo(pieces)[0]) = 0
    BY <2>1
  <2> QED
    BY <2>2 DEF Ahead
<1>5. \A n \in 1 .. N + 1 : Ahead(pieces, n) \in Nat
  <2> TAKE n \in 1 .. N + 1
  <2>1. n - 1 \in 0 .. N
    BY <1>0
  <2>2. JoinedTo(pieces)[n - 1] \in Seq(A)
    BY <1>3, <2>1
  <2> QED
    BY <2>2 DEF Ahead
<1>6. \A n \in 1 .. N : Ahead(pieces, n + 1) = Ahead(pieces, n) + Len(pieces[n])
  <2> TAKE n \in 1 .. N
  <2>1. n - 1 \in 0 .. N /\ (n + 1) - 1 = n
    BY <1>0
  <2>2. JoinedTo(pieces)[n] = JoinedTo(pieces)[n - 1] \o pieces[n]
    BY <1>0, JoinedDef
  <2>3. JoinedTo(pieces)[n - 1] \in Seq(A) /\ pieces[n] \in Seq(A)
    BY <1>0, <1>3, <2>1
  <2>4. Len(JoinedTo(pieces)[n]) = Len(JoinedTo(pieces)[n - 1]) + Len(pieces[n])
    BY <2>2, <2>3, ConcatProperties
  <2> QED
    BY <2>1, <2>4 DEF Ahead
<1> QED
  BY <1>3, <1>4, <1>5, <1>6

\* Every place of what is joined is one of a piece's, and every piece is there whole.
LEMMA JoinedFacts ==
    ASSUME NEW A, NEW pieces \in Seq(Seq(A))
    PROVE  /\ Joined(pieces) \in Seq(A)
           /\ Len(Joined(pieces)) = Ahead(pieces, Len(pieces) + 1)
           /\ \A n \in 1 .. Len(pieces) : \A k \in 1 .. Len(pieces[n]) :
                /\ Ahead(pieces, n) + k \in 1 .. Len(Joined(pieces))
                /\ Joined(pieces)[Ahead(pieces, n) + k] = pieces[n][k]
           /\ \A j \in 1 .. Len(Joined(pieces)) :
                \E n \in 1 .. Len(pieces) : \E k \in 1 .. Len(pieces[n]) : j = Ahead(pieces, n) + k
<1> DEFINE N == Len(pieces)
           out(n) == JoinedTo(pieces)[n]
           ahead(n) == Ahead(pieces, n)
           Good(m) ==
             /\ \A n \in 1 .. m : \A k \in 1 .. Len(pieces[n]) :
                  ahead(n) + k \in 1 .. Len(out(m)) /\ out(m)[ahead(n) + k] = pieces[n][k]
             /\ \A j \in 1 .. Len(out(m)) :
                  \E n \in 1 .. m : \E k \in 1 .. Len(pieces[n]) : j = ahead(n) + k
           S == {m \in 0 .. N : Good(m)}
<1>0. N \in Nat /\ \A n \in 1 .. N : pieces[n] \in Seq(A) /\ Len(pieces[n]) \in Nat
  OBVIOUS
<1>1. 0 \in S
  <2>1. out(0) = <<>> /\ Len(<<>>) = 0
    BY <1>0, JoinedDef
  <2> QED
    BY <1>0, <2>1
<1>2. ASSUME NEW m \in 0 .. N - 1, m \in S PROVE m + 1 \in S
  <2>1. m + 1 \in 1 .. N /\ (m + 1) - 1 = m /\ m \in 0 .. N
    BY <1>0
  <2>2. out(m + 1) = out(m) \o pieces[m + 1]
    BY <1>0, <2>1, JoinedDef
  <2>3. out(m) \in Seq(A) /\ pieces[m + 1] \in Seq(A)
    BY <1>0, <2>1, JoinedSteps
  <2>4. ahead(m + 1) = Len(out(m))
    BY <2>1 DEF Ahead
  <2>5. \A n \in 1 .. m + 1 : ahead(n) \in Nat
    <3>1. \A n \in 1 .. m + 1 : n \in 1 .. Len(pieces) + 1
      BY <1>0, <2>1
    <3> QED
      BY <3>1, JoinedSteps
  <2>6. Good(m)
    BY <1>2
  <2> HIDE DEF out, ahead
  <2> DEFINE L == Len(out(m))
             P == Len(pieces[m + 1])
  <2>7. /\ Len(out(m + 1)) = L + P /\ L \in Nat /\ P \in Nat
        /\ \A i \in 1 .. L : out(m + 1)[i] = out(m)[i]
        /\ \A i \in 1 .. P : out(m + 1)[L + i] = pieces[m + 1][i]
    <3>1. L \in Nat /\ P \in Nat
      BY <2>3
    <3>2. /\ Len(out(m + 1)) = L + P
          /\ \A i \in 1 .. L + P :
                out(m + 1)[i] = IF i <= L THEN out(m)[i] ELSE pieces[m + 1][i - L]
      BY <2>2, <2>3, ConcatProperties
    <3> HIDE DEF L, P
    <3>3. \A i \in 1 .. P : L + i \in 1 .. L + P /\ ~(L + i <= L) /\ (L + i) - L = i
      BY <3>1
    <3>4. \A i \in 1 .. L : i \in 1 .. L + P /\ i <= L
      BY <3>1
    <3> QED
      BY <3>1, <3>2, <3>3, <3>4
  <2> HIDE DEF L
  <2>8. ASSUME NEW n \in 1 .. m + 1, NEW k \in 1 .. Len(pieces[n])
        PROVE  ahead(n) + k \in 1 .. Len(out(m + 1)) /\ out(m + 1)[ahead(n) + k] = pieces[n][k]
    <3>1. CASE n = m + 1
      <4>1. ahead(n) = L /\ k \in 1 .. P
        BY <2>4, <3>1 DEF L
      <4>2. L + k \in 1 .. L + P
        BY <2>7, <4>1
      <4> QED
        BY <2>7, <3>1, <4>1, <4>2
    <3>2. CASE n \in 1 .. m
      <4>1. ahead(n) + k \in 1 .. L /\ out(m)[ahead(n) + k] = pieces[n][k]
        BY <2>6, <3>2 DEF L
      <4> QED
        BY <2>7, <4>1
    <3> QED
      BY <1>0, <3>1, <3>2
  <2>9. ASSUME NEW j \in 1 .. Len(out(m + 1))
        PROVE  \E n \in 1 .. m + 1 : \E k \in 1 .. Len(pieces[n]) : j = ahead(n) + k
    <3>1. CASE j <= L
      <4>1. PICK n \in 1 .. m : \E k \in 1 .. Len(pieces[n]) : j = ahead(n) + k
        BY <2>6, <2>7, <3>1 DEF L
      <4>2. n \in 1 .. m + 1
        BY <2>1
      <4> QED
        BY <4>1, <4>2
    <3>2. CASE ~(j <= L)
      <4>1. j - L \in 1 .. P /\ j = L + (j - L)
        BY <2>7, <3>2
      <4>2. m + 1 \in 1 .. m + 1
        BY <2>1
      <4>3. j = ahead(m + 1) + (j - L)
        BY <2>4, <4>1 DEF L
      <4> QED
        BY <4>1, <4>2, <4>3
    <3> QED
      BY <3>1, <3>2
  <2>10. Good(m + 1)
    BY <2>8, <2>9
  <2> HIDE DEF Good
  <2> QED
    BY <1>0, <2>1, <2>10
<1>3. N \in S
  <2>1. \A m \in 0 .. N : m \in S
    <3> HIDE DEF S, N
    <3> QED
      BY <1>0, <1>1, <1>2, Loop
  <2> HIDE DEF S
  <2> QED
    BY <1>0, <2>1
<1>4. Good(N)
  BY <1>3
<1>5. out(N) = Joined(pieces) /\ out(N) \in Seq(A)
  <2>1. N \in 0 .. Len(pieces)
    BY <1>0
  <2> QED
    BY <2>1, JoinedSteps DEF Joined
<1>6. Len(Joined(pieces)) = Ahead(pieces, N + 1)
  <2>1. (N + 1) - 1 = N
    BY <1>0
  <2> QED
    BY <2>1 DEF Ahead, Joined
<1> HIDE DEF out
<1> QED
  BY <1>4, <1>5, <1>6

\* What comes first is joined first.
LEMMA JoinedApart ==
    ASSUME NEW A, NEW first \in Seq(Seq(A)), NEW last \in Seq(Seq(A))
    PROVE  /\ Joined(first \o last) = Cat(Joined(first), Joined(last))
           /\ JoinedTo(first \o last)[Len(first)] = Joined(first)
<1> DEFINE F == Len(first)
           L == Len(last)
           both == first \o last
           S == {n \in 0 .. F : JoinedTo(both)[n] = JoinedTo(first)[n]}
           T == {n \in 0 .. L : JoinedTo(both)[F + n] = Cat(Joined(first), JoinedTo(last)[n])}
<1>0. F \in Nat /\ L \in Nat
  OBVIOUS
<1>1. /\ both \in Seq(Seq(A)) /\ Len(both) = F + L
      /\ \A n \in 1 .. F : both[n] = first[n]
      /\ \A n \in 1 .. L : both[F + n] = last[n]
  <2>1. /\ both \in Seq(Seq(A)) /\ Len(both) = F + L
        /\ \A n \in 1 .. F + L : both[n] = IF n <= F THEN first[n] ELSE last[n - F]
    BY ConcatProperties
  <2> HIDE DEF both, F, L
  <2>2. \A n \in 1 .. L : F + n \in 1 .. F + L /\ ~(F + n <= F) /\ (F + n) - F = n
    BY <1>0
  <2>3. \A n \in 1 .. F : n \in 1 .. F + L /\ n <= F
    BY <1>0
  <2> QED
    BY <2>1, <2>2, <2>3
<1> HIDE DEF both
<1>2. \A n \in 0 .. F : n \in S
  <2>1. 0 \in S
    <3>1. JoinedTo(both)[0] = <<>> /\ JoinedTo(first)[0] = <<>>
      <4>1. Len(both) \in Nat /\ Len(first) \in Nat
        BY <1>0, <1>1
      <4> QED
        BY <4>1, JoinedDef
    <3> QED
      BY <1>0, <3>1
  <2>2. ASSUME NEW n \in 0 .. F - 1, n \in S PROVE n + 1 \in S
    <3>1. n + 1 \in 1 .. F /\ (n + 1) - 1 = n /\ n + 1 \in 1 .. F + L
      BY <1>0
    <3>2. JoinedTo(first)[n + 1] = Cat(JoinedTo(first)[n], first[n + 1])
      BY <1>0, <3>1, JoinedCat
    <3>3. JoinedTo(both)[n + 1] = Cat(JoinedTo(both)[n], both[n + 1])
      <4>1. Len(both) \in Nat /\ n + 1 \in 1 .. Len(both)
        BY <1>0, <1>1, <3>1
      <4> QED
        BY <3>1, <4>1, JoinedCat
    <3>4. JoinedTo(both)[n] = JoinedTo(first)[n] /\ both[n + 1] = first[n + 1]
      BY <1>1, <2>2, <3>1
    <3>5. JoinedTo(both)[n + 1] = JoinedTo(first)[n + 1]
      BY <3>2, <3>3, <3>4
    <3>6. n + 1 \in 0 .. F
      BY <1>0
    <3> QED
      BY <3>5, <3>6
  <2> HIDE DEF S, F
  <2> QED
    BY <1>0, <2>1, <2>2, Loop
<1>3. \A n \in 0 .. L : JoinedTo(last)[n] \in Seq(A)
  BY JoinedSteps
<1>4. Joined(first) \in Seq(A) /\ JoinedTo(both)[F] = Joined(first)
  <2>1. F \in S
    <3> HIDE DEF S, F
    <3> QED
      BY <1>0, <1>2
  <2> QED
    BY <2>1, JoinedFacts DEF Joined
<1>5. \A n \in 0 .. L : n \in T
  <2>1. 0 \in T
    <3>0. F + 0 = F
      BY <1>0
    <3>1. JoinedTo(last)[0] = <<>>
      BY <1>0, JoinedDef
    <3>2. Cat(Joined(first), <<>>) = Joined(first)
      BY <1>4, EmptySeq, CatFacts
    <3>3. JoinedTo(both)[F + 0] = Cat(Joined(first), JoinedTo(last)[0])
      BY <1>4, <3>0, <3>1, <3>2
    <3> QED
      BY <1>0, <3>3
  <2>2. ASSUME NEW n \in 0 .. L - 1, n \in T PROVE n + 1 \in T
    <3>1. /\ n + 1 \in 1 .. L /\ (n + 1) - 1 = n /\ F + (n + 1) \in 1 .. F + L /\ n \in 0 .. L
          /\ (F + (n + 1)) - 1 = F + n
      BY <1>0
    <3>2. JoinedTo(last)[n + 1] = Cat(JoinedTo(last)[n], last[n + 1])
      BY <1>0, <3>1, JoinedCat
    <3>3. JoinedTo(both)[F + (n + 1)] = Cat(JoinedTo(both)[F + n], both[F + (n + 1)])
      <4>1. Len(both) \in Nat /\ F + (n + 1) \in 1 .. Len(both)
        BY <1>0, <1>1, <3>1
      <4> QED
        BY <3>1, <4>1, JoinedCat
    <3>4. both[F + (n + 1)] = last[n + 1]
      BY <1>1, <3>1
    <3>5. JoinedTo(both)[F + n] = Cat(Joined(first), JoinedTo(last)[n])
      BY <2>2
    <3>6. JoinedTo(last)[n] \in Seq(A) /\ last[n + 1] \in Seq(A)
      BY <1>3, <3>1
    <3>7. Cat(Cat(Joined(first), JoinedTo(last)[n]), last[n + 1])
            = Cat(Joined(first), Cat(JoinedTo(last)[n], last[n + 1]))
      BY <1>4, <3>6, CatAssociates
    <3>8. JoinedTo(both)[F + (n + 1)] = Cat(Joined(first), JoinedTo(last)[n + 1])
      BY <3>2, <3>3, <3>4, <3>5, <3>7
    <3>9. n + 1 \in 0 .. L
      BY <1>0
    <3> QED
      BY <3>8, <3>9
  <2> HIDE DEF T, L
  <2> QED
    BY <1>0, <2>1, <2>2, Loop
<1>6. L \in T
  <2> HIDE DEF T, L
  <2> QED
    BY <1>0, <1>5
<1>7. JoinedTo(both)[Len(both)] = Cat(Joined(first), JoinedTo(last)[L])
  BY <1>1, <1>6
<1>8. Joined(both) = Cat(Joined(first), Joined(last))
  BY <1>7 DEF Joined
<1> QED
  BY <1>4, <1>8 DEF both

LEMMA JoinedConcat ==
    ASSUME NEW A, NEW first \in Seq(Seq(A)), NEW last \in Seq(Seq(A))
    PROVE  Joined(first \o last) = Cat(Joined(first), Joined(last))
BY JoinedApart

\* what the elements that aren't left out are, each as a sequence
Kept(s, out) == [n \in DOMAIN s |-> IF s[n] \in out THEN <<>> ELSE <<s[n]>>]

LEMMA KeptSeq ==
    ASSUME NEW A, NEW s \in Seq(A), NEW out
    PROVE  Kept(s, out) \in Seq(Seq(A)) /\ Len(Kept(s, out)) = Len(s)
<1>1. DOMAIN s = 1 .. Len(s) /\ Len(s) \in Nat /\ \A n \in 1 .. Len(s) : s[n] \in A
  OBVIOUS
<1>2. \A n \in 1 .. Len(s) : (IF s[n] \in out THEN <<>> ELSE <<s[n]>>) \in Seq(A)
  BY <1>1
<1>3. Kept(s, out) \in [1 .. Len(s) -> Seq(A)]
  BY <1>1, <1>2 DEF Kept
<1> QED
  BY <1>1, <1>3

LEMMA WithoutCat ==
    ASSUME NEW A, NEW s \in Seq(A), NEW t \in Seq(A), NEW out
    PROVE  /\ Without(Cat(s, t), out) = Cat(Without(s, out), Without(t, out))
           /\ Without(s, out) \in Seq(A)
<1> DEFINE both == Cat(s, t)
           k == Kept(both, out)
           l == Kept(s, out) \o Kept(t, out)
           S == Len(s)
           T == Len(t)
<1>1. both \in Seq(A) /\ Len(both) = S + T /\ S \in Nat /\ T \in Nat
  <2>1. S \in Nat /\ T \in Nat
    OBVIOUS
  <2> QED
    BY <2>1, CatFacts
<1>2. \A n \in 1 .. S + T : both[n] = IF n <= S THEN s[n] ELSE t[n - S]
  BY ConcatProperties DEF Cat
<1> HIDE DEF both, S, T
<1>3. k \in Seq(Seq(A)) /\ Len(k) = S + T
  BY <1>1, KeptSeq
<1>4. /\ Kept(s, out) \in Seq(Seq(A)) /\ Len(Kept(s, out)) = S
      /\ Kept(t, out) \in Seq(Seq(A)) /\ Len(Kept(t, out)) = T
  BY KeptSeq DEF S, T
<1>5. /\ l \in Seq(Seq(A)) /\ Len(l) = S + T
      /\ \A n \in 1 .. S + T : l[n] = IF n <= S THEN Kept(s, out)[n] ELSE Kept(t, out)[n - S]
  BY <1>4, ConcatProperties
<1>6. ASSUME NEW n \in 1 .. S + T PROVE k[n] = l[n]
  <2>1. k[n] = IF both[n] \in out THEN <<>> ELSE <<both[n]>>
    BY <1>1 DEF Kept
  <2>2. CASE n <= S
    <3>1. n \in DOMAIN s
      BY <1>1, <2>2 DEF S
    <3> QED
      BY <1>2, <1>5, <2>1, <2>2, <3>1 DEF Kept
  <2>3. CASE ~(n <= S)
    <3>1. n - S \in DOMAIN t
      BY <1>1, <2>3 DEF T
    <3> QED
      BY <1>2, <1>5, <2>1, <2>3, <3>1 DEF Kept
  <2> QED
    BY <2>2, <2>3
<1> HIDE DEF k, l
<1>7. k = l
  BY <1>3, <1>5, <1>6, SeqEqual
<1>8. Joined(k) = Cat(Joined(Kept(s, out)), Joined(Kept(t, out)))
  BY <1>4, <1>7, JoinedConcat DEF l
<1>9. Joined(Kept(s, out)) \in Seq(A)
  BY <1>4, JoinedFacts
<1> QED
  BY <1>8, <1>9 DEF Without, Kept, k, both

LEMMA JoinedOne ==
    ASSUME NEW A, NEW s \in Seq(A)
    PROVE  Joined(<<s>>) = s /\ Joined(<<>>) = <<>>
<1>1. /\ Len(<<s>>) = 1 /\ Len(<<>>) = 0 /\ 1 \in 1 .. 1 /\ 1 - 1 = 0 /\ <<s>>[1] = s
      /\ 1 \in Nat /\ 0 \in Nat
  OBVIOUS
<1>2. JoinedTo(<<s>>)[0] = <<>> /\ JoinedTo(<<>>)[0] = <<>>
  BY <1>1, JoinedDef
<1>3. JoinedTo(<<s>>)[1] = Cat(<<>>, s)
  BY <1>1, <1>2, JoinedCat
<1>4. Cat(<<>>, s) = s
  BY CatFacts
<1> QED
  BY <1>1, <1>2, <1>3, <1>4 DEF Joined

LEMMA WithoutOne ==
    ASSUME NEW r, NEW out
    PROVE  Without(<<r>>, out) = (IF r \in out THEN <<>> ELSE <<r>>) /\ Without(<<>>, out) = <<>>
<1>1. Kept(<<>>, out) = <<>>
  BY DEF Kept
<1> DEFINE one == IF r \in out THEN <<>> ELSE <<r>>
<1>2. Kept(<<r>>, out) = <<one>>
  BY DEF Kept
<1>3. one \in Seq({r})
  <2>1. <<>> \in Seq({r}) /\ <<r>> \in Seq({r})
    OBVIOUS
  <2> QED
    BY <2>1
<1> HIDE DEF one
<1>4. Joined(<<one>>) = one /\ Joined(<<>>) = <<>>
  BY <1>3, JoinedOne
<1> QED
  BY <1>1, <1>2, <1>4 DEF Without, Kept, one

\* Leaving something out of what is joined leaves it out of each of the pieces.
LEMMA WithoutJoinedTo ==
    ASSUME NEW A, NEW pieces \in Seq(Seq(A)), NEW out
    PROVE  \A n \in 0 .. Len(pieces) :
             Without(JoinedTo(pieces)[n], out)
               = JoinedTo([m \in DOMAIN pieces |-> Without(pieces[m], out)])[n]
<1> DEFINE N == Len(pieces)
           less == [m \in DOMAIN pieces |-> Without(pieces[m], out)]
           S == {n \in 0 .. N : Without(JoinedTo(pieces)[n], out) = JoinedTo(less)[n]}
<1>0. N \in Nat /\ DOMAIN pieces = 1 .. N /\ \A n \in 1 .. N : pieces[n] \in Seq(A)
  OBVIOUS
<1>1. /\ less \in Seq(Seq(A)) /\ Len(less) = N
      /\ \A n \in 1 .. N : less[n] = Without(pieces[n], out)
  <2>1. \A n \in 1 .. N : Without(pieces[n], out) \in Seq(A)
    BY <1>0, WithoutCat
  <2>2. less \in [1 .. N -> Seq(A)]
    BY <1>0, <2>1
  <2>3. \A n \in 1 .. N : less[n] = Without(pieces[n], out)
    BY <1>0
  <2> HIDE DEF less, N
  <2> QED
    BY <1>0, <2>2, <2>3
<1> HIDE DEF less
<1>2. 0 \in S
  <2>1. JoinedTo(pieces)[0] = <<>>
    BY <1>0, JoinedDef
  <2>2. JoinedTo(less)[0] = <<>>
    BY <1>0, <1>1, JoinedDef
  <2>3. Without(<<>>, out) = <<>>
    BY WithoutOne
  <2> QED
    BY <1>0, <2>1, <2>2, <2>3
<1>3. ASSUME NEW n \in 0 .. N - 1, n \in S PROVE n + 1 \in S
  <2>1. n + 1 \in 1 .. N /\ (n + 1) - 1 = n /\ n + 1 \in 0 .. N /\ n \in 0 .. N
    BY <1>0
  <2>2. JoinedTo(pieces)[n + 1] = Cat(JoinedTo(pieces)[n], pieces[n + 1])
    BY <1>0, <2>1, JoinedCat
  <2>3. JoinedTo(less)[n + 1] = Cat(JoinedTo(less)[n], less[n + 1])
    <3>1. Len(less) \in Nat /\ n + 1 \in 1 .. Len(less)
      BY <1>0, <1>1, <2>1
    <3> QED
      BY <2>1, <3>1, JoinedCat
  <2>4. JoinedTo(pieces)[n] \in Seq(A) /\ pieces[n + 1] \in Seq(A)
    BY <1>0, <2>1, JoinedSteps
  <2>5. Without(Cat(JoinedTo(pieces)[n], pieces[n + 1]), out)
          = Cat(Without(JoinedTo(pieces)[n], out), Without(pieces[n + 1], out))
    BY <2>4, WithoutCat
  <2>6. Without(JoinedTo(pieces)[n], out) = JoinedTo(less)[n]
    BY <1>3
  <2>7. less[n + 1] = Without(pieces[n + 1], out)
    BY <1>1, <2>1
  <2>8. Without(JoinedTo(pieces)[n + 1], out) = JoinedTo(less)[n + 1]
    BY <2>2, <2>3, <2>5, <2>6, <2>7
  <2> QED
    BY <2>1, <2>8
<1>4. \A n \in 0 .. N : n \in S
  <2> HIDE DEF S, N
  <2> QED
    BY <1>0, <1>2, <1>3, Loop
<1> QED
  BY <1>4 DEF less

LEMMA WithoutJoined ==
    ASSUME NEW A, NEW pieces \in Seq(Seq(A)), NEW out
    PROVE  Without(Joined(pieces), out) = Joined([m \in DOMAIN pieces |-> Without(pieces[m], out)])
<1> DEFINE less == [m \in DOMAIN pieces |-> Without(pieces[m], out)]
<1>1. DOMAIN pieces = 1 .. Len(pieces) /\ Len(pieces) \in Nat
  OBVIOUS
<1>2. Len(less) = Len(pieces) /\ Len(pieces) \in 0 .. Len(pieces)
  BY <1>1
<1>3. \A n \in 0 .. Len(pieces) : Without(JoinedTo(pieces)[n], out) = JoinedTo(less)[n]
  BY WithoutJoinedTo
<1> HIDE DEF less
<1>4. Without(Joined(pieces), out) = Joined(less)
  BY <1>2, <1>3 DEF Joined
<1> QED
  BY <1>4 DEF less

LEMMA WithoutPieces ==
    ASSUME NEW A, NEW s \in Seq(A), NEW B, NEW pieces \in Seq(Seq(B)), NEW out, DOMAIN pieces = DOMAIN s,
           \A m \in DOMAIN s : Without(pieces[m], out) = IF s[m] \in out THEN <<>> ELSE <<s[m]>>
    PROVE  Without(Joined(pieces), out) = Without(s, out)
<1> DEFINE less == [m \in DOMAIN pieces |-> Without(pieces[m], out)]
<1>3. less = Kept(s, out)
  BY DEF Kept
<1>4. Without(Joined(pieces), out) = Joined(less)
  BY WithoutJoined
<1> HIDE DEF less
<1> QED
  BY <1>3, <1>4 DEF Without, Kept

\* What is joined of a sequence's elements is the sequence.
LEMMA JoinedSingles ==
    ASSUME NEW A, NEW s \in Seq(A)
    PROVE  /\ \A n \in 0 .. Len(s) : JoinedTo([m \in DOMAIN s |-> <<s[m]>>])[n] = SubSeq(s, 1, n)
           /\ Joined([m \in DOMAIN s |-> <<s[m]>>]) = s
<1> DEFINE N == Len(s)
           ones == [m \in DOMAIN s |-> <<s[m]>>]
           S == {n \in 0 .. N : JoinedTo(ones)[n] = SubSeq(s, 1, n)}
<1>0. N \in Nat /\ DOMAIN s = 1 .. N /\ \A n \in 1 .. N : s[n] \in A
  OBVIOUS
<1>1. /\ ones \in Seq(Seq(A)) /\ Len(ones) = N
      /\ \A n \in 1 .. N : ones[n] = <<s[n]>>
  <2>1. \A n \in 1 .. N : <<s[n]>> \in Seq(A)
    BY <1>0
  <2>2. ones \in [1 .. N -> Seq(A)]
    BY <1>0, <2>1
  <2>3. \A n \in 1 .. N : ones[n] = <<s[n]>>
    BY <1>0
  <2> HIDE DEF ones, N
  <2> QED
    BY <1>0, <2>2, <2>3
<1> HIDE DEF ones
<1>2. 0 \in S
  <2>1. JoinedTo(ones)[0] = <<>>
    BY <1>0, <1>1, JoinedDef
  <2>2. SubSeq(s, 1, 0) = <<>>
    BY <1>0
  <2>3. JoinedTo(ones)[0] = SubSeq(s, 1, 0)
    BY <2>1, <2>2
  <2>4. 0 \in 0 .. N
    BY <1>0
  <2> QED
    BY <2>3, <2>4
<1>3. ASSUME NEW n \in 0 .. N - 1, n \in S PROVE n + 1 \in S
  <2>1. n + 1 \in 1 .. N /\ (n + 1) - 1 = n /\ n + 1 \in 0 .. N /\ n \in 0 .. N
    BY <1>0
  <2>2. JoinedTo(ones)[n + 1] = Cat(JoinedTo(ones)[n], ones[n + 1])
    <3>1. Len(ones) \in Nat /\ n + 1 \in 1 .. Len(ones)
      BY <1>0, <1>1, <2>1
    <3> QED
      BY <2>1, <3>1, JoinedCat
  <2>3. JoinedTo(ones)[n] = SubSeq(s, 1, n) /\ ones[n + 1] = <<s[n + 1]>>
    BY <1>1, <1>3, <2>1
  <2>4. Cat(SubSeq(s, 1, n), <<s[n + 1]>>) = SubSeq(s, 1, n + 1)
    BY <1>0, <2>1 DEF Cat
  <2>5. JoinedTo(ones)[n + 1] = SubSeq(s, 1, n + 1)
    BY <2>2, <2>3, <2>4
  <2> QED
    BY <2>1, <2>5
<1>4. \A n \in 0 .. N : n \in S
  <2> HIDE DEF S, N
  <2> QED
    BY <1>0, <1>2, <1>3, Loop
<1>5. JoinedTo(ones)[N] = SubSeq(s, 1, N)
  <2>1. N \in S
    <3> HIDE DEF S, N
    <3> QED
      BY <1>0, <1>4
  <2> QED
    BY <2>1
<1>6. SubSeq(s, 1, N) = s
  BY <1>0
<1>7. Joined(ones) = s
  BY <1>1, <1>5, <1>6 DEF Joined
<1> QED
  BY <1>4, <1>7 DEF ones

\* Leaving out what isn't there changes nothing, and what is all there is leaves nothing.
LEMMA WithoutNone ==
    ASSUME NEW A, NEW s \in Seq(A), NEW out, \A n \in DOMAIN s : s[n] \notin out
    PROVE  Without(s, out) = s
<1>1. Kept(s, out) = [m \in DOMAIN s |-> <<s[m]>>]
  BY DEF Kept
<1> QED
  BY <1>1, JoinedSingles DEF Without, Kept

-----------------------------------------------------------------------------
\* Where an excerpt is cut.

\* What ends with something else than a space is left as it is.
LEMMA TrimmedAlready ==
    ASSUME NEW A, NEW s \in Seq(A), s # <<>>, s[Len(s)] # Space
    PROVE  TrimRight(s) = s
<1> DEFINE N == Len(s)
           S == {0} \cup {n \in DOMAIN s : s[n] # Space}
<1>1. N \in Nat /\ DOMAIN s = 1 .. N /\ N # 0
  OBVIOUS
<1>2. S \in SUBSET (0 .. N) /\ N \in S
  BY <1>1
<1>3. SubSeq(s, 1, N) = s
  BY <1>1
<1> HIDE DEF S, N
<1>4. Max(S) \in S /\ \A n \in S : n <= Max(S)
  BY <1>1, <1>2, MaxFacts
<1>5. Max(S) \in 0 .. N /\ N <= Max(S)
  BY <1>2, <1>4
<1>6. Max(S) = N
  BY <1>1, <1>5
<1> QED
  BY <1>3, <1>6 DEF TrimRight, S, N

LEMMA ExcerptFacts ==
    ASSUME NEW A, NEW t \in Seq(A), Plain(t), NEW len \in Nat, len > 2, Len(t) > len
    PROVE  \E cut \in 1 .. len :
             /\ Excerpt(t, len) = Append(SubSeq(t, 1, cut), Ellipsis)
             /\ IF \E s \in Spaces(t) : len \div 2 < s /\ s < len
                THEN cut > len \div 2 /\ t[cut + 1] = Space
                ELSE cut = len
<1> DEFINE half == len \div 2
           spaces == {s \in Spaces(t) : half < s /\ s < len}
           cut == Cut(t, len)
           head == SubSeq(t, 1, cut)
<1>1. half \in Nat /\ half < len - 1 /\ Len(t) \in Nat /\ DOMAIN t = 1 .. Len(t)
  OBVIOUS
<1> HIDE DEF half
<1>2. /\ cut \in 1 .. len /\ t[cut] # Space
      /\ IF spaces # {} THEN cut > half /\ t[cut + 1] = Space ELSE cut = len
  <2>1. CASE spaces = {}
    <3>1. cut = len
      BY <2>1 DEF Cut, half
    <3>2. len - 1 \in 0 .. Len(t) - 1 /\ half < len - 1 /\ len - 1 < len /\ (len - 1) + 1 = len
      BY <1>1
    <3>3. len - 1 \notin Spaces(t)
      BY <2>1, <3>2
    <3>4. t[len] # Space
      BY <3>2, <3>3 DEF Spaces
    <3> HIDE DEF cut
    <3> QED
      BY <2>1, <3>1, <3>4
  <2>2. CASE spaces # {}
    <3>1. cut = Max(spaces)
      BY <2>2 DEF Cut, half
    <3>2. spaces \in SUBSET (0 .. len)
      BY <1>1 DEF Spaces
    <3>3. cut \in spaces
      <4> HIDE DEF spaces, cut
      <4> QED
        BY <2>2, <3>1, <3>2, MaxFacts
    <3>4. cut \in Spaces(t) /\ half < cut /\ cut < len
      BY <3>3
    <3> HIDE DEF cut
    <3>5. cut \in 1 .. Len(t) - 1 /\ t[cut + 1] = Space
      BY <1>1, <3>4 DEF Spaces
    <3>6. t[cut] # Space
      <4>1. cut \in DOMAIN t
        BY <1>1, <3>5
      <4> QED
        BY <3>5, <4>1 DEF Plain
    <3> QED
      BY <1>1, <2>2, <3>4, <3>5, <3>6
  <2> QED
    BY <2>1, <2>2
<1> HIDE DEF cut
<1>3. /\ head \in Seq(A) /\ head # <<>> /\ head[Len(head)] # Space
  <2>1. cut \in 1 .. Len(t)
    BY <1>1, <1>2
  <2>2. head \in Seq(A) /\ Len(head) = cut /\ head[cut] = t[cut]
    BY <2>1
  <2> QED
    BY <1>2, <2>1, <2>2
<1>4. TrimRight(head) = head
  <2> HIDE DEF head
  <2> QED
    BY <1>3, TrimmedAlready
<1>5. Excerpt(t, len) = Append(head, Ellipsis)
  <2>1. ~(Len(t) <= len)
    BY <1>1
  <2>2. Excerpt(t, len) = Append(TrimRight(head), Ellipsis)
    BY <2>1 DEF Excerpt, cut
  <2> QED
    BY <1>4, <2>2
<1>6. (\E s \in Spaces(t) : len \div 2 < s /\ s < len) <=> spaces # {}
  BY DEF half
<1> HIDE DEF spaces
<1> QED
  BY <1>2, <1>5, <1>6 DEF half

-----------------------------------------------------------------------------
\* What is asked for is any text that PlainText leaves, and what there is of it is
\* made of it.
Asked ==
    /\ text \in Seq(Runes) /\ Plain(text)
    /\ terms \in Queries /\ length \in Lengths

MadeOf ==
    /\ snippet \in {NotYet, MakeSnippet(text, terms, length)}
    /\ excerpt \in {NotYet, Excerpt(text, length)}

IInv == Asked /\ MadeOf

LEMMA Invariance == Spec => []IInv
<1>1. Init => IInv
  <2> SUFFICES ASSUME Init PROVE IInv
    OBVIOUS
  <2>1. text \in Texts /\ Plain(text)
    BY DEF Init
  <2>2. text \in Seq(Runes)
    BY <2>1, TextsAssumption
  <2> QED
    BY <2>1, <2>2 DEF Init, IInv, Asked, MadeOf
<1>2. IInv /\ [Next]_vars => IInv'
  BY DEF IInv, Asked, MadeOf, Next, ShowResult, ListArticle, vars
<1> QED
  BY <1>1, <1>2, PTL DEF Spec

\* An excerpt is cut where the last word ends that begins past halfway, and if there
\* is none as late as can be, for any text and any length.
THEOREM ExcerptCutHolds == Spec => []ExcerptCut
<1>1. IInv => ExcerptCut
  <2> SUFFICES ASSUME IInv, excerpt # NotYet, excerpt # text PROVE ExcerptCut
    BY DEF ExcerptCut
  <2>1. excerpt = Excerpt(text, length) /\ text \in Seq(Runes) /\ Plain(text) /\ length \in Nat /\ length > 2
    BY LengthsAssumption DEF IInv, Asked, MadeOf
  <2>2. Len(text) \in Nat /\ Len(text) > length
    BY <2>1 DEF Excerpt
  <2>3. PICK cut \in 1 .. length :
          /\ excerpt = Append(SubSeq(text, 1, cut), Ellipsis)
          /\ IF \E s \in Spaces(text) : length \div 2 < s /\ s < length
             THEN cut > length \div 2 /\ text[cut + 1] = Space
             ELSE cut = length
    BY <2>1, <2>2, ExcerptFacts
  <2>4. Len(excerpt) - 1 = cut
    BY <2>1, <2>2, <2>3
  <2> QED
    BY <2>1, <2>2, <2>3, <2>4 DEF ExcerptCut
<1> QED
  BY <1>1, Invariance, PTL

-----------------------------------------------------------------------------
\* The window of a text.

\* Where a window starts: at a word, and as late as that can be, where there is one.
LEMMA StartFacts ==
    ASSUME NEW A, NEW t \in Seq(A), NEW ts, NEW len \in Nat
    PROVE  /\ Start(t, ts, len) \in 0 .. Len(t)
           /\ Start(t, ts, len) > 0 =>
                t[Start(t, ts, len)] = Space \/ \A s \in Spaces(t) : s >= Start(t, ts, len)
           /\ Hits(t, ts) # {} =>
                /\ Min(Hits(t, ts)) \in Hits(t, ts)
                /\ \A h \in Hits(t, ts) : Min(Hits(t, ts)) <= h
                /\ Start(t, ts, len) <= Min(Hits(t, ts))
                /\ \A s \in Spaces(t) :
                     s < Min(Hits(t, ts)) - len \div 4 => s + 1 <= Start(t, ts, len)
                /\ (\A s \in Spaces(t) : s >= Min(Hits(t, ts)) - len \div 4)
                     => Min(Hits(t, ts)) - len \div 4 <= Start(t, ts, len)
<1> DEFINE start == Start(t, ts, len)
           first == Min(Hits(t, ts))
           quarter == len \div 4
           lead == Max({0, first - quarter})
           before == {s \in Spaces(t) : s < lead}
<1>1. Len(t) \in Nat /\ quarter \in Nat
  OBVIOUS
<1>2. CASE Hits(t, ts) = {}
  <2>1. start = 0
    BY <1>2 DEF Start
  <2> HIDE DEF start
  <2> QED
    BY <1>1, <1>2, <2>1 DEF start
<1>3. CASE Hits(t, ts) # {}
  <2> HIDE DEF quarter
  <2>1. Hits(t, ts) \in SUBSET (0 .. Len(t))
    BY DEF Hits
  <2>2. Hits(t, ts) \in SUBSET Nat
    BY <1>1, <2>1
  <2>3. first \in Hits(t, ts) /\ \A h \in Hits(t, ts) : first <= h
    BY <1>3, <2>2, MinFacts
  <2>4. first \in 0 .. Len(t)
    BY <2>1, <2>3
  <2> HIDE DEF first
  <2>5. lead = IF first - quarter > 0 THEN first - quarter ELSE 0
    BY <1>1, <2>4, MaxOfTwo
  <2> HIDE DEF lead
  <2>6. lead \in 0 .. Len(t) /\ lead <= first
    BY <1>1, <2>4, <2>5
  <2>7. start = IF before = {} THEN lead ELSE Max(before) + 1
    BY <1>3 DEF Start, Lead, first, quarter, lead
  <2> HIDE DEF start
  <2>8. before \in SUBSET (0 .. Len(t)) /\ \A s \in before : s + 1 <= lead /\ t[s + 1] = Space
    BY <1>1, <2>6 DEF Spaces
  <2>9. \A s \in Spaces(t) : s \in Nat
    BY <1>1 DEF Spaces
  <2>10. CASE before = {}
    <3>1. start = lead
      BY <2>7, <2>10
    <3>2. \A s \in Spaces(t) : ~(s < lead)
      BY <2>10
    <3>3. \A s \in Spaces(t) : s >= lead
      BY <2>6, <2>9, <3>2
    <3>4. \A s \in Spaces(t) : ~(s < first - quarter)
      BY <1>1, <2>4, <2>5, <2>6, <2>9, <3>3
    <3>5. first - quarter <= start
      BY <1>1, <2>4, <2>5, <3>1
    <3> QED
      BY <1>1, <1>3, <2>3, <2>6, <3>1, <3>3, <3>4, <3>5 DEF start, first, quarter
  <2>11. CASE before # {}
    <3> HIDE DEF before
    <3>1. Max(before) \in before /\ \A s \in before : s <= Max(before)
      BY <1>1, <2>8, <2>11, MaxFacts
    <3>2. start = Max(before) + 1 /\ Max(before) \in 0 .. Len(t)
      BY <2>7, <2>8, <2>11, <3>1
    <3>3. start \in 1 .. Len(t) /\ start <= lead /\ t[start] = Space
      BY <1>1, <2>6, <2>8, <3>1, <3>2
    <3>4. \A s \in Spaces(t) : s < first - quarter => s + 1 <= start
      <4> SUFFICES ASSUME NEW s \in Spaces(t), s < first - quarter PROVE s + 1 <= start
        OBVIOUS
      <4>1. s < lead
        BY <1>1, <2>4, <2>5, <2>9
      <4>2. s \in before
        BY <4>1 DEF before
      <4> QED
        BY <2>9, <3>1, <3>2, <4>2
    <3>5. (\A s \in Spaces(t) : s >= first - quarter) => first - quarter <= start
      <4> SUFFICES ASSUME \A s \in Spaces(t) : s >= first - quarter PROVE first - quarter <= start
        OBVIOUS
      <4>1. Max(before) \in Spaces(t)
        BY <3>1 DEF before
      <4>2. Max(before) >= first - quarter
        BY <4>1
      <4> QED
        BY <1>1, <2>4, <3>2, <4>2
    <3> QED
      BY <1>1, <1>3, <2>3, <2>4, <2>6, <3>3, <3>4, <3>5 DEF start, first, quarter
  <2> QED
    BY <2>10, <2>11
<1> QED
  BY <1>2, <1>3

\* the window has a space past halfway
LateSpace(t, start, len) == \E s \in Spaces(t) : start + len \div 2 < s /\ s < start + len

LEMMA DotsFacts ==
    ASSUME NEW A, NEW some
    PROVE  Dots(some) \in Seq(A \cup {Ellipsis})
<1>1. <<>> \in Seq(A \cup {Ellipsis})
  OBVIOUS
<1>2. <<Ellipsis>> \in Seq(A \cup {Ellipsis})
  OBVIOUS
<1> QED
  BY <1>1, <1>2 DEF Dots

\* A window is a part of the text between what stands for the rest of it, no longer
\* than was asked for, and ends where the text does, with a word where there is a space
\* past halfway, or as late as it can.
LEMMA WindowFacts ==
    ASSUME NEW A, NEW t \in Seq(A), NEW ts, NEW len \in Nat, len > 2
    PROVE  \E stop \in Start(t, ts, len) .. Len(t) :
             /\ Window(t, ts, len) =
                  Cat(Cat(Dots(Start(t, ts, len) > 0), SubSeq(t, Start(t, ts, len) + 1, stop)),
                      Dots(stop < Len(t)))
             /\ stop <= Start(t, ts, len) + len
             /\ stop < Len(t) => stop > Start(t, ts, len)
             /\ stop < Len(t) =>
                  IF LateSpace(t, Start(t, ts, len), len)
                  THEN t[stop + 1] = Space /\ stop > Start(t, ts, len) + len \div 2
                  ELSE stop = Start(t, ts, len) + len
<1> DEFINE start == Start(t, ts, len)
           end == Min({Len(t), start + len})
           window == SubSeq(t, start + 1, end)
           half == len \div 2
<1>1. start \in 0 .. Len(t) /\ Len(t) \in Nat
  BY StartFacts
<1> HIDE DEF start
<1>2. end = IF Len(t) <= start + len THEN Len(t) ELSE start + len
  BY <1>1, MinOfTwo
<1> HIDE DEF end
<1>3. end \in start .. Len(t) /\ end <= start + len /\ half \in Nat /\ (end < Len(t) => end = start + len)
  BY <1>1, <1>2
<1> HIDE DEF half
<1>4. Window(t, ts, len) =
        Cat(Dots(start > 0), IF end < Len(t) THEN Append(Trim(window, len), Ellipsis) ELSE window)
  BY DEF Window, Cat, Dots, start, end
<1>6. /\ Dots(start > 0) \in Seq(A \cup {Ellipsis})
      /\ \A stop \in start .. Len(t) :
           /\ SubSeq(t, start + 1, stop) \in Seq(A \cup {Ellipsis})
           /\ Len(SubSeq(t, start + 1, stop)) = stop - start
  <2>1. t \in Seq(A \cup {Ellipsis})
    OBVIOUS
  <2> QED
    BY <1>1, <2>1, DotsFacts
<1>7. CASE end = Len(t)
  <2>1. Window(t, ts, len) = Cat(Dots(start > 0), window)
    BY <1>1, <1>4, <1>7
  <2>2. Dots(end < Len(t)) = <<>>
    BY <1>1, <1>7 DEF Dots
  <2>3. Cat(Dots(start > 0), window) \in Seq(A \cup {Ellipsis})
    BY <1>3, <1>6, CatFacts
  <2>4. Cat(Cat(Dots(start > 0), window), Dots(end < Len(t))) = Cat(Dots(start > 0), window)
    BY <2>2, <2>3, EmptySeq, CatFacts
  <2> QED
    BY <1>1, <1>3, <1>7, <2>1, <2>4 DEF start
<1>8. CASE end # Len(t)
  <2> DEFINE late == LateSpaces(window, len)
             stop == IF late = {} THEN end ELSE start + Max(late)
  <2>1. end < Len(t) /\ end = start + len
    BY <1>1, <1>3, <1>8
  <2>2. window \in Seq(A) /\ Len(window) = len /\ \A n \in 1 .. len : window[n] = t[start + n]
    BY <1>1, <1>3, <2>1
  <2>3. late # {} => /\ Max(late) \in 0 .. len - 1 /\ Max(late) > half
                     /\ window[Max(late) + 1] = Space
    <3> SUFFICES ASSUME late # {}
                 PROVE  Max(late) \in 0 .. len - 1 /\ Max(late) > half /\ window[Max(late) + 1] = Space
      OBVIOUS
    <3> HIDE DEF window
    <3>1. late \in SUBSET (0 .. len)
      BY <2>2 DEF LateSpaces, Spaces
    <3>2. Max(late) \in late
      <4> HIDE DEF late
      <4> QED
        BY <3>1, MaxFacts
    <3> QED
      BY <2>2, <3>2 DEF LateSpaces, Spaces, half
  <2>4. /\ stop \in start .. Len(t) /\ stop <= start + len /\ stop > start
        /\ IF late = {} THEN stop = start + len ELSE t[stop + 1] = Space /\ stop > start + half
    <3>1. CASE late = {}
      <4>1. stop = start + len
        BY <2>1, <3>1
      <4> HIDE DEF stop, late, window
      <4>2. start + len \in start .. Len(t) /\ start + len > start /\ start + len <= start + len
        BY <1>1, <2>1
      <4>3. /\ stop \in start .. Len(t) /\ stop <= start + len /\ stop > start
            /\ stop = start + len
        BY <4>1, <4>2, Zenon
      <4> QED
        BY <3>1, <4>3, Zenon
    <3>2. CASE late # {}
      <4>1. stop = start + Max(late)
        BY <3>2
      <4>2. t[start + (Max(late) + 1)] = Space /\ Max(late) + 1 \in 1 .. len
        <5> DEFINE m == Max(late)
        <5>1. m \in 0 .. len - 1 /\ window[m + 1] = Space
          BY <2>3, <3>2
        <5> HIDE DEF m, window
        <5>2. m + 1 \in 1 .. len
          BY <5>1
        <5> QED
          BY <2>2, <5>1, <5>2 DEF m
      <4>3. Max(late) \in 0 .. len - 1 /\ Max(late) > half
        BY <2>3, <3>2
      <4> HIDE DEF stop, late
      <4>4. PICK m \in Nat : m = Max(late) /\ m < len /\ m > half /\ stop = start + m
        BY <4>1, <4>3
      <4>5. /\ stop \in start .. Len(t) /\ stop <= start + len /\ stop > start
            /\ stop > start + half /\ stop + 1 = start + (m + 1)
        BY <1>1, <1>3, <2>1, <4>4
      <4>6. t[stop + 1] = Space
        BY <4>2, <4>4, <4>5
      <4> QED
        BY <3>2, <4>5, <4>6
    <3> QED
      BY <3>1, <3>2
  <2>11. LateSpace(t, start, len) <=> late # {}
    <3>1. \A m \in late : /\ m \in 0 .. len - 1 /\ m > half /\ window[m + 1] = Space
      <4> HIDE DEF window
      <4> QED
        BY <2>2 DEF LateSpaces, Spaces, half
    <3>2. \A m \in 0 .. len - 1 : m > half /\ window[m + 1] = Space => m \in late
      <4> HIDE DEF window
      <4> QED
        BY <2>2 DEF LateSpaces, Spaces, half
    <3> HIDE DEF late, window
    <3>3. ASSUME NEW s \in Spaces(t), start + half < s, s < start + len PROVE late # {}
      <4>1. s \in 0 .. Len(t) - 1 /\ t[s + 1] = Space
        BY DEF Spaces
      <4>2. PICK m \in Nat : s = start + m
        <5>1. s - start \in Nat /\ s = start + (s - start)
          BY <1>1, <1>3, <3>3, <4>1
        <5> QED
          BY <5>1
      <4>3. m \in 0 .. len - 1 /\ m > half /\ m + 1 \in 1 .. len /\ start + (m + 1) = s + 1
        BY <1>1, <1>3, <3>3, <4>2
      <4>4. window[m + 1] = Space
        BY <2>2, <4>1, <4>3
      <4> QED
        BY <3>2, <4>3, <4>4
    <3>4. ASSUME NEW m \in late PROVE \E s \in Spaces(t) : start + half < s /\ s < start + len
      <4>1. m \in 0 .. len - 1 /\ m > half /\ window[m + 1] = Space
        BY <3>1
      <4>2. m + 1 \in 1 .. len /\ m \in Nat
        BY <4>1
      <4>3. t[start + (m + 1)] = Space
        BY <2>2, <4>1, <4>2
      <4>4. PICK s \in Nat : s = start + m
        BY <1>1, <4>2
      <4>5. s \in 0 .. Len(t) - 1 /\ s + 1 = start + (m + 1) /\ start + half < s /\ s < start + len
        BY <1>1, <1>3, <2>1, <4>1, <4>4
      <4>6. s \in Spaces(t)
        BY <4>3, <4>5 DEF Spaces
      <4> QED
        BY <4>5, <4>6
    <3> QED
      BY <3>3, <3>4 DEF LateSpace, half
  <2>5. Trim(window, len) = SubSeq(t, start + 1, stop)
    <3>1. CASE late = {}
      BY <3>1 DEF Trim
    <3>2. CASE late # {}
      <4>1. Trim(window, len) = SubSeq(window, 1, Max(late)) /\ stop = start + Max(late)
        BY <3>2 DEF Trim
      <4>2. Max(late) \in 0 .. len
        BY <2>3, <3>2
      <4> HIDE DEF stop, late
      <4> DEFINE m == Max(late)
      <4>3. m \in 0 .. len
        BY <4>2
      <4> HIDE DEF m
      <4>4. SubSeq(window, 1, m) = SubSeq(t, start + 1, start + m)
        <5> DEFINE a == SubSeq(window, 1, m)
                   b == SubSeq(t, start + 1, start + m)
        <5>1. a \in Seq(A) /\ Len(a) = m /\ \A n \in 1 .. m : a[n] = t[start + n]
          <6> HIDE DEF window
          <6>1. a \in Seq(A) /\ Len(a) = m /\ \A n \in 1 .. m : a[n] = window[n]
            BY <2>2, <4>3
          <6> HIDE DEF a
          <6> QED
            BY <2>2, <4>3, <6>1
        <5>2. b \in Seq(A) /\ Len(b) = m /\ \A n \in 1 .. m : b[n] = t[start + n]
          BY <1>1, <2>1, <4>3
        <5> HIDE DEF a, b
        <5>3. a = b
          BY <5>1, <5>2, SeqEqual
        <5> QED
          BY <5>3 DEF a, b
      <4> QED
        BY <4>1, <4>4 DEF m
    <3> QED
      BY <3>1, <3>2
  <2> HIDE DEF stop, late
  <2>6. stop < Len(t)
    BY <1>1, <2>1, <2>4
  <2>7. Append(Trim(window, len), Ellipsis) = Cat(SubSeq(t, start + 1, stop), Dots(stop < Len(t)))
    <3>1. Dots(stop < Len(t)) = <<Ellipsis>>
      BY <2>6 DEF Dots
    <3>2. SubSeq(t, start + 1, stop) \in Seq(A \cup {Ellipsis})
      BY <1>6, <2>4
    <3>3. Append(SubSeq(t, start + 1, stop), Ellipsis) = Cat(SubSeq(t, start + 1, stop), <<Ellipsis>>)
      BY <3>2, AppendIsConcat DEF Cat
    <3> QED
      BY <2>5, <3>1, <3>3
  <2>8. Window(t, ts, len) = Cat(Dots(start > 0), Append(Trim(window, len), Ellipsis))
    BY <1>4, <2>1
  <2>9. Dots(stop < Len(t)) \in Seq(A \cup {Ellipsis})
    BY DotsFacts
  <2>10. Window(t, ts, len)
           = Cat(Cat(Dots(start > 0), SubSeq(t, start + 1, stop)), Dots(stop < Len(t)))
    <3>1. /\ Dots(start > 0) \in Seq(A \cup {Ellipsis})
          /\ SubSeq(t, start + 1, stop) \in Seq(A \cup {Ellipsis})
      BY <1>6, <2>4
    <3>2. Cat(Dots(start > 0), Cat(SubSeq(t, start + 1, stop), Dots(stop < Len(t))))
            = Cat(Cat(Dots(start > 0), SubSeq(t, start + 1, stop)), Dots(stop < Len(t)))
      <4> DEFINE b == SubSeq(t, start + 1, stop)
      <4>1. b \in Seq(A \cup {Ellipsis})
        BY <3>1
      <4> HIDE DEF b
      <4>2. Cat(Dots(start > 0), Cat(b, Dots(stop < Len(t)))) = Cat(Cat(Dots(start > 0), b), Dots(stop < Len(t)))
        BY <2>9, <3>1, <4>1, CatAssociates
      <4> QED
        BY <4>2 DEF b
    <3> QED
      BY <2>7, <2>8, <3>2
  <2> QED
    BY <2>4, <2>6, <2>10, <2>11 DEF start, half
<1> QED
  BY <1>7, <1>8

-----------------------------------------------------------------------------
\* What is escaped and what is marked.

\* a mark is before, or after, the n-th rune
Begins(runes, ts, n) == n - 1 \in Found(runes, ts)

Ends(runes, ts, n) == n \in {Past(runes, ts, index) : index \in Found(runes, ts)}

Opening(runes, ts, n) == IF Begins(runes, ts, n) THEN <<Mark>> ELSE <<>>

Closing(runes, ts, n) == IF Ends(runes, ts, n) THEN <<EndMark>> ELSE <<>>

\* what Marked and Escaped join
MarkPiece(runes, ts, n) == Cat(Cat(Opening(runes, ts, n), <<runes[n]>>), Closing(runes, ts, n))

MarkPieces(runes, ts) == [n \in DOMAIN runes |-> MarkPiece(runes, ts, n)]

EscapePieces(runes) == [n \in DOMAIN runes |-> IF runes[n] = Amp THEN Entity ELSE <<runes[n]>>]

LEMMA MarkedIsJoined ==
    ASSUME NEW A, NEW runes \in Seq(A), NEW ts
    PROVE  Marked(runes, ts) = Joined(MarkPieces(runes, ts))
<1> DEFINE starts == Found(runes, ts)
           ends == {Past(runes, ts, index) : index \in starts}
           p == [n \in DOMAIN runes |->
                   (IF n - 1 \in starts THEN <<Mark>> ELSE <<>>)
                       \o <<runes[n]>> \o (IF n \in ends THEN <<EndMark>> ELSE <<>>)]
<1>1. ASSUME NEW n \in DOMAIN runes
      PROVE  (IF n - 1 \in starts THEN <<Mark>> ELSE <<>>)
                \o <<runes[n]>> \o (IF n \in ends THEN <<EndMark>> ELSE <<>>)
             = Cat(Cat(Opening(runes, ts, n), <<runes[n]>>), Closing(runes, ts, n))
  BY DEF Cat, Opening, Closing, Begins, Ends
<1>2. p = MarkPieces(runes, ts)
  BY <1>1, Zenon DEF MarkPieces, MarkPiece
<1> QED
  BY <1>2, Zenon DEF Marked

\* how many marks there are before, and after, the n-th rune
Before(runes, ts, n) == IF Begins(runes, ts, n) THEN 1 ELSE 0

After(runes, ts, n) == IF Ends(runes, ts, n) THEN 1 ELSE 0

IsMarked(A, runes, ts, n, piece) ==
    /\ piece \in Seq(A \cup {Mark, EndMark})
    /\ Len(piece) = Before(runes, ts, n) + 1 + After(runes, ts, n)
    /\ piece[Before(runes, ts, n) + 1] = runes[n]
    /\ Begins(runes, ts, n) => piece[1] = Mark
    /\ Ends(runes, ts, n) => piece[Before(runes, ts, n) + 2] = EndMark

\* A rune is replaced with itself and with what marks it.
LEMMA MarkPieceFacts ==
    ASSUME NEW A, NEW runes \in Seq(A), NEW ts, NEW n \in 1 .. Len(runes)
    PROVE  IsMarked(A, runes, ts, n, MarkPiece(runes, ts, n))
<1> DEFINE r == runes[n]
           o == Opening(runes, ts, n)
           c == Closing(runes, ts, n)
           p == MarkPiece(runes, ts, n)
           B == A \cup {Mark, EndMark}
<1>1. p = Cat(Cat(o, <<r>>), c)
  BY DEF MarkPiece
<1>2. r \in A /\ <<r>> \in Seq(B)
  OBVIOUS
<1>3. <<Mark>> \in Seq(B) /\ <<EndMark>> \in Seq(B) /\ <<>> \in Seq(B)
  OBVIOUS
<1>4. o \in Seq(B) /\ c \in Seq(B)
  BY <1>3 DEF Opening, Closing
<1> HIDE DEF r, p, B
<1> DEFINE one == <<r>>
           b == Before(runes, ts, n)
           e == After(runes, ts, n)
<1>5. /\ one \in Seq(B) /\ Len(one) = 1 /\ one[1] = r
      /\ Len(o) = b /\ (b = 1 => o[1] = Mark) /\ Len(c) = e /\ (e = 1 => c[1] = EndMark)
      /\ b \in {0, 1} /\ e \in {0, 1} /\ (Begins(runes, ts, n) <=> b = 1) /\ (Ends(runes, ts, n) <=> e = 1)
  BY <1>2 DEF Opening, Closing, Before, After
<1> HIDE DEF o, c, one, b, e
<1>6. /\ Len(p) = b + 1 + e /\ p[b + 1] = r /\ (b = 1 => p[1] = Mark) /\ (e = 1 => p[b + 2] = EndMark)
  <2>1. PICK q : q = Cat(o, one)
    OBVIOUS
  <2>2. q \in Seq(B) /\ Len(q) = Len(o) + Len(one)
    BY <1>4, <1>5, <2>1, CatFacts
  <2>3. /\ \A i \in 1 .. Len(o) : q[i] = o[i]
        /\ \A i \in 1 .. Len(one) : q[Len(o) + i] = one[i]
    <3>1. o \in Seq(B) /\ one \in Seq(B)
      BY <1>4, <1>5
    <3>2. /\ \A i \in 1 .. Len(o) : Cat(o, one)[i] = o[i]
          /\ \A i \in 1 .. Len(one) : Cat(o, one)[Len(o) + i] = one[i]
      BY <3>1, CatElements
    <3> QED
      BY <2>1, <3>2
  <2>4. Len(q) = b + 1 /\ q[b + 1] = r /\ (b = 1 => q[1] = Mark)
    BY <1>5, <2>2, <2>3
  <2>5. p = Cat(q, c)
    BY <1>1, <2>1 DEF one
  <2>6. Len(p) = Len(q) + Len(c)
    BY <1>4, <2>2, <2>5, CatFacts
  <2>7. /\ \A i \in 1 .. Len(q) : p[i] = q[i]
        /\ \A i \in 1 .. Len(c) : p[Len(q) + i] = c[i]
    <3>1. q \in Seq(B) /\ c \in Seq(B)
      BY <1>4, <2>2
    <3>2. /\ \A i \in 1 .. Len(q) : Cat(q, c)[i] = q[i]
          /\ \A i \in 1 .. Len(c) : Cat(q, c)[Len(q) + i] = c[i]
      BY <3>1, CatElements
    <3> QED
      BY <2>5, <3>2
  <2>8. b + 1 \in 1 .. Len(q) /\ 1 \in 1 .. Len(q)
    BY <1>5, <2>4
  <2>9. e = 1 => p[b + 2] = EndMark
    <3> SUFFICES ASSUME e = 1 PROVE p[b + 2] = EndMark
      OBVIOUS
    <3>1. 1 \in 1 .. Len(c) /\ Len(q) + 1 = b + 2
      BY <1>5, <2>4
    <3> QED
      BY <1>5, <2>7, <3>1
  <2>10. Len(p) = b + 1 + e
    BY <1>5, <2>4, <2>6
  <2> QED
    BY <2>4, <2>7, <2>8, <2>9, <2>10
<1>7. p \in Seq(B)
  <2>1. Cat(o, <<r>>) \in Seq(B)
    BY <1>2, <1>4, CatFacts
  <2> HIDE DEF o, c
  <2> QED
    BY <1>1, <1>4, <2>1, CatFacts
<1> QED
  BY <1>5, <1>6, <1>7 DEF r, p, B, b, e, IsMarked

LEMMA WithoutPiece ==
    ASSUME NEW A, NEW runes \in Seq(A), NEW ts, NEW n \in 1 .. Len(runes),
           NEW out, {Mark, EndMark} \subseteq out
    PROVE  Without(MarkPiece(runes, ts, n), out) = IF runes[n] \in out THEN <<>> ELSE <<runes[n]>>
<1> DEFINE r == runes[n]
           o == Opening(runes, ts, n)
           c == Closing(runes, ts, n)
           p == MarkPiece(runes, ts, n)
           one == <<r>>
           B == A \cup {Mark, EndMark}
<1>1. p = Cat(Cat(o, one), c)
  BY DEF MarkPiece
<1>2. one \in Seq(B)
  OBVIOUS
<1>3. <<Mark>> \in Seq(B) /\ <<EndMark>> \in Seq(B) /\ <<>> \in Seq(B)
  OBVIOUS
<1>4. o \in Seq(B) /\ c \in Seq(B)
  BY <1>3 DEF Opening, Closing
<1>5. Without(one, out) = IF r \in out THEN <<>> ELSE <<r>>
  BY WithoutOne
<1>6. Without(<<>>, out) = <<>> /\ Without(<<Mark>>, out) = <<>> /\ Without(<<EndMark>>, out) = <<>>
  <2>1. Mark \in out /\ EndMark \in out
    OBVIOUS
  <2> QED
    BY <2>1, WithoutOne
<1>7. Without(o, out) = <<>> /\ Without(c, out) = <<>>
  BY <1>6 DEF Opening, Closing
<1> HIDE DEF r, p, B, o, c, one
<1>8. Cat(o, one) \in Seq(B)
  BY <1>2, <1>4, CatFacts
<1>9. Without(p, out) = Cat(Without(Cat(o, one), out), Without(c, out))
  BY <1>1, <1>4, <1>8, WithoutCat
<1>10. Without(Cat(o, one), out) = Cat(Without(o, out), Without(one, out))
  BY <1>2, <1>4, WithoutCat
<1>11. Without(one, out) \in Seq(B)
  BY <1>2, WithoutCat
<1>12. Cat(<<>>, Without(one, out)) = Without(one, out) /\ Cat(Without(one, out), <<>>) = Without(one, out)
  BY <1>11, EmptySeq, CatFacts
<1> QED
  BY <1>5, <1>7, <1>9, <1>10, <1>12 DEF p, r

LEMMA MarkPiecesSeq ==
    ASSUME NEW A, NEW runes \in Seq(A), NEW ts
    PROVE  /\ MarkPieces(runes, ts) \in Seq(Seq(A \cup {Mark, EndMark}))
           /\ Len(MarkPieces(runes, ts)) = Len(runes)
           /\ \A n \in 1 .. Len(runes) : MarkPieces(runes, ts)[n] = MarkPiece(runes, ts, n)
<1>1. DOMAIN runes = 1 .. Len(runes) /\ Len(runes) \in Nat
  OBVIOUS
<1>5. \A n \in 1 .. Len(runes) : MarkPieces(runes, ts)[n] = MarkPiece(runes, ts, n)
  BY <1>1 DEF MarkPieces
<1>6. \A n \in 1 .. Len(runes) : MarkPiece(runes, ts, n) \in Seq(A \cup {Mark, EndMark})
  BY MarkPieceFacts DEF IsMarked
<1>2. \A n \in 1 .. Len(runes) : MarkPieces(runes, ts)[n] \in Seq(A \cup {Mark, EndMark})
  BY <1>5, <1>6
<1>3. MarkPieces(runes, ts) = [n \in 1 .. Len(runes) |-> MarkPieces(runes, ts)[n]]
  BY <1>1 DEF MarkPieces
<1>4. MarkPieces(runes, ts) \in [1 .. Len(runes) -> Seq(A \cup {Mark, EndMark})]
  BY <1>2, <1>3
<1> QED
  BY <1>1, <1>4, <1>5

\* Marking adds nothing but marks.
LEMMA MarkedWithout ==
    ASSUME NEW A, NEW runes \in Seq(A), NEW ts, NEW out, {Mark, EndMark} \subseteq out
    PROVE  /\ Marked(runes, ts) \in Seq(A \cup {Mark, EndMark})
           /\ Without(Marked(runes, ts), out) = Without(runes, out)
<1> DEFINE p == MarkPieces(runes, ts)
<1>1. p \in Seq(Seq(A \cup {Mark, EndMark})) /\ Len(p) = Len(runes)
  BY MarkPiecesSeq
<1>2. DOMAIN p = DOMAIN runes /\ DOMAIN runes = 1 .. Len(runes) /\ Len(runes) \in Nat
  BY DEF MarkPieces
<1>3. \A m \in DOMAIN runes : Without(p[m], out) = IF runes[m] \in out THEN <<>> ELSE <<runes[m]>>
  <2> TAKE m \in DOMAIN runes
  <2>1. m \in 1 .. Len(runes)
    BY <1>2
  <2>2. p[m] = MarkPiece(runes, ts, m)
    BY <2>1, MarkPiecesSeq
  <2> QED
    BY <2>1, <2>2, WithoutPiece
<1> HIDE DEF p
<1>4. Without(Joined(p), out) = Without(runes, out)
  <2>1. PICK B : B = A \cup {Mark, EndMark}
    OBVIOUS
  <2>2. p \in Seq(Seq(B)) /\ DOMAIN p = DOMAIN runes
    BY <1>1, <1>2, <2>1
  <2> QED
    BY <1>3, <2>2, WithoutPieces
<1>5. Joined(p) \in Seq(A \cup {Mark, EndMark})
  BY <1>1, JoinedFacts
<1> QED
  BY <1>4, <1>5, MarkedIsJoined DEF p

\* what HTML escapes a rune with
Escapes == EntityLetters \cup {";"}

LEMMA EntityFacts ==
    /\ Len(Entity) = 5 /\ Entity[1] = Amp /\ Entity[2] = "a" /\ Entity[3] = "m" /\ Entity[4] = "p"
    /\ Entity[5] = ";" /\ EntityLetters = {"a", "m", "p"}
    /\ Entity \in Seq({Amp} \cup Escapes)
<1>1. /\ Len(Entity) = 5 /\ Entity[1] = Amp /\ Entity[2] = "a" /\ Entity[3] = "m" /\ Entity[4] = "p"
      /\ Entity[5] = ";"
  BY DEF Entity, Amp
<1>2. 2 .. 4 = {2, 3, 4}
  OBVIOUS
<1>3. EntityLetters = {"a", "m", "p"}
  BY <1>1, <1>2 DEF EntityLetters
<1>4. Entity \in Seq({"&", "a", "m", "p", ";"})
  BY DEF Entity
<1>5. {"&", "a", "m", "p", ";"} = {Amp} \cup Escapes
  BY <1>3 DEF Escapes, Amp
<1> QED
  BY <1>1, <1>3, <1>4, <1>5

LEMMA EscapePiecesSeq ==
    ASSUME NEW A, NEW runes \in Seq(A)
    PROVE  /\ EscapePieces(runes) \in Seq(Seq(A \cup {Amp} \cup Escapes))
           /\ Len(EscapePieces(runes)) = Len(runes)
           /\ \A n \in 1 .. Len(runes) :
                EscapePieces(runes)[n] = IF runes[n] = Amp THEN Entity ELSE <<runes[n]>>
<1> DEFINE B == A \cup {Amp} \cup Escapes
<1>1. DOMAIN runes = 1 .. Len(runes) /\ Len(runes) \in Nat
  OBVIOUS
<1>2. \A n \in 1 .. Len(runes) :
        EscapePieces(runes)[n] = IF runes[n] = Amp THEN Entity ELSE <<runes[n]>>
  BY <1>1 DEF EscapePieces
<1>3. ASSUME NEW n \in 1 .. Len(runes) PROVE EscapePieces(runes)[n] \in Seq(B)
  <2>1. <<runes[n]>> \in Seq(B)
    OBVIOUS
  <2>2. Entity \in Seq(B)
    <3>1. {Amp} \cup Escapes \subseteq B
      OBVIOUS
    <3>2. Entity \in Seq({Amp} \cup Escapes)
      BY EntityFacts
    <3> HIDE DEF B
    <3> QED
      BY <3>1, <3>2
  <2> QED
    BY <1>2, <2>1, <2>2
<1>4. EscapePieces(runes) = [n \in 1 .. Len(runes) |-> EscapePieces(runes)[n]]
  BY <1>1 DEF EscapePieces
<1> HIDE DEF B
<1>5. EscapePieces(runes) \in [1 .. Len(runes) -> Seq(B)]
  BY <1>3, <1>4
<1> QED
  BY <1>1, <1>2, <1>5 DEF B

\* Escaping adds nothing but what escapes.
LEMMA EscapedSeq ==
    ASSUME NEW A, NEW runes \in Seq(A)
    PROVE  /\ Escaped(runes) = Joined(EscapePieces(runes))
           /\ Escaped(runes) \in Seq(A \cup {Amp} \cup Escapes)
<1> DEFINE p == EscapePieces(runes)
           B == A \cup {Amp} \cup Escapes
<1>1. p \in Seq(Seq(B))
  BY EscapePiecesSeq
<1> HIDE DEF B
<1>2. Escaped(runes) = Joined(p)
  BY DEF Escaped, EscapePieces
<1> HIDE DEF p
<1>3. Joined(p) \in Seq(B)
  BY <1>1, JoinedFacts
<1> QED
  BY <1>2, <1>3 DEF B, p

LEMMA RuneFacts ==
    /\ Amp \in Runes /\ Space \in Runes /\ Ellipsis \in Runes /\ Letters \subseteq Runes
    /\ Escapes \subseteq Runes /\ Mark \notin Runes /\ EndMark \notin Runes /\ Mark # EndMark
    /\ Runes \cup {Ellipsis} = Runes /\ Runes \cup {Amp} \cup Escapes = Runes
<1>1. Letters \cap {Space, Amp, Ellipsis, Mark, EndMark, ";"} = {} /\ EntityLetters \subseteq Letters
  BY RunesAssumption
<1>2. {Mark, EndMark} \cap {Space, Amp, ";", Ellipsis} = {} /\ Mark # EndMark
  BY DEF Amp, Space, Mark, EndMark, Ellipsis
<1> QED
  BY <1>1, <1>2 DEF Escapes, Runes

-----------------------------------------------------------------------------
\* The hits that are marked.

LEMMA TermFacts ==
    ASSUME NEW ts \in Queries
    PROVE  \A term \in ts :
             /\ term \in Seq(Letters) /\ Len(term) \in Nat /\ Len(term) > 0
             /\ Len(term) >= 3 \/ \A n \in DOMAIN term : term[n] \notin EntityLetters
<1> TAKE term \in ts
<1>1. term \in Terms
  BY DEF Terms
<1>2. term \in Seq(Letters) /\ term # <<>>
  BY <1>1, TermsAssumption
<1> QED
  BY <1>1, <1>2, TermsAssumption

\* Where there is a hit the longest is one, and it has something in it.
LEMMA LongestFacts ==
    ASSUME NEW A, NEW runes \in Seq(A), NEW ts \in Queries, NEW index \in Nat, Hit(runes, ts, index)
    PROVE  /\ \E term \in ts : At(runes, term, index) /\ Past(runes, ts, index) = index + Len(term)
           /\ \A term \in ts : At(runes, term, index) => index + Len(term) <= Past(runes, ts, index)
           /\ Past(runes, ts, index) \in index + 1 .. Len(runes)
           /\ index < Len(runes)
<1> DEFINE found == {t \in ts : At(runes, t, index)}
           lens == {Len(term) : term \in found}
<1>1. Len(runes) \in Nat /\ \A term \in ts : Len(term) \in Nat /\ Len(term) > 0
  BY TermFacts
<1>2. \A term \in found : Len(term) \in 1 .. Len(runes) /\ index + Len(term) <= Len(runes)
  <2> TAKE term \in found
  <2>1. index + Len(term) <= Len(runes) /\ term \in ts
    BY DEF At
  <2> QED
    BY <1>1, <2>1
<1>3. lens \in SUBSET (0 .. Len(runes)) /\ lens # {}
  <2>1. PICK term \in ts : At(runes, term, index)
    BY DEF Hit
  <2>2. Len(term) \in lens
    BY <2>1
  <2>3. lens \subseteq 0 .. Len(runes)
    BY <1>1, <1>2
  <2> QED
    BY <2>2, <2>3
<1>4. Longest(runes, ts, index) = Max(lens)
  BY DEF Longest
<1>5. Max(lens) \in lens /\ \A n \in lens : n <= Max(lens)
  <2> HIDE DEF lens
  <2> QED
    BY <1>1, <1>3, MaxFacts
<1> DEFINE m == Max(lens)
<1>6. PICK term \in found : m = Len(term)
  BY <1>5
<1>7. \A other \in found : Len(other) <= m
  BY <1>5
<1> HIDE DEF m, lens
<1>8. Past(runes, ts, index) = index + m
  BY <1>4 DEF Past, m
<1>9. m \in 1 .. Len(runes) /\ index + m <= Len(runes)
  BY <1>2, <1>6
<1>10. \A other \in ts : At(runes, other, index) => index + Len(other) <= index + m
  BY <1>1, <1>7, <1>9
<1>11. index + m \in index + 1 .. Len(runes) /\ index < Len(runes)
  BY <1>1, <1>9
<1> QED
  BY <1>6, <1>8, <1>10, <1>11

\* What is found are hits, none of which begins in another, and every hit is one of
\* them or begins in one.
LEMMA FoundFacts ==
    ASSUME NEW A, NEW runes \in Seq(A), NEW ts \in Queries
    PROVE  /\ Found(runes, ts) \subseteq Nat
           /\ \A i \in Found(runes, ts) : Hit(runes, ts, i)
           /\ \A i, j \in Found(runes, ts) : i < j => Past(runes, ts, i) <= j
           /\ \A h \in Nat : Hit(runes, ts, h) =>
                \E i \in Found(runes, ts) : i <= h /\ h < Past(runes, ts, i)
<1> DEFINE N == Len(runes)
           before(n) == FoundBefore(runes, ts)[n]
           past(i) == Past(runes, ts, i)
           hit(i) == Hit(runes, ts, i)
           Good(n) ==
             /\ before(n) \subseteq Nat /\ \A i \in before(n) : i < n /\ hit(i)
             /\ \A i, j \in before(n) : i < j => past(i) <= j
             /\ \A h \in Nat : h < n /\ hit(h) => \E i \in before(n) : i <= h /\ h < past(i)
           S == {n \in 0 .. N : Good(n)}
<1>0. N \in Nat
  OBVIOUS
<1>1. \A i \in Nat : hit(i) => past(i) \in i + 1 .. N /\ i < N
  BY LongestFacts
<1>2. /\ before(0) = {}
      /\ \A n \in 1 .. N :
           before(n) = IF hit(n - 1) /\ \A i \in before(n - 1) : past(i) < n
                       THEN before(n - 1) \cup {n - 1} ELSE before(n - 1)
  BY <1>0, FoundDef
<1>3. Found(runes, ts) = before(N)
  BY DEF Found
<1> HIDE DEF before, past, hit, N
<1>4. 0 \in S
  BY <1>0, <1>2
<1>5. ASSUME NEW n \in 0 .. N - 1, n \in S PROVE n + 1 \in S
  <2>0. n \in Nat /\ n + 1 \in 1 .. N /\ (n + 1) - 1 = n /\ n + 1 \in 0 .. N
    BY <1>0
  <2>1. Good(n)
    BY <1>5
  <2>2. before(n + 1) = IF hit(n) /\ \A i \in before(n) : past(i) < n + 1
                        THEN before(n) \cup {n} ELSE before(n)
    BY <1>2, <2>0
  <2>3. \A i \in before(n) : past(i) \in Nat
    BY <1>0, <1>1, <2>1
  <2>4. CASE hit(n) /\ \A i \in before(n) : past(i) < n + 1
    <3>1. before(n + 1) = before(n) \cup {n}
      BY <2>2, <2>4
    <3>2. \A i \in before(n + 1) : i \in Nat /\ i < n + 1 /\ hit(i)
      BY <2>0, <2>1, <2>4, <3>1
    <3>3. \A i, j \in before(n + 1) : i < j => past(i) <= j
      BY <2>0, <2>1, <2>3, <2>4, <3>1
    <3>4. ASSUME NEW h \in Nat, h < n + 1, hit(h)
          PROVE  \E i \in before(n + 1) : i <= h /\ h < past(i)
      <4>1. CASE h = n
        <5>1. n \in before(n + 1) /\ n <= h /\ h < past(n)
          BY <1>1, <2>0, <2>4, <3>1, <4>1
        <5> QED
          BY <5>1
      <4>2. CASE h < n
        BY <2>1, <3>1, <3>4, <4>2
      <4> QED
        BY <2>0, <3>4, <4>1, <4>2
    <3>5. Good(n + 1)
      BY <3>2, <3>3, <3>4
    <3> HIDE DEF Good
    <3> QED
      BY <2>0, <3>5
  <2>5. CASE ~(hit(n) /\ \A i \in before(n) : past(i) < n + 1)
    <3>1. before(n + 1) = before(n)
      BY <2>2, <2>5
    <3>2. \A i \in before(n + 1) : i \in Nat /\ i < n + 1 /\ hit(i)
      BY <2>0, <2>1, <3>1
    <3>3. \A i, j \in before(n + 1) : i < j => past(i) <= j
      BY <2>1, <3>1
    <3>4. ASSUME NEW h \in Nat, h < n + 1, hit(h)
          PROVE  \E i \in before(n + 1) : i <= h /\ h < past(i)
      <4>1. CASE h = n
        <5>1. PICK i \in before(n) : ~(past(i) < n + 1)
          BY <2>5, <3>4, <4>1
        <5>2. i <= h /\ h < past(i)
          BY <2>0, <2>1, <2>3, <4>1, <5>1
        <5> QED
          BY <3>1, <5>1, <5>2
      <4>2. CASE h < n
        BY <2>1, <3>1, <3>4, <4>2
      <4> QED
        BY <2>0, <3>4, <4>1, <4>2
    <3>5. Good(n + 1)
      BY <3>2, <3>3, <3>4
    <3> HIDE DEF Good
    <3> QED
      BY <2>0, <3>5
  <2> QED
    BY <2>4, <2>5
<1>6. Good(N)
  <2>1. \A n \in 0 .. N : n \in S
    <3> HIDE DEF S
    <3> QED
      BY <1>0, <1>4, <1>5, Loop
  <2> QED
    BY <1>0, <2>1
<1>7. \A h \in Nat : hit(h) => h < N
  BY <1>1
<1>8. /\ before(N) \subseteq Nat /\ \A i \in before(N) : hit(i)
      /\ \A i, j \in before(N) : i < j => past(i) <= j
      /\ \A h \in Nat : hit(h) => \E i \in before(N) : i <= h /\ h < past(i)
  BY <1>6, <1>7
<1> QED
  BY <1>3, <1>8 DEF past, hit

-----------------------------------------------------------------------------
\* What is shown of a text.

Styled == Runes \cup {Mark, EndMark}

\* All that there is to say of a snippet's window, wherever it starts and stops.
ShownOf(t, ts, len, start, stop) ==
    /\ start = Start(t, ts, len) /\ start \in 0 .. Len(t) /\ stop \in start .. Len(t)
    /\ Window(t, ts, len) =
         Cat(Cat(Dots(start > 0), SubSeq(t, start + 1, stop)), Dots(stop < Len(t)))
    /\ stop <= start + len /\ (stop < Len(t) => stop > start)
    /\ stop < Len(t) =>
         IF LateSpace(t, start, len)
         THEN t[stop + 1] = Space /\ stop > start + len \div 2
         ELSE stop = start + len

LEMMA SnippetFacts ==
    ASSUME NEW t \in Seq(Runes), NEW ts, NEW len \in Nat, len > 2
    PROVE  \E start, stop \in Nat :
             /\ ShownOf(t, ts, len, start, stop)
             /\ Window(t, ts, len) \in Seq(Runes)
             /\ Escaped(Window(t, ts, len)) \in Seq(Runes)
             /\ MakeSnippet(t, ts, len) \in Seq(Styled)
<1>1. PICK start : start = Start(t, ts, len)
  OBVIOUS
<1>2. start \in 0 .. Len(t) /\ Len(t) \in Nat
  BY <1>1, StartFacts
<1>3. PICK stop \in Start(t, ts, len) .. Len(t) :
        /\ Window(t, ts, len) =
             Cat(Cat(Dots(Start(t, ts, len) > 0), SubSeq(t, Start(t, ts, len) + 1, stop)),
                 Dots(stop < Len(t)))
        /\ stop <= Start(t, ts, len) + len
        /\ stop < Len(t) => stop > Start(t, ts, len)
        /\ stop < Len(t) =>
             IF LateSpace(t, Start(t, ts, len), len)
             THEN t[stop + 1] = Space /\ stop > Start(t, ts, len) + len \div 2
             ELSE stop = Start(t, ts, len) + len
  BY WindowFacts
<1>4. ShownOf(t, ts, len, start, stop)
  BY <1>1, <1>2, <1>3 DEF ShownOf
<1>5. start \in Nat /\ stop \in Nat
  BY <1>1, <1>2, <1>3
<1>6. PICK w : w = Window(t, ts, len)
  OBVIOUS
<1>7. /\ start \in 0 .. Len(t) /\ stop \in start .. Len(t)
      /\ w = Cat(Cat(Dots(start > 0), SubSeq(t, start + 1, stop)), Dots(stop < Len(t)))
  BY <1>4, <1>6 DEF ShownOf
<1>8. w \in Seq(Runes)
  <2>1. SubSeq(t, start + 1, stop) \in Seq(Runes)
    BY <1>2, <1>7
  <2>2. PICK first : first = Dots(start > 0)
    OBVIOUS
  <2>3. PICK last : last = Dots(stop < Len(t))
    OBVIOUS
  <2>4. first \in Seq(Runes) /\ last \in Seq(Runes)
    <3>1. first \in Seq(Runes \cup {Ellipsis}) /\ last \in Seq(Runes \cup {Ellipsis})
      BY <2>2, <2>3, DotsFacts
    <3> QED
      BY <3>1, RuneFacts
  <2>5. PICK body : body = SubSeq(t, start + 1, stop)
    OBVIOUS
  <2>6. body \in Seq(Runes) /\ w = Cat(Cat(first, body), last)
    BY <1>7, <2>1, <2>2, <2>3, <2>5, Zenon
  <2>7. Cat(first, body) \in Seq(Runes)
    BY <2>4, <2>6, CatFacts
  <2>8. Cat(Cat(first, body), last) \in Seq(Runes)
    BY <2>4, <2>7, CatFacts
  <2> QED
    BY <2>6, <2>8
<1>9. PICK e : e = Escaped(w)
  OBVIOUS
<1>10. e \in Seq(Runes)
  <2>1. Escaped(w) \in Seq(Runes \cup {Amp} \cup Escapes)
    BY <1>8, EscapedSeq
  <2> QED
    BY <1>9, <2>1, RuneFacts
<1>11. Marked(e, ts) \in Seq(Runes \cup {Mark, EndMark})
  <2>1. PICK out : out = {Mark, EndMark}
    OBVIOUS
  <2>2. {Mark, EndMark} \subseteq out
    BY <2>1
  <2> QED
    BY <1>10, <2>2, MarkedWithout
<1>12. MakeSnippet(t, ts, len) = Marked(e, ts)
  BY <1>6, <1>9 DEF MakeSnippet
<1> QED
  BY <1>4, <1>5, <1>6, <1>8, <1>9, <1>10, <1>11, <1>12, Zenon DEF Styled

\* Only letters are in a hit.
LEMMA HitLetters ==
    ASSUME NEW runes, NEW ts \in Queries, NEW term \in ts, NEW index \in Nat, At(runes, term, index),
           NEW n \in 1 .. Len(term)
    PROVE  runes[index + n] \in Letters /\ Lower[runes[index + n]] = term[n]
<1>1. term \in Seq(Letters) /\ term[n] \in Letters
  BY TermFacts
<1>2. ToLower(runes[index + n]) = term[n]
  BY DEF At
<1> QED
  BY <1>1, <1>2 DEF ToLower

LEMMA AskedFacts ==
    ASSUME IInv
    PROVE  /\ text \in Seq(Runes) /\ Plain(text) /\ terms \in Queries /\ length \in Nat /\ length > 2
           /\ snippet # NotYet => snippet = MakeSnippet(text, terms, length)
           /\ excerpt # NotYet => excerpt = Excerpt(text, length)
BY LengthsAssumption DEF IInv, Asked, MadeOf

\* A snippet is of the text's runes and markup, and an excerpt of the text's runes.
THEOREM Typing == Spec => []TypeOK
<1>1. IInv => TypeOK
  <2> SUFFICES ASSUME IInv PROVE TypeOK
    OBVIOUS
  <2>1. text \in Seq(Runes)
    BY AskedFacts
  <2>2. snippet = NotYet \/ snippet \in Seq(Runes \cup {Mark, EndMark})
    <3> SUFFICES ASSUME snippet # NotYet PROVE snippet \in Seq(Styled)
      BY DEF Styled
    <3>1. snippet = MakeSnippet(text, terms, length)
      BY AskedFacts
    <3>2. MakeSnippet(text, terms, length) \in Seq(Styled)
      BY AskedFacts, SnippetFacts
    <3> QED
      BY <3>1, <3>2
  <2>3. excerpt = NotYet \/ excerpt \in Seq(Runes)
    <3> SUFFICES ASSUME excerpt # NotYet PROVE excerpt \in Seq(Runes)
      OBVIOUS
    <3>1. /\ excerpt = Excerpt(text, length) /\ Plain(text) /\ length \in Nat /\ length > 2
          /\ Len(text) \in Nat
      BY <2>1, AskedFacts
    <3>2. CASE Len(text) <= length
      BY <2>1, <3>1, <3>2 DEF Excerpt
    <3>3. CASE ~(Len(text) <= length)
      <4>1. PICK cut \in 1 .. length : Excerpt(text, length) = Append(SubSeq(text, 1, cut), Ellipsis)
        <5>1. Len(text) > length
          BY <3>1, <3>3
        <5>2. PICK cut \in 1 .. length :
                /\ Excerpt(text, length) = Append(SubSeq(text, 1, cut), Ellipsis)
                /\ IF \E s \in Spaces(text) : length \div 2 < s /\ s < length
                   THEN cut > length \div 2 /\ text[cut + 1] = Space
                   ELSE cut = length
          BY <2>1, <3>1, <5>1, ExcerptFacts
        <5> QED
          BY <5>2
      <4>2. SubSeq(text, 1, cut) \in Seq(Runes)
        <5>1. cut \in 1 .. Len(text)
          BY <3>1, <3>3
        <5> QED
          BY <2>1, <5>1
      <4>3. \A s \in Seq(Runes) : Append(s, Ellipsis) \in Seq(Runes)
        BY RuneFacts
      <4> QED
        BY <3>1, <4>1, <4>2, <4>3
    <3> QED
      BY <3>2, <3>3
  <2> QED
    BY <2>1, <2>2, <2>3 DEF TypeOK, IInv, Asked
<1> QED
  BY <1>1, Invariance, PTL

-----------------------------------------------------------------------------
\* Where everything is in a snippet.

\* where the n-th rune is in what is marked
Place(runes, ts, n) == Ahead(MarkPieces(runes, ts), n) + Before(runes, ts, n) + 1

LEMMA BesideFacts ==
    ASSUME NEW runes, NEW ts, NEW n
    PROVE  /\ Before(runes, ts, n) \in {0, 1} /\ After(runes, ts, n) \in {0, 1}
           /\ Begins(runes, ts, n) <=> Before(runes, ts, n) = 1
           /\ Ends(runes, ts, n) <=> After(runes, ts, n) = 1
BY DEF Before, After

\* The n-th rune is where it should be of s, and so are its marks.
IsPlaced(runes, ts, n, s) ==
    /\ Place(runes, ts, n) \in 1 .. Len(s) /\ s[Place(runes, ts, n)] = runes[n]
    /\ Begins(runes, ts, n) =>
         Place(runes, ts, n) - 1 \in 1 .. Len(s) /\ s[Place(runes, ts, n) - 1] = Mark
    /\ Ends(runes, ts, n) =>
         Place(runes, ts, n) + 1 \in 1 .. Len(s) /\ s[Place(runes, ts, n) + 1] = EndMark
    /\ n < Len(runes) =>
         Place(runes, ts, n + 1)
           = Place(runes, ts, n) + After(runes, ts, n) + Before(runes, ts, n + 1) + 1

\* The n-th rune, or a mark of it, is at j.
IsAt(runes, ts, n, j) ==
    \/ j = Place(runes, ts, n)
    \/ Begins(runes, ts, n) /\ j = Place(runes, ts, n) - 1
    \/ Ends(runes, ts, n) /\ j = Place(runes, ts, n) + 1

LEMMA MarkedPlaces ==
    ASSUME NEW A, NEW runes \in Seq(A), NEW ts, NEW s, s = Marked(runes, ts)
    PROVE  /\ Len(s) \in Nat /\ s \in Seq(A \cup {Mark, EndMark})
           /\ \A n \in 1 .. Len(runes) : IsPlaced(runes, ts, n, s)
           /\ \A j \in 1 .. Len(s) : \E n \in 1 .. Len(runes) : IsAt(runes, ts, n, j)
<1> DEFINE p == MarkPieces(runes, ts)
           B == A \cup {Mark, EndMark}
           b(n) == Before(runes, ts, n)
           e(n) == After(runes, ts, n)
           ahead(n) == Ahead(p, n)
           place(n) == Place(runes, ts, n)
           N == Len(runes)
<1>1. p \in Seq(Seq(B)) /\ Len(p) = N /\ N \in Nat /\ s = Joined(p)
  BY MarkPiecesSeq, MarkedIsJoined
<1>2. \A n \in 1 .. N : IsMarked(A, runes, ts, n, p[n])
  <2> TAKE n \in 1 .. N
  <2>1. p[n] = MarkPiece(runes, ts, n)
    BY MarkPiecesSeq
  <2> QED
    BY <2>1, MarkPieceFacts
<1>3. \A n : place(n) = ahead(n) + b(n) + 1
  BY DEF Place
<1>4. \A n : /\ b(n) \in {0, 1} /\ e(n) \in {0, 1}
             /\ Begins(runes, ts, n) <=> b(n) = 1
             /\ Ends(runes, ts, n) <=> e(n) = 1
  BY BesideFacts
<1> HIDE DEF p, B, b, e, place, N
<1>5. \A n \in 1 .. N : /\ p[n] \in Seq(A \cup {Mark, EndMark}) /\ Len(p[n]) = b(n) + 1 + e(n)
                        /\ p[n][b(n) + 1] = runes[n]
                        /\ b(n) = 1 => p[n][1] = Mark
                        /\ e(n) = 1 => p[n][b(n) + 2] = EndMark
  BY <1>2, <1>4 DEF IsMarked, b, e
<1>6. /\ \A n \in 1 .. N + 1 : ahead(n) \in Nat
      /\ \A n \in 1 .. N : ahead(n + 1) = ahead(n) + Len(p[n])
  BY <1>1, JoinedSteps
<1>7. /\ Joined(p) \in Seq(B)
      /\ \A n \in 1 .. N : \A k \in 1 .. Len(p[n]) :
           ahead(n) + k \in 1 .. Len(Joined(p)) /\ Joined(p)[ahead(n) + k] = p[n][k]
      /\ \A j \in 1 .. Len(Joined(p)) :
           \E n \in 1 .. N : \E k \in 1 .. Len(p[n]) : j = ahead(n) + k
  BY <1>1, JoinedFacts
<1> HIDE DEF ahead
<1>11. ASSUME NEW n \in 1 .. N, NEW k \in 1 .. Len(p[n]), NEW j, j = ahead(n) + k
       PROVE  j \in 1 .. Len(s) /\ s[j] = p[n][k]
  <2>1. ahead(n) + k \in 1 .. Len(Joined(p)) /\ Joined(p)[ahead(n) + k] = p[n][k]
    BY <1>7
  <2> QED
    BY <1>1, <1>11, <2>1
<1>8. Len(s) \in Nat
  BY <1>1, <1>7
<1>9. ASSUME NEW n \in 1 .. N
      PROVE  /\ place(n) \in 1 .. Len(s) /\ s[place(n)] = runes[n]
             /\ Begins(runes, ts, n) => place(n) - 1 \in 1 .. Len(s) /\ s[place(n) - 1] = Mark
             /\ Ends(runes, ts, n) => place(n) + 1 \in 1 .. Len(s) /\ s[place(n) + 1] = EndMark
             /\ n < N => place(n + 1) = place(n) + e(n) + b(n + 1) + 1
  <2>1. n \in 1 .. N + 1 /\ n + 1 \in 1 .. N + 1 /\ ahead(n) \in Nat
    BY <1>1, <1>6
  <2>2. /\ b(n) + 1 \in 1 .. Len(p[n]) /\ 1 \in 1 .. Len(p[n])
        /\ e(n) = 1 => b(n) + 2 \in 1 .. Len(p[n])
    <3>1. Len(p[n]) = b(n) + 1 + e(n) /\ b(n) \in {0, 1} /\ e(n) \in {0, 1}
      BY <1>4, <1>5
    <3> QED
      BY <3>1
  <2>3. place(n) = ahead(n) + (b(n) + 1)
    BY <1>3, <1>4, <2>1
  <2>8. PICK j : j = place(n)
    OBVIOUS
  <2>4. place(n) \in 1 .. Len(s) /\ s[place(n)] = runes[n]
    <3>1. PICK k \in 1 .. Len(p[n]) : k = b(n) + 1
      BY <2>2
    <3>2. j \in 1 .. Len(s) /\ s[j] = p[n][k]
      BY <1>11, <2>3, <2>8, <3>1
    <3>3. p[n][k] = runes[n]
      BY <1>5, <3>1
    <3> QED
      BY <2>8, <3>2, <3>3
  <2>5. ASSUME Begins(runes, ts, n)
        PROVE  place(n) - 1 \in 1 .. Len(s) /\ s[place(n) - 1] = Mark
    <3>1. b(n) = 1
      BY <1>4, <2>5
    <3>2. PICK i : i = place(n) - 1 /\ i = ahead(n) + 1
      BY <2>1, <2>3, <3>1
    <3>3. i \in 1 .. Len(s) /\ s[i] = p[n][1]
      BY <1>11, <2>2, <3>2
    <3>4. p[n][1] = Mark
      BY <1>5, <3>1
    <3> QED
      BY <3>2, <3>3, <3>4
  <2>6. ASSUME Ends(runes, ts, n)
        PROVE  place(n) + 1 \in 1 .. Len(s) /\ s[place(n) + 1] = EndMark
    <3>1. e(n) = 1 /\ b(n) \in {0, 1}
      BY <1>4, <2>6
    <3>2. PICK k \in 1 .. Len(p[n]) : k = b(n) + 2
      BY <2>2, <3>1
    <3>3. PICK i : i = place(n) + 1 /\ i = ahead(n) + k
      BY <2>1, <2>3, <3>1, <3>2
    <3>4. i \in 1 .. Len(s) /\ s[i] = p[n][k]
      BY <1>11, <3>3
    <3>5. p[n][k] = EndMark
      BY <1>5, <3>1, <3>2
    <3> QED
      BY <3>3, <3>4, <3>5
  <2>7. place(n + 1) = place(n) + e(n) + b(n + 1) + 1
    <3>1. ahead(n + 1) = ahead(n) + (b(n) + 1 + e(n))
      BY <1>5, <1>6
    <3>2. place(n + 1) = ahead(n + 1) + b(n + 1) + 1
      BY <1>3
    <3>3. b(n) \in {0, 1} /\ e(n) \in {0, 1} /\ b(n + 1) \in {0, 1}
      BY <1>4
    <3> QED
      BY <2>1, <2>3, <3>1, <3>2, <3>3
  <2> QED
    BY <2>4, <2>5, <2>6, <2>7
<1>10. ASSUME NEW j \in 1 .. Len(s)
       PROVE  \E n \in 1 .. N : \/ j = place(n)
                                \/ Begins(runes, ts, n) /\ j = place(n) - 1
                                \/ Ends(runes, ts, n) /\ j = place(n) + 1
  <2>1. PICK n \in 1 .. N : \E k \in 1 .. Len(p[n]) : j = ahead(n) + k
    BY <1>1, <1>7
  <2>2. PICK k \in 1 .. Len(p[n]) : j = ahead(n) + k
    BY <2>1
  <2>3. /\ Len(p[n]) = b(n) + 1 + e(n) /\ b(n) \in {0, 1} /\ e(n) \in {0, 1}
        /\ place(n) = ahead(n) + b(n) + 1 /\ n \in 1 .. N + 1 /\ ahead(n) \in Nat
    BY <1>1, <1>3, <1>4, <1>5, <1>6
  <2>4. \/ j = place(n)
        \/ b(n) = 1 /\ j = place(n) - 1
        \/ e(n) = 1 /\ j = place(n) + 1
    BY <2>2, <2>3
  <2>5. \/ j = place(n)
        \/ Begins(runes, ts, n) /\ j = place(n) - 1
        \/ Ends(runes, ts, n) /\ j = place(n) + 1
    BY <1>4, <2>4
  <2> QED
    BY <2>5
<1> QED
  BY <1>1, <1>7, <1>8, <1>9, <1>10 DEF place, N, b, e, B, IsPlaced, IsAt

IsEntity(s, j) == j + 4 <= Len(s) /\ \A k \in 1 .. 5 : s[j + k - 1] = Entity[k]

\* What escapes a rune is whole, and is where the rune is.
LEMMA EntityWhole ==
    ASSUME NEW A, NEW w \in Seq(A), NEW e, e = Escaped(w), NEW j \in 1 .. Len(e), e[j] = Amp
    PROVE  /\ IsEntity(e, j)
           /\ \E n \in 1 .. Len(w) : w[n] = Amp /\ j = Ahead(EscapePieces(w), n) + 1
<1> DEFINE p == EscapePieces(w)
           B == A \cup {Amp} \cup Escapes
           ahead(n) == Ahead(p, n)
<1>1. /\ p \in Seq(Seq(B)) /\ Len(p) = Len(w) /\ Len(w) \in Nat
      /\ \A n \in 1 .. Len(w) : p[n] = IF w[n] = Amp THEN Entity ELSE <<w[n]>>
  BY EscapePiecesSeq
<1>2. e = Joined(p)
  BY DEF Escaped, EscapePieces
<1> HIDE DEF p, B
<1>3. /\ Joined(p) \in Seq(B)
      /\ \A n \in 1 .. Len(p) : \A k \in 1 .. Len(p[n]) :
           ahead(n) + k \in 1 .. Len(Joined(p)) /\ Joined(p)[ahead(n) + k] = p[n][k]
      /\ \A i \in 1 .. Len(Joined(p)) :
           \E n \in 1 .. Len(p) : \E k \in 1 .. Len(p[n]) : i = ahead(n) + k
  BY <1>1, JoinedFacts
<1>4. \A n \in 1 .. Len(p) + 1 : ahead(n) \in Nat
  BY <1>1, JoinedSteps
<1> HIDE DEF ahead
<1>5. PICK n \in 1 .. Len(p) : \E k \in 1 .. Len(p[n]) : j = ahead(n) + k
  BY <1>2, <1>3
<1>6. PICK k \in 1 .. Len(p[n]) : j = ahead(n) + k
  BY <1>5
<1>7. p[n][k] = Amp
  BY <1>2, <1>3, <1>6
<1>8. p[n] = Entity /\ w[n] = Amp
  <2> SUFFICES ASSUME w[n] # Amp PROVE FALSE
    BY <1>1
  <2>1. p[n] = <<w[n]>>
    BY <1>1
  <2>2. k = 1 /\ p[n][1] = w[n]
    BY <1>6, <2>1
  <2> QED
    BY <1>7, <2>2
<1>9. /\ Len(Entity) = 5 /\ Entity[2] # Amp /\ Entity[3] # Amp /\ Entity[4] # Amp /\ Entity[5] # Amp
  BY EntityFacts DEF Amp
<1>10. k = 1
  <2>1. k \in {1, 2, 3, 4, 5}
    BY <1>6, <1>8, <1>9
  <2> QED
    BY <1>7, <1>8, <1>9, <2>1
<1>11. n \in 1 .. Len(p) + 1 /\ ahead(n) \in Nat /\ j = ahead(n) + 1
  BY <1>1, <1>4, <1>6, <1>10
<1>12. \A i \in 1 .. 5 : ahead(n) + i \in 1 .. Len(e) /\ e[ahead(n) + i] = Entity[i]
  <2> TAKE i \in 1 .. 5
  <2>1. i \in 1 .. Len(p[n])
    BY <1>8, <1>9
  <2>2. ahead(n) + i \in 1 .. Len(Joined(p)) /\ Joined(p)[ahead(n) + i] = p[n][i]
    BY <1>3, <2>1
  <2> QED
    BY <1>2, <1>8, <2>2
<1>13. ahead(n) + 5 \in 1 .. Len(e) /\ Len(e) \in Nat
  <2>1. 5 \in 1 .. 5
    OBVIOUS
  <2> QED
    BY <1>2, <1>3, <1>12, <2>1
<1>14. ASSUME NEW i \in 1 .. 5 PROVE e[j + i - 1] = Entity[i]
  <2>1. j + i - 1 = ahead(n) + i
    BY <1>11
  <2> QED
    BY <1>12, <2>1
<1>15. j + 4 <= Len(e)
  BY <1>11, <1>13
<1>16. IsEntity(e, j)
  BY <1>14, <1>15 DEF IsEntity
<1>17. n \in 1 .. Len(w) /\ w[n] = Amp /\ j = Ahead(EscapePieces(w), n) + 1
  BY <1>1, <1>8, <1>11 DEF ahead, p
<1> QED
  BY <1>16, <1>17, Zenon

\* the same of a part of the sequence
LEMMA EntityParts ==
    ASSUME NEW A, NEW s \in Seq(A), NEW j \in 1 .. Len(s)
    PROVE  /\ IsEntity(s, j) => EntityAt(s, j)
           /\ EntityAt(s, j) => s[j] = Amp
<1> DEFINE C == A \cup {Amp} \cup Escapes
           part == SubSeq(s, j, j + 4)
<1>1. s \in Seq(C) /\ Len(s) \in Nat /\ j \in Nat /\ j > 0
  OBVIOUS
<1>2. Entity \in Seq(C) /\ Len(Entity) = 5 /\ Entity[1] = Amp
  <2>1. PICK D : D = {Amp} \cup Escapes
    OBVIOUS
  <2>2. D \subseteq C
    BY <2>1
  <2>3. Entity \in Seq(D) /\ Len(Entity) = 5 /\ Entity[1] = Amp
    BY <2>1, EntityFacts
  <2> HIDE DEF C
  <2> QED
    BY <2>2, <2>3
<1> HIDE DEF C
<1>3. ASSUME j + 4 <= Len(s)
      PROVE  part \in Seq(C) /\ Len(part) = 5 /\ \A k \in 1 .. 5 : part[k] = s[j + k - 1]
  BY <1>1, <1>3
<1> HIDE DEF part
<1>4. ASSUME IsEntity(s, j) PROVE EntityAt(s, j)
  <2>1. j + 4 <= Len(s)
    BY <1>4 DEF IsEntity
  <2>2. \A k \in 1 .. 5 : s[j + k - 1] = Entity[k]
    BY <1>4, Zenon DEF IsEntity
  <2>3. part \in Seq(C) /\ Len(part) = 5 /\ \A k \in 1 .. 5 : part[k] = s[j + k - 1]
    BY <1>3, <2>1
  <2>4. \A k \in 1 .. 5 : part[k] = Entity[k]
    BY <2>2, <2>3, Zenon
  <2>5. part = Entity
    BY <1>2, <2>3, <2>4, SeqEqual
  <2> QED
    BY <2>1, <2>5 DEF EntityAt, part
<1>5. ASSUME EntityAt(s, j) PROVE s[j] = Amp
  <2>1. j + 4 <= Len(s) /\ part = Entity
    BY <1>5 DEF EntityAt, part
  <2>2. \A k \in 1 .. 5 : part[k] = s[j + k - 1]
    BY <1>3, <2>1
  <2>3. 1 \in 1 .. 5 /\ j + 1 - 1 = j
    BY <1>1
  <2> QED
    BY <1>2, <2>1, <2>2, <2>3
<1> QED
  BY <1>4, <1>5

\* What is escaped begins with no part of what escapes a rune, and where the rune is
\* the rest is one.
LEMMA EntityBegins ==
    ASSUME NEW A, NEW w \in Seq(A), NEW e, e = Escaped(w), NEW B, e \in Seq(B),
           NEW i \in 1 .. Len(w)
    PROVE  /\ ~InEntity(e, Ahead(EscapePieces(w), i) + 1)
           /\ w[i] = Amp => \A k \in 2 .. 5 : InEntity(e, Ahead(EscapePieces(w), i) + k)
<1> DEFINE p == EscapePieces(w)
           D == A \cup {Amp} \cup Escapes
           N == Len(w)
           a(n) == Ahead(p, n)
<1>1. /\ p \in Seq(Seq(D)) /\ Len(p) = N /\ N \in Nat
      /\ \A n \in 1 .. N : p[n] = IF w[n] = Amp THEN Entity ELSE <<w[n]>>
  <2>1. p \in Seq(Seq(D))
    BY EscapePiecesSeq
  <2>2. Len(p) = N
    BY EscapePiecesSeq
  <2>3. \A n \in 1 .. N : p[n] = IF w[n] = Amp THEN Entity ELSE <<w[n]>>
    BY EscapePiecesSeq
  <2>4. N \in Nat
    OBVIOUS
  <2> QED
    BY <2>1, <2>2, <2>3, <2>4, Zenon
<1>2. e = Joined(p)
  BY DEF Escaped, EscapePieces
<1> HIDE DEF p, D, N
<1>3. /\ \A n \in 1 .. N + 1 : a(n) \in Nat
      /\ \A n \in 1 .. N : a(n + 1) = a(n) + Len(p[n])
  BY <1>1, JoinedSteps
<1>4. \A n \in 1 .. N : \A k \in 1 .. Len(p[n]) : a(n) + k \in 1 .. Len(e) /\ e[a(n) + k] = p[n][k]
  <2>1. \A n \in 1 .. Len(p) : \A k \in 1 .. Len(p[n]) :
          a(n) + k \in 1 .. Len(Joined(p)) /\ Joined(p)[a(n) + k] = p[n][k]
    BY <1>1, JoinedFacts
  <2> HIDE DEF a
  <2> QED
    BY <1>1, <1>2, <2>1
<1> HIDE DEF a
<1>5. DOMAIN e = 1 .. Len(e) /\ Len(e) \in Nat
  OBVIOUS
<1>6. \A n \in 1 .. N : /\ Len(p[n]) \in Nat /\ Len(p[n]) > 0
                        /\ w[n] = Amp => Len(p[n]) = 5 /\ p[n][1] = Amp
  <2> TAKE n \in 1 .. N
  <2>1. Len(Entity) = 5 /\ Entity[1] = Amp
    BY EntityFacts
  <2>2. CASE w[n] = Amp
    <3>1. p[n] = Entity
      BY <1>1, <2>2
    <3>2. Len(p[n]) = Len(Entity) /\ p[n][1] = Entity[1]
      BY <3>1
    <3>3. Len(p[n]) = 5 /\ p[n][1] = Amp
      BY <2>1, <3>2
    <3> QED
      BY <3>3
  <2>3. CASE w[n] # Amp
    <3>1. p[n] = <<w[n]>>
      BY <1>1, <2>3
    <3>2. Len(p[n]) = 1
      BY <3>1
    <3> QED
      BY <2>3, <3>2
  <2> QED
    BY <2>2, <2>3
<1>7. \A h \in 1 .. N : \A n \in 1 .. N : h < n => a(h + 1) <= a(n)
  <2> SUFFICES ASSUME NEW h \in 1 .. N PROVE \A n \in 1 .. N : h < n => a(h + 1) <= a(n)
    OBVIOUS
  <2> DEFINE S == {n \in 0 .. N : h < n => a(h + 1) <= a(n)}
  <2>1. 0 \in S
    BY <1>1
  <2>2. ASSUME NEW n \in 0 .. N - 1, n \in S PROVE n + 1 \in S
    <3>1. n + 1 \in 1 .. N /\ n + 1 \in 0 .. N
      BY <1>1
    <3>2. CASE h = n
      <4>1. a(h + 1) \in Nat
        BY <1>1, <1>3
      <4> QED
        BY <3>1, <3>2, <4>1
    <3>3. CASE n < h
      BY <1>1, <3>1, <3>3
    <3>4. CASE h < n
      <4>1. n \in 1 .. N /\ a(h + 1) <= a(n)
        BY <1>1, <2>2, <3>4
      <4>2. a(n + 1) = a(n) + Len(p[n]) /\ Len(p[n]) \in Nat
        BY <1>3, <1>6, <4>1
      <4>3. a(n) \in Nat /\ a(h + 1) \in Nat
        BY <1>1, <1>3, <4>1
      <4>4. a(h + 1) <= a(n + 1)
        BY <4>1, <4>2, <4>3
      <4> QED
        BY <3>1, <4>4
    <3> QED
      BY <3>2, <3>3, <3>4
  <2>3. \A n \in 0 .. N : n \in S
    <3> HIDE DEF S
    <3> QED
      BY <1>1, <2>1, <2>2, Loop
  <2>4. \A n \in 1 .. N : n \in S
    <3> HIDE DEF S
    <3> QED
      BY <1>1, <2>3
  <2> QED
    BY <2>4
<1>8. i \in 1 .. N /\ a(i) \in Nat
  BY <1>1, <1>3 DEF N
<1>9. ASSUME InEntity(e, a(i) + 1) PROVE FALSE
  <2>1. PICK m \in DOMAIN e : m < a(i) + 1 /\ a(i) + 1 <= m + 4 /\ EntityAt(e, m)
    BY <1>9, Zenon DEF InEntity
  <2>2. m \in 1 .. Len(e)
    BY <1>5
  <2>3. e[m] = Amp
    BY <2>1, <2>2, EntityParts
  <2>4. PICK h \in 1 .. N : w[h] = Amp /\ m = a(h) + 1
    <3>1. PICK n \in 1 .. Len(w) : w[n] = Amp /\ m = Ahead(EscapePieces(w), n) + 1
      BY <2>2, <2>3, EntityWhole
    <3>2. n \in 1 .. N /\ w[n] = Amp /\ m = a(n) + 1
      BY <3>1 DEF N, a, p
    <3> QED
      BY <3>2
  <2>5. a(h + 1) = a(h) + 5 /\ a(h) \in Nat
    <3>1. a(h + 1) = a(h) + Len(p[h]) /\ Len(p[h]) = 5
      BY <1>3, <1>6, <2>4
    <3>2. a(h) \in Nat
      BY <1>1, <1>3
    <3> QED
      BY <3>1, <3>2
  <2>6. h < i
    <3> SUFFICES ASSUME ~(h < i) PROVE FALSE
      OBVIOUS
    <3>1. CASE h = i
      BY <1>8, <2>1, <2>4, <3>1
    <3>2. CASE i < h
      <4>1. a(i + 1) <= a(h)
        BY <1>7, <1>8, <3>2
      <4>2. a(i + 1) = a(i) + Len(p[i]) /\ Len(p[i]) \in Nat
        BY <1>3, <1>6, <1>8
      <4>3. PICK x \in Nat, y \in Nat : x = a(h) /\ y = a(i)
        BY <1>8, <2>5
      <4>4. PICK k \in Nat : k = Len(p[i])
        BY <4>2
      <4>5. y + k <= x
        BY <4>1, <4>2, <4>3, <4>4
      <4>6. x + 1 < y + 1
        BY <2>1, <2>4, <4>3
      <4> QED
        BY <4>5, <4>6
    <3> QED
      BY <1>1, <1>8, <3>1, <3>2
  <2>7. a(h + 1) <= a(i)
    BY <1>7, <1>8, <2>6
  <2> QED
    BY <1>8, <2>1, <2>4, <2>5, <2>7
<1>10. ASSUME w[i] = Amp, NEW k \in 2 .. 5 PROVE InEntity(e, a(i) + k)
  <2>1. PICK m \in Nat : m = a(i) + 1
    BY <1>8
  <2>2. m \in 1 .. Len(e) /\ e[m] = Amp
    <3>1. 1 \in 1 .. Len(p[i]) /\ p[i][1] = Amp
      BY <1>6, <1>8, <1>10
    <3> QED
      BY <1>4, <1>8, <2>1, <3>1
  <2>3. IsEntity(e, m)
    BY <2>2, EntityWhole
  <2>4. EntityAt(e, m)
    BY <2>2, <2>3, EntityParts
  <2>5. m \in DOMAIN e /\ m < a(i) + k /\ a(i) + k <= m + 4
    BY <1>5, <1>8, <2>1, <2>2
  <2> QED
    BY <2>4, <2>5, Zenon DEF InEntity
<1> QED
  BY <1>9, <1>10 DEF a, p

\* What is escaped can be undone.
LEMMA UnescapeFacts ==
    ASSUME NEW A, NEW w \in Seq(A), NEW e, e = Escaped(w), NEW B, e \in Seq(B)
    PROVE  Unescape(e) = w
<1> DEFINE p == EscapePieces(w)
           q == [n \in DOMAIN e |-> IF InEntity(e, n) THEN <<>> ELSE <<e[n]>>]
           D == A \cup {Amp} \cup Escapes
           N == Len(w)
           a(n) == Ahead(p, n)
           S == {n \in 0 .. N : JoinedTo(q)[a(n + 1)] = SubSeq(w, 1, n)}
<1>1. /\ p \in Seq(Seq(D)) /\ Len(p) = N /\ N \in Nat
      /\ \A n \in 1 .. N : p[n] = IF w[n] = Amp THEN Entity ELSE <<w[n]>>
  BY EscapePiecesSeq
<1>2. e = Joined(p)
  BY DEF Escaped, EscapePieces
<1>3. DOMAIN e = 1 .. Len(e) /\ Len(e) \in Nat
  OBVIOUS
<1>4. Len(q) = Len(e) /\ \A n \in 1 .. Len(e) : q[n] = IF InEntity(e, n) THEN <<>> ELSE <<e[n]>>
  BY <1>3
<1>5. Unescape(e) = JoinedTo(q)[Len(e)]
  BY <1>4 DEF Unescape, Joined
<1>6. \A i \in 1 .. N : /\ ~InEntity(e, a(i) + 1)
                        /\ w[i] = Amp => \A k \in 2 .. 5 : InEntity(e, a(i) + k)
  BY EntityBegins
<1> HIDE DEF p, D, N, q
<1>7. /\ a(1) = 0 /\ \A n \in 1 .. N + 1 : a(n) \in Nat
      /\ \A n \in 1 .. N : a(n + 1) = a(n) + Len(p[n])
  BY <1>1, JoinedSteps
<1>8. /\ Len(e) = a(N + 1)
      /\ \A n \in 1 .. N : \A k \in 1 .. Len(p[n]) : a(n) + k \in 1 .. Len(e) /\ e[a(n) + k] = p[n][k]
  <2>1. \A n \in 1 .. Len(p) : \A k \in 1 .. Len(p[n]) :
          a(n) + k \in 1 .. Len(Joined(p)) /\ Joined(p)[a(n) + k] = p[n][k]
    BY <1>1, JoinedFacts
  <2>2. Len(Joined(p)) = a(Len(p) + 1)
    BY <1>1, JoinedFacts
  <2> HIDE DEF a
  <2> QED
    BY <1>1, <1>2, <2>1, <2>2
<1> HIDE DEF a
<1>9. JoinedTo(q)[0] = <<>> /\ \A n \in 1 .. Len(e) : JoinedTo(q)[n] = Cat(JoinedTo(q)[n - 1], q[n])
  <2>1. Len(q) \in Nat
    BY <1>3, <1>4
  <2>2. JoinedTo(q)[0] = <<>>
    BY <2>1, JoinedDef
  <2>3. \A n \in 1 .. Len(q) : JoinedTo(q)[n] = Cat(JoinedTo(q)[n - 1], q[n])
    BY <2>1, JoinedCat
  <2> QED
    BY <1>4, <2>2, <2>3
<1>10. 0 \in S
  <2>1. SubSeq(w, 1, 0) = <<>>
    OBVIOUS
  <2>2. 0 \in 0 .. N /\ a(0 + 1) = 0
    BY <1>1, <1>7
  <2> QED
    BY <1>9, <2>1, <2>2
<1>11. ASSUME NEW n \in 0 .. N - 1, n \in S PROVE n + 1 \in S
  <2>1. PICK i \in 1 .. N : i = n + 1
    BY <1>1
  <2>2. JoinedTo(q)[a(i)] = SubSeq(w, 1, n)
    BY <1>11, <2>1
  <2>3. a(i) \in Nat /\ a(i + 1) = a(i) + Len(p[i])
    BY <1>1, <1>7
  <2>4. PICK h \in Nat : h = a(i)
    BY <2>3
  <2>5. PICK x : x = SubSeq(w, 1, i)
    OBVIOUS
  <2>6. x \in Seq(A) /\ Cat(SubSeq(w, 1, n), <<w[i]>>) = x
    <3>1. ASSUME NEW u \in Seq(A), NEW m \in 1 .. Len(u)
          PROVE  SubSeq(u, 1, m) \in Seq(A) /\ SubSeq(u, 1, m - 1) \o <<u[m]>> = SubSeq(u, 1, m)
      <4>1. 1 \in 1 .. Len(u) /\ m \in 1 .. Len(u)
        OBVIOUS
      <4>2. SubSeq(u, 1, m) = SubSeq(u, 1, m - 1) \o <<u[m]>>
        BY <4>1, SubSeqRecursiveSecond
      <4>3. SubSeq(u, 1, m) \in Seq(A)
        BY <4>1, SubSeqProperties
      <4> QED
        BY <4>2, <4>3
    <3>2. i \in 1 .. Len(w) /\ i - 1 = n
      BY <1>1, <2>1 DEF N
    <3> QED
      BY <2>5, <3>1, <3>2 DEF Cat
  <2>7. h + 1 \in 1 .. Len(e) /\ e[h + 1] = w[i]
    <3>1. 1 \in 1 .. Len(p[i]) /\ p[i][1] = w[i]
      <4>1. CASE w[i] = Amp
        <5>1. p[i] = Entity /\ Len(Entity) = 5 /\ Entity[1] = Amp
          BY <1>1, <4>1, EntityFacts
        <5> QED
          BY <4>1, <5>1
      <4>2. CASE w[i] # Amp
        <5>1. p[i] = <<w[i]>>
          BY <1>1, <4>2
        <5> QED
          BY <5>1
      <4> QED
        BY <4>1, <4>2
    <3> QED
      BY <1>8, <2>4, <3>1
  <2>8. JoinedTo(q)[h + 1] = x
    <3>1. ~InEntity(e, h + 1)
      BY <1>6, <2>4
    <3>2. q[h + 1] = <<w[i]>>
      BY <1>4, <2>7, <3>1
    <3>3. JoinedTo(q)[h + 1] = Cat(JoinedTo(q)[(h + 1) - 1], q[h + 1]) /\ (h + 1) - 1 = h
      BY <1>9, <2>7
    <3> QED
      BY <2>2, <2>4, <2>6, <3>2, <3>3
  <2>9. JoinedTo(q)[a(i + 1)] = x
    <3>1. CASE w[i] # Amp
      <4>1. p[i] = <<w[i]>>
        BY <1>1, <3>1
      <4>2. Len(p[i]) = 1
        BY <4>1
      <4>3. a(i + 1) = h + 1
        BY <2>3, <2>4, <4>2
      <4> QED
        BY <2>8, <4>3
    <3>2. CASE w[i] = Amp
      <4>1. Len(p[i]) = 5
        <5>1. p[i] = Entity /\ Len(Entity) = 5
          BY <1>1, <3>2, EntityFacts
        <5> QED
          BY <5>1
      <4>2. a(i + 1) = h + 5
        BY <2>3, <2>4, <4>1
      <4>3. ASSUME NEW k \in 2 .. 5, JoinedTo(q)[h + (k - 1)] = x PROVE JoinedTo(q)[h + k] = x
        <5>1. h + k \in 1 .. Len(e) /\ (h + k) - 1 = h + (k - 1)
          <6>1. k \in 1 .. Len(p[i])
            BY <4>1
          <6>2. a(i) + k \in 1 .. Len(e)
            BY <1>8, <6>1
          <6> QED
            BY <2>4, <6>2
        <5>2. InEntity(e, h + k)
          BY <1>6, <2>4, <3>2
        <5>3. q[h + k] = <<>>
          BY <1>4, <5>1, <5>2
        <5>4. JoinedTo(q)[h + k] = Cat(JoinedTo(q)[(h + k) - 1], q[h + k])
          BY <1>9, <5>1
        <5>5. Cat(x, <<>>) = x
          BY <2>6, EmptySeq, CatFacts
        <5> QED
          BY <4>3, <5>1, <5>3, <5>4, <5>5
      <4>4. /\ 2 \in 2 .. 5 /\ 3 \in 2 .. 5 /\ 4 \in 2 .. 5 /\ 5 \in 2 .. 5
            /\ 2 - 1 = 1 /\ 3 - 1 = 2 /\ 4 - 1 = 3 /\ 5 - 1 = 4
        OBVIOUS
      <4>5. JoinedTo(q)[h + 2] = x
        BY <2>8, <4>3, <4>4
      <4>6. JoinedTo(q)[h + 3] = x
        BY <4>3, <4>4, <4>5
      <4>7. JoinedTo(q)[h + 4] = x
        BY <4>3, <4>4, <4>6
      <4>8. JoinedTo(q)[h + 5] = x
        BY <4>3, <4>4, <4>7
      <4> QED
        BY <4>2, <4>8
    <3> QED
      BY <3>1, <3>2
  <2> QED
    BY <1>1, <2>1, <2>5, <2>9
<1>12. \A n \in 0 .. N : n \in S
  <2> HIDE DEF S
  <2> QED
    BY <1>1, <1>10, <1>11, Loop
<1>13. JoinedTo(q)[a(N + 1)] = SubSeq(w, 1, N)
  <2>1. N \in 0 .. N
    BY <1>1
  <2>2. N \in S
    <3> HIDE DEF S
    <3> QED
      BY <1>12, <2>1
  <2> QED
    BY <2>2
<1>14. SubSeq(w, 1, N) = w
  BY DEF N
<1> QED
  BY <1>5, <1>8, <1>13, <1>14

\* No mark is in what escapes a rune, for none of the terms can be.
LEMMA EntityUnmarked ==
    ASSUME NEW A, NEW w \in Seq(A), NEW e, e = Escaped(w), NEW B, e \in Seq(B),
           NEW ts \in Queries, <<"a", "m", "p">> \notin ts, NEW j \in 1 .. Len(e), e[j] = Amp
    PROVE  /\ \A m \in 1 .. 4 : ~Begins(e, ts, j + m)
           /\ \A m \in 0 .. 3 : ~Ends(e, ts, j + m)
<1>0. IsEntity(e, j)
  BY EntityWhole
<1>1. j \in Nat /\ j > 0 /\ Len(e) \in Nat /\ j + 4 <= Len(e)
  BY <1>0 DEF IsEntity
<1>2. \A k \in 1 .. 5 : e[j + k - 1] = Entity[k]
  BY <1>0, Zenon DEF IsEntity
<1>3. e[j + 1] = "a" /\ e[j + 2] = "m" /\ e[j + 3] = "p" /\ e[j + 4] = ";"
  <2>1. /\ j + 2 - 1 = j + 1 /\ j + 3 - 1 = j + 2 /\ j + 4 - 1 = j + 3 /\ j + 5 - 1 = j + 4
        /\ 2 \in 1 .. 5 /\ 3 \in 1 .. 5 /\ 4 \in 1 .. 5 /\ 5 \in 1 .. 5
    BY <1>1
  <2>2. e[j + 2 - 1] = Entity[2] /\ e[j + 3 - 1] = Entity[3] /\ e[j + 4 - 1] = Entity[4] /\ e[j + 5 - 1] = Entity[5]
    BY <1>2, <2>1
  <2> QED
    BY <2>1, <2>2, EntityFacts
<1>4. /\ Amp \notin Letters /\ ";" \notin Letters
      /\ \A r \in {"a", "m", "p"} : r \in EntityLetters /\ Lower[r] = r
  BY RunesAssumption, EntityFacts
<1>5. ASSUME NEW i \in Nat, Hit(e, ts, i), NEW m \in 1 .. 4, i + 1 = j + m
      PROVE  FALSE
  <2>1. PICK term \in ts : At(e, term, i)
    BY <1>5 DEF Hit
  <2> DEFINE L == Len(term)
  <2>2. /\ L \in Nat /\ L > 0 /\ term \in Seq(Letters)
        /\ L >= 3 \/ \A n \in DOMAIN term : term[n] \notin EntityLetters
    BY TermFacts
  <2>3. \A n \in 1 .. L : e[i + n] \in Letters /\ Lower[e[i + n]] = term[n]
    BY <2>1, HitLetters
  <2>4. DOMAIN term = 1 .. L
    BY <2>2
  <2> HIDE DEF L
  <2>5. L < 5 - m
    <3> SUFFICES ASSUME ~(L < 5 - m) PROVE FALSE
      OBVIOUS
    <3>1. 5 - m \in 1 .. L /\ i + (5 - m) = j + 4
      BY <1>1, <1>5, <2>2
    <3>2. e[i + (5 - m)] \in Letters
      BY <2>3, <3>1
    <3> QED
      BY <1>3, <1>4, <3>1, <3>2
  <2>6. m \in {1, 2, 3} /\ 1 \in 1 .. L
    BY <2>2, <2>5
  <2>7. e[i + 1] \in {"a", "m", "p"}
    BY <1>3, <1>5, <2>6
  <2>8. Lower[e[i + 1]] = term[1]
    BY <2>3, <2>6
  <2>9. term[1] \in EntityLetters
    BY <1>4, <2>7, <2>8
  <2>10. L >= 3
    BY <2>2, <2>4, <2>6, <2>9
  <2>11. m = 1 /\ L = 3 /\ i = j /\ 1 \in 1 .. L /\ 2 \in 1 .. L /\ 3 \in 1 .. L
    BY <1>1, <1>5, <2>2, <2>5, <2>6, <2>10
  <2>12. Lower[e[j + 1]] = term[1] /\ Lower[e[j + 2]] = term[2] /\ Lower[e[j + 3]] = term[3]
    BY <2>3, <2>11
  <2>13. term[1] = "a" /\ term[2] = "m" /\ term[3] = "p"
    BY <1>3, <1>4, <2>12
  <2>14. term = <<"a", "m", "p">>
    BY <2>2, <2>11, <2>13 DEF L
  <2> QED
    BY <2>14
<1>6. ASSUME NEW m \in 1 .. 4, Begins(e, ts, j + m) PROVE FALSE
  <2>1. PICK i : i = j + m - 1
    OBVIOUS
  <2>2. i \in Nat /\ i + 1 = j + m
    BY <1>1, <2>1
  <2>3. i \in Found(e, ts)
    BY <1>6, <2>1 DEF Begins
  <2>4. Hit(e, ts, i)
    BY <2>3, FoundFacts
  <2> QED
    BY <1>5, <2>2, <2>4
<1>7. ASSUME NEW m \in 0 .. 3, Ends(e, ts, j + m) PROVE FALSE
  <2>1. PICK i \in Found(e, ts) : j + m = Past(e, ts, i)
    BY <1>7 DEF Ends
  <2>2. i \in Nat /\ Hit(e, ts, i)
    BY <2>1, FoundFacts
  <2>3. PICK term \in ts : At(e, term, i) /\ j + m = i + Len(term)
    BY <2>1, <2>2, LongestFacts
  <2>4. Len(term) \in Nat /\ Len(term) > 0
    BY TermFacts
  <2>5. i >= j
    <3> SUFFICES ASSUME ~(i >= j) PROVE FALSE
      OBVIOUS
    <3>1. j - i \in 1 .. Len(term) /\ i + (j - i) = j
      BY <1>1, <2>2, <2>3, <2>4
    <3>2. e[i + (j - i)] \in Letters
      BY <2>2, <2>3, <3>1, HitLetters
    <3> QED
      BY <1>4, <3>1, <3>2
  <2>6. PICK k \in 1 .. 4 : i + 1 = j + k
    <3>1. i + 1 - j \in 1 .. 4 /\ i + 1 = j + (i + 1 - j)
      BY <1>1, <2>2, <2>3, <2>4, <2>5
    <3> QED
      BY <3>1
  <2> QED
    BY <1>5, <2>2, <2>6
<1> QED
  BY <1>6, <1>7

\* So what escapes a rune is whole in what is marked as well.
LEMMA EntityShown ==
    ASSUME NEW A, NEW w \in Seq(A), NEW e, e = Escaped(w), NEW B, e \in Seq(B),
           NEW ts \in Queries, <<"a", "m", "p">> \notin ts,
           NEW s, s = Marked(e, ts), NEW n \in 1 .. Len(s), s[n] = Amp
    PROVE  EntityAt(s, n)
<1> DEFINE place(m) == Place(e, ts, m)
<1>0. /\ Len(s) \in Nat /\ s \in Seq(B \cup {Mark, EndMark})
      /\ \A m \in 1 .. Len(e) : IsPlaced(e, ts, m, s)
      /\ \A i \in 1 .. Len(s) : \E m \in 1 .. Len(e) : IsAt(e, ts, m, i)
  BY MarkedPlaces
<1>1. \A m \in 1 .. Len(e) :
        /\ place(m) \in 1 .. Len(s) /\ s[place(m)] = e[m]
        /\ m < Len(e) => place(m + 1) = place(m) + After(e, ts, m) + Before(e, ts, m + 1) + 1
  BY <1>0 DEF IsPlaced
<1>2. Amp # Mark /\ Amp # EndMark
  BY DEF Amp, Mark, EndMark
<1>3. PICK j \in 1 .. Len(e) : n = place(j)
  <2>1. PICK j \in 1 .. Len(e) : IsAt(e, ts, j, n)
    BY <1>0
  <2>2. IsPlaced(e, ts, j, s)
    BY <1>0
  <2>3. Begins(e, ts, j) /\ n = place(j) - 1 => s[n] = Mark
    BY <2>2 DEF IsPlaced
  <2>4. Ends(e, ts, j) /\ n = place(j) + 1 => s[n] = EndMark
    BY <2>2 DEF IsPlaced
  <2>5. n = place(j)
    BY <1>2, <2>1, <2>3, <2>4 DEF IsAt
  <2> QED
    BY <2>5
<1> HIDE DEF place
<1>4. e[j] = Amp
  BY <1>1, <1>3
<1>5. /\ \A m \in 1 .. 4 : ~Begins(e, ts, j + m)
      /\ \A m \in 0 .. 3 : ~Ends(e, ts, j + m)
  BY <1>4, EntityUnmarked
<1>6. j + 4 <= Len(e) /\ Len(e) \in Nat /\ j \in Nat /\ j > 0 /\ IsEntity(e, j)
  <2>1. IsEntity(e, j)
    BY <1>4, EntityWhole
  <2>2. Len(e) \in Nat
    OBVIOUS
  <2> QED
    BY <2>1, <2>2 DEF IsEntity
<1>7. ASSUME NEW m \in 0 .. 3
      PROVE  place(j + (m + 1)) = place(j + m) + 1
  <2>1. PICK i \in 1 .. Len(e) : i = j + m /\ i < Len(e) /\ i + 1 = j + (m + 1) /\ m + 1 \in 1 .. 4
    <3>1. j + m \in 1 .. Len(e) /\ j + m < Len(e) /\ (j + m) + 1 = j + (m + 1) /\ m + 1 \in 1 .. 4
      BY <1>6
    <3> QED
      BY <3>1
  <2>2. place(i + 1) = place(i) + After(e, ts, i) + Before(e, ts, i + 1) + 1
    BY <1>1, <2>1
  <2>3. ~Begins(e, ts, j + (m + 1)) /\ ~Ends(e, ts, j + m)
    BY <1>5, <2>1
  <2>4. After(e, ts, i) = 0 /\ Before(e, ts, i + 1) = 0
    BY <2>1, <2>3 DEF After, Before
  <2>5. place(i) \in Nat
    BY <1>1
  <2>6. place(i + 1) = place(i) + 1
    BY <2>2, <2>4, <2>5
  <2> QED
    BY <2>1, <2>6
<1>8. /\ place(j + 0) = n /\ place(j + 1) = n + 1 /\ place(j + 2) = n + 2
      /\ place(j + 3) = n + 3 /\ place(j + 4) = n + 4
  <2>1. place(j + 0) = n /\ n \in Nat
    BY <1>1, <1>3, <1>6
  <2>2. place(j + 1) = place(j + 0) + 1
    BY <1>7
  <2>3. place(j + 2) = place(j + 1) + 1
    BY <1>7
  <2>4. place(j + 3) = place(j + 2) + 1
    BY <1>7
  <2>5. place(j + 4) = place(j + 3) + 1
    BY <1>7
  <2> QED
    BY <2>1, <2>2, <2>3, <2>4, <2>5
<1>9. \A k \in 0 .. 4 : n + k \in 1 .. Len(s) /\ s[n + k] = Entity[k + 1]
  <2> TAKE k \in 0 .. 4
  <2>1. PICK i \in 1 .. Len(e) : i = j + k /\ k + 1 \in 1 .. 5 /\ j + (k + 1) - 1 = i
    <3>1. j + k \in 1 .. Len(e) /\ k + 1 \in 1 .. 5 /\ j + (k + 1) - 1 = j + k
      BY <1>6
    <3> QED
      BY <3>1
  <2>2. e[j + (k + 1) - 1] = Entity[k + 1]
    BY <1>6, <2>1 DEF IsEntity
  <2>3. place(i) \in 1 .. Len(s) /\ s[place(i)] = e[i]
    BY <1>1
  <2>4. k \in {0, 1, 2, 3, 4}
    OBVIOUS
  <2>5. place(j + k) = n + k
    <3>1. k = 0 => place(j + k) = n + k
      BY <1>0, <1>8
    <3>2. k = 1 => place(j + k) = n + k
      BY <1>8
    <3>3. k = 2 => place(j + k) = n + k
      BY <1>8
    <3>4. k = 3 => place(j + k) = n + k
      BY <1>8
    <3>5. k = 4 => place(j + k) = n + k
      BY <1>8
    <3> QED
      BY <2>4, <3>1, <3>2, <3>3, <3>4, <3>5
  <2> QED
    BY <2>1, <2>2, <2>3, <2>5
<1>10. n + 4 <= Len(s) /\ n \in Nat /\ n > 0
  <2>1. 4 \in 0 .. 4
    OBVIOUS
  <2> QED
    BY <1>0, <1>9, <2>1
<1>11. ASSUME NEW k \in 1 .. 5 PROVE s[n + k - 1] = Entity[k]
  <2>1. PICK l \in 0 .. 4 : k = l + 1 /\ n + k - 1 = n + l
    <3>1. k - 1 \in 0 .. 4 /\ k = (k - 1) + 1 /\ n + k - 1 = n + (k - 1)
      BY <1>10
    <3> QED
      BY <3>1
  <2> QED
    BY <1>9, <2>1
<1>12. IsEntity(s, n)
  BY <1>10, <1>11 DEF IsEntity
<1> QED
  BY <1>0, <1>12, EntityParts

\* A reader sees of a snippet its window.
LEMMA DecodedFacts ==
    ASSUME NEW w \in Seq(Runes), NEW ts
    PROVE  Decoded(Marked(Escaped(w), ts)) = w
<1>1. PICK e : e = Escaped(w)
  OBVIOUS
<1>2. e \in Seq(Runes)
  <2>1. Escaped(w) \in Seq(Runes \cup {Amp} \cup Escapes)
    BY EscapedSeq
  <2> QED
    BY <1>1, <2>1, RuneFacts
<1>3. Unmarked(Marked(e, ts)) = e
  <2>1. PICK out : out = {Mark, EndMark}
    OBVIOUS
  <2>6. PICK B : B = Runes
    OBVIOUS
  <2>2. {Mark, EndMark} \subseteq out /\ e \in Seq(B)
    BY <1>2, <2>1, <2>6
  <2>7. Marked(e, ts) \in Seq(B \cup {Mark, EndMark})
    BY <2>2, MarkedWithout
  <2>3. Without(Marked(e, ts), out) = Without(e, out)
    BY <2>2, <2>7, MarkedWithout
  <2>4. \A n \in DOMAIN e : e[n] \notin out
    <3>1. \A n \in DOMAIN e : e[n] \in Runes
      BY <1>2
    <3> QED
      BY <2>1, <3>1, RuneFacts
  <2>5. Without(e, out) = e
    BY <1>2, <2>4, WithoutNone
  <2> QED
    BY <2>1, <2>3, <2>5 DEF Unmarked
<1>4. Unescape(e) = w
  BY <1>1, <1>2, UnescapeFacts
<1> QED
  BY <1>1, <1>3, <1>4 DEF Decoded

\* So it is a part of the text with what stands for the rest of it.
LEMMA SeenFacts ==
    ASSUME IInv, Made
    PROVE  \E start, stop \in Nat :
             /\ ShownOf(text, terms, length, start, stop)
             /\ Decoded(snippet) = Dotted(start, stop)
<1>1. /\ text \in Seq(Runes) /\ length \in Nat /\ length > 2
      /\ snippet = MakeSnippet(text, terms, length)
  BY AskedFacts DEF Made
<1>2. PICK start \in Nat, stop \in Nat :
        ShownOf(text, terms, length, start, stop) /\ Window(text, terms, length) \in Seq(Runes)
  BY <1>1, SnippetFacts
<1>3. PICK w : w = Window(text, terms, length)
  OBVIOUS
<1>4. Decoded(snippet) = w
  BY <1>1, <1>2, <1>3, DecodedFacts DEF MakeSnippet
<1>5. w = Cat(Cat(Dots(start > 0), SubSeq(text, start + 1, stop)), Dots(stop < Len(text)))
  BY <1>2, <1>3 DEF ShownOf
<1>6. w = Dotted(start, stop)
  BY <1>5 DEF Cat, Dotted
<1> QED
  BY <1>2, <1>4, <1>6

\* A snippet starts with a word, where there is one that starts before it does, ends
\* with one where there is a space past halfway, and says where it has left something
\* out of the text, at either end.
THEOREM WindowCutHolds == Spec => []WindowCut
<1>1. IInv => WindowCut
  <2> SUFFICES ASSUME IInv, Made PROVE WindowCut
    BY DEF WindowCut
  <2>1. text \in Seq(Runes) /\ length \in Nat
    BY AskedFacts
  <2>2. PICK start \in Nat, stop \in Nat :
          ShownOf(text, terms, length, start, stop) /\ Decoded(snippet) = Dotted(start, stop)
    BY SeenFacts
  <2>3. /\ start = Start(text, terms, length) /\ start \in 0 .. Len(text) /\ stop \in start .. Len(text)
        /\ stop < Len(text) =>
             IF LateSpace(text, start, length)
             THEN text[stop + 1] = Space /\ stop > start + length \div 2
             ELSE stop = start + length
    BY <2>2 DEF ShownOf
  <2>4. start > 0 => text[start] = Space \/ \A s \in Spaces(text) : s >= start
    BY <2>1, <2>3, StartFacts
  <2>5. stop < Len(text) =>
          IF \E s \in Spaces(text) : start + length \div 2 < s /\ s < start + length
          THEN text[stop + 1] = Space /\ stop > start + length \div 2
          ELSE stop = start + length
    BY <2>3, Zenon DEF LateSpace
  <2> QED
    BY <2>2, <2>3, <2>4, <2>5, Zenon DEF WindowCut
<1> QED
  BY <1>1, Invariance, PTL

\* What escapes a rune is whole in a snippet, and what a reader sees of it is a part of
\* the text that is no longer than was asked for.
THEOREM TextShownHolds == Spec => []TextShown
<1>1. IInv => TextShown
  <2> SUFFICES ASSUME IInv, Made, <<"a", "m", "p">> \notin terms PROVE TextShown
    BY DEF TextShown
  <2>1. /\ text \in Seq(Runes) /\ terms \in Queries /\ length \in Nat /\ length > 2
        /\ snippet = MakeSnippet(text, terms, length)
    BY AskedFacts DEF Made
  <2>2. /\ Window(text, terms, length) \in Seq(Runes)
        /\ Escaped(Window(text, terms, length)) \in Seq(Runes)
        /\ snippet \in Seq(Styled)
    BY <2>1, SnippetFacts
  <2>3. PICK start \in Nat, stop \in Nat :
          ShownOf(text, terms, length, start, stop) /\ Decoded(snippet) = Dotted(start, stop)
    BY SeenFacts
  <2>4. start \in 0 .. Len(text) /\ stop \in start .. Len(text) /\ stop <= start + length
    BY <2>3 DEF ShownOf
  <2>5. ASSUME NEW n \in DOMAIN snippet, snippet[n] = Amp PROVE EntityAt(snippet, n)
    <3>1. PICK w : w = Window(text, terms, length)
      OBVIOUS
    <3>2. PICK e : e = Escaped(w)
      OBVIOUS
    <3>3. w \in Seq(Runes) /\ e \in Seq(Runes)
      BY <2>2, <3>1, <3>2
    <3>4. snippet = Marked(e, terms)
      BY <2>1, <3>1, <3>2 DEF MakeSnippet
    <3>5. n \in 1 .. Len(snippet)
      BY <2>2
    <3> QED
      BY <2>1, <2>5, <3>2, <3>3, <3>4, <3>5, EntityShown
  <2> QED
    BY <2>3, <2>4, <2>5, Zenon DEF TextShown
<1> QED
  BY <1>1, Invariance, PTL

-----------------------------------------------------------------------------
\* What a mark marks.

LEMMA PlaceOrder ==
    ASSUME NEW A, NEW runes \in Seq(A), NEW ts
    PROVE  \A m, n \in 1 .. Len(runes) : m < n => Place(runes, ts, m) < Place(runes, ts, n)
<1> DEFINE N == Len(runes)
           place(n) == Place(runes, ts, n)
           S == {n \in 0 .. N : \A m, k \in 1 .. n : m < k => place(m) < place(k)}
<1>1. PICK s : s = Marked(runes, ts)
  OBVIOUS
<1>2. N \in Nat /\ Len(s) \in Nat /\ \A n \in 1 .. N : IsPlaced(runes, ts, n, s)
  <2>1. N \in Nat
    OBVIOUS
  <2>2. /\ Len(s) \in Nat /\ s \in Seq(A \cup {Mark, EndMark})
        /\ \A n \in 1 .. Len(runes) : IsPlaced(runes, ts, n, s)
        /\ \A j \in 1 .. Len(s) : \E n \in 1 .. Len(runes) : IsAt(runes, ts, n, j)
    BY <1>1, MarkedPlaces
  <2> QED
    BY <2>1, <2>2
<1>3. \A n \in 1 .. N :
        /\ place(n) \in Nat
        /\ n < N => place(n + 1) > place(n)
  <2> TAKE n \in 1 .. N
  <2>1. IsPlaced(runes, ts, n, s)
    BY <1>2
  <2>2. place(n) \in Nat
    BY <1>2, <2>1 DEF IsPlaced
  <2>3. n < N => place(n + 1) = place(n) + After(runes, ts, n) + Before(runes, ts, n + 1) + 1
    BY <2>1 DEF IsPlaced
  <2>4. After(runes, ts, n) \in {0, 1} /\ Before(runes, ts, n + 1) \in {0, 1}
    BY BesideFacts
  <2> HIDE DEF place
  <2> QED
    BY <2>2, <2>3, <2>4
<1> HIDE DEF place, N
<1>4. 0 \in S
  BY <1>2
<1>5. ASSUME NEW n \in 0 .. N - 1, n \in S PROVE n + 1 \in S
  <2>1. n + 1 \in 0 .. N /\ n \in Nat
    BY <1>2
  <2>2. ASSUME NEW m \in 1 .. n + 1, NEW k \in 1 .. n + 1, m < k PROVE place(m) < place(k)
    <3>1. CASE k \in 1 .. n
      BY <1>5, <2>2, <3>1
    <3>2. CASE k = n + 1
      <4>1. n \in 1 .. N /\ n < N /\ m \in 1 .. n
        BY <1>2, <2>2, <3>2
      <4>2. place(n + 1) > place(n) /\ place(n) \in Nat /\ place(n + 1) \in Nat /\ place(m) \in Nat
        <5>1. n + 1 \in 1 .. N /\ m \in 1 .. N
          BY <1>2, <2>2
        <5> QED
          BY <1>3, <4>1, <5>1
      <4>3. m = n \/ (m < n /\ n \in 1 .. n)
        BY <4>1
      <4>4. m = n \/ place(m) < place(n)
        BY <1>5, <4>1, <4>3
      <4> QED
        BY <3>2, <4>2, <4>4
    <3> QED
      BY <1>2, <2>2, <3>1, <3>2
  <2> QED
    BY <2>1, <2>2
<1>6. N \in S
  <2>1. \A n \in 0 .. N : n \in S
    <3> HIDE DEF S
    <3> QED
      BY <1>2, <1>4, <1>5, Loop
  <2> QED
    BY <1>2, <2>1
<1> QED
  BY <1>6 DEF place, N

\* No mark is inside of what is marked.
LEMMA HitUnmarked ==
    ASSUME NEW A, NEW runes \in Seq(A), NEW ts \in Queries, NEW i \in Found(runes, ts), NEW n \in Nat,
           i < n, n < Past(runes, ts, i)
    PROVE  ~Begins(runes, ts, n + 1) /\ ~Ends(runes, ts, n)
<1>1. /\ \A j \in Found(runes, ts) : j \in Nat /\ Hit(runes, ts, j)
      /\ \A j, k \in Found(runes, ts) : j < k => Past(runes, ts, j) <= k
  BY FoundFacts
<1>2. \A j \in Found(runes, ts) : Past(runes, ts, j) \in Nat /\ j < Past(runes, ts, j)
  <2> TAKE j \in Found(runes, ts)
  <2>1. Past(runes, ts, j) \in j + 1 .. Len(runes) /\ j \in Nat
    BY <1>1, LongestFacts
  <2> QED
    BY <2>1
<1>3. ~Begins(runes, ts, n + 1)
  <2> SUFFICES ASSUME Begins(runes, ts, n + 1) PROVE FALSE
    OBVIOUS
  <2>1. (n + 1) - 1 = n
    OBVIOUS
  <2>2. n \in Found(runes, ts)
    BY <2>1 DEF Begins
  <2> QED
    BY <1>1, <1>2, <2>2
<1>4. ~Ends(runes, ts, n)
  <2> SUFFICES ASSUME Ends(runes, ts, n) PROVE FALSE
    OBVIOUS
  <2>1. PICK j \in Found(runes, ts) : n = Past(runes, ts, j)
    BY DEF Ends
  <2>2. i \in Nat /\ j \in Nat /\ j < n
    BY <1>1, <1>2, <2>1
  <2>3. CASE j = i
    BY <1>2, <2>1, <2>3
  <2>4. CASE j < i
    BY <1>1, <2>1, <2>2, <2>4
  <2>5. CASE i < j
    BY <1>1, <1>2, <2>1, <2>2, <2>5
  <2> QED
    BY <2>2, <2>3, <2>4, <2>5
<1> QED
  BY <1>3, <1>4

\* The runes of a hit are one after the other between its marks.
MarksHit(runes, ts, s, i, n, L) ==
    /\ i \in Nat /\ L \in Nat /\ L > 0 /\ i + L <= Len(runes)
    /\ n \in Nat /\ n > 0 /\ n + L + 1 <= Len(s) /\ s[n] = Mark /\ s[n + L + 1] = EndMark
    /\ \A k \in 1 .. L : s[n + k] = runes[i + k] /\ Place(runes, ts, i + k) = n + k

LEMMA MarkShows ==
    ASSUME NEW A, NEW runes \in Seq(A), NEW ts \in Queries, NEW s, s = Marked(runes, ts),
           NEW i \in Found(runes, ts), NEW n, n = Place(runes, ts, i + 1) - 1,
           NEW L, L = Past(runes, ts, i) - i
    PROVE  MarksHit(runes, ts, s, i, n, L)
<1> DEFINE N == Len(runes)
           place(m) == Place(runes, ts, m)
           S == {k \in 0 .. L - 1 : place(i + (k + 1)) = n + (k + 1)}
<1>1. i \in Nat /\ Hit(runes, ts, i)
  BY FoundFacts
<1>2. Past(runes, ts, i) \in i + 1 .. N /\ N \in Nat
  BY <1>1, LongestFacts
<1>3. L \in Nat /\ L > 0 /\ i + L <= N /\ Past(runes, ts, i) = i + L
  BY <1>1, <1>2
<1>4. Len(s) \in Nat /\ \A m \in 1 .. N : IsPlaced(runes, ts, m, s)
  BY MarkedPlaces
<1>5. \A m \in 1 .. N :
        /\ place(m) \in 1 .. Len(s) /\ s[place(m)] = runes[m]
        /\ m < N => place(m + 1) = place(m) + After(runes, ts, m) + Before(runes, ts, m + 1) + 1
  BY <1>4 DEF IsPlaced
<1>6. n \in Nat /\ n > 0 /\ s[n] = Mark /\ place(i + 1) = n + 1
  <2>1. i + 1 \in 1 .. N /\ (i + 1) - 1 = i
    BY <1>1, <1>3
  <2>2. Begins(runes, ts, i + 1) /\ IsPlaced(runes, ts, i + 1, s)
    BY <1>4, <2>1 DEF Begins
  <2>3. place(i + 1) - 1 \in 1 .. Len(s) /\ s[place(i + 1) - 1] = Mark /\ place(i + 1) \in 1 .. Len(s)
    BY <2>2 DEF IsPlaced
  <2> HIDE DEF place
  <2>4. place(i + 1) - 1 = n
    BY DEF place
  <2> QED
    BY <1>4, <2>3, <2>4
<1> HIDE DEF place, N
<1>7. ASSUME NEW k \in 0 .. L - 2, place(i + (k + 1)) = n + (k + 1)
      PROVE  place(i + ((k + 1) + 1)) = n + ((k + 1) + 1)
  <2>1. PICK m \in 1 .. N : m = i + (k + 1) /\ m < N /\ m + 1 = i + ((k + 1) + 1) /\ i < m /\ m < i + L
    <3>1. /\ i + (k + 1) \in 1 .. N /\ i + (k + 1) < N /\ (i + (k + 1)) + 1 = i + ((k + 1) + 1)
          /\ i < i + (k + 1) /\ i + (k + 1) < i + L
      BY <1>1, <1>2, <1>3
    <3> QED
      BY <3>1
  <2>2. ~Begins(runes, ts, m + 1) /\ ~Ends(runes, ts, m)
    <3>1. m \in Nat /\ i < m /\ m < Past(runes, ts, i)
      BY <1>3, <2>1
    <3> QED
      BY <3>1, HitUnmarked
  <2>3. After(runes, ts, m) = 0 /\ Before(runes, ts, m + 1) = 0
    BY <2>2 DEF After, Before
  <2>4. place(m + 1) = place(m) + After(runes, ts, m) + Before(runes, ts, m + 1) + 1 /\ place(m) \in Nat
    BY <1>5, <2>1
  <2>5. place(m + 1) = place(m) + 1
    BY <2>3, <2>4
  <2>6. place(m) = n + (k + 1)
    BY <1>7, <2>1
  <2> QED
    BY <1>6, <2>1, <2>5, <2>6
<1>8. \A k \in 0 .. L - 1 : place(i + (k + 1)) = n + (k + 1)
  <2>1. 0 \in S
    <3>1. i + (0 + 1) = i + 1 /\ n + (0 + 1) = n + 1 /\ 0 \in 0 .. L - 1
      BY <1>1, <1>3, <1>6
    <3> QED
      BY <1>6, <3>1
  <2>2. ASSUME NEW k \in 0 .. (L - 1) - 1, k \in S PROVE k + 1 \in S
    <3>1. k \in 0 .. L - 2 /\ k + 1 \in 0 .. L - 1
      BY <1>3
    <3>2. place(i + (k + 1)) = n + (k + 1)
      BY <2>2
    <3>3. place(i + ((k + 1) + 1)) = n + ((k + 1) + 1)
      BY <1>7, <3>1, <3>2
    <3> QED
      BY <3>1, <3>3
  <2>3. \A k \in 0 .. L - 1 : k \in S
    <3> HIDE DEF S
    <3>1. L - 1 \in Nat
      BY <1>3
    <3> QED
      BY <2>1, <2>2, <3>1, Loop
  <2> QED
    BY <2>3
<1>9. \A k \in 1 .. L : s[n + k] = runes[i + k] /\ place(i + k) = n + k
  <2> TAKE k \in 1 .. L
  <2>1. k - 1 \in 0 .. L - 1 /\ (k - 1) + 1 = k /\ i + k \in 1 .. N
    BY <1>1, <1>2, <1>3
  <2>2. place(i + k) = n + k
    BY <1>8, <2>1
  <2> QED
    BY <1>5, <2>1, <2>2
<1>10. n + L + 1 <= Len(s) /\ s[n + L + 1] = EndMark
  <2>1. i + L \in 1 .. N /\ L \in 1 .. L
    BY <1>1, <1>2, <1>3
  <2>2. Ends(runes, ts, i + L)
    BY <1>3 DEF Ends
  <2>3. IsPlaced(runes, ts, i + L, s)
    BY <1>4, <2>1
  <2>4. place(i + L) + 1 \in 1 .. Len(s) /\ s[place(i + L) + 1] = EndMark
    BY <2>2, <2>3 DEF IsPlaced, place
  <2>5. place(i + L) = n + L
    BY <1>9, <2>1
  <2> QED
    BY <1>4, <2>4, <2>5
<1> QED
  BY <1>1, <1>3, <1>6, <1>9, <1>10 DEF place, N, MarksHit

\* Without the marks, what there is from a mark on is what there was.
LEMMA UnmarkedRest ==
    ASSUME NEW A, NEW runes \in Seq(A), Mark \notin A, EndMark \notin A, NEW ts,
           NEW s, s = Marked(runes, ts), NEW m \in 1 .. Len(runes), Begins(runes, ts, m),
           NEW n, n = Place(runes, ts, m) - 1
    PROVE  Unmarked(SubSeq(s, n + 1, Len(s))) = SubSeq(runes, m, Len(runes))
<1> DEFINE p == MarkPieces(runes, ts)
           N == Len(runes)
           B == A \cup {Mark, EndMark}
           first == SubSeq(p, 1, m - 1)
           last == SubSeq(p, m, N)
           tail == SubSeq(runes, m, N)
           rest == SubSeq(s, n + 1, Len(s))
           out == {Mark, EndMark}
<1>1. /\ p \in Seq(Seq(B)) /\ Len(p) = N /\ N \in Nat /\ m \in Nat /\ m > 0 /\ m <= N
      /\ \A k \in 1 .. N : p[k] = MarkPiece(runes, ts, k)
  <2>1. N \in Nat /\ m \in Nat /\ m > 0 /\ m <= N
    OBVIOUS
  <2>2. p \in Seq(Seq(B)) /\ Len(p) = N
    BY MarkPiecesSeq
  <2>3. \A k \in 1 .. N : p[k] = MarkPiece(runes, ts, k)
    BY MarkPiecesSeq
  <2> QED
    BY <2>1, <2>2, <2>3
<1>2. Len(s) \in Nat /\ s \in Seq(B) /\ IsPlaced(runes, ts, m, s)
  BY MarkedPlaces
<1>3. n \in 1 .. Len(s) /\ s[n] = Mark
  BY <1>2 DEF IsPlaced
<1>4. Ahead(p, m) = n - 1
  <2>1. Place(runes, ts, m) = Ahead(p, m) + Before(runes, ts, m) + 1
    BY DEF Place
  <2>2. Before(runes, ts, m) = 1
    BY DEF Before
  <2>3. Ahead(p, m) \in Nat
    <3>1. m \in 1 .. Len(p) + 1
      BY <1>1
    <3> HIDE DEF p
    <3> QED
      BY <1>1, <3>1, JoinedSteps
  <2> HIDE DEF p
  <2> QED
    BY <2>1, <2>2, <2>3
<1>5. s = Joined(p)
  BY MarkedIsJoined
<1>6. \A k \in 1 .. N : Without(p[k], out) = IF runes[k] \in out THEN <<>> ELSE <<runes[k]>>
  <2> TAKE k \in 1 .. N
  <2>1. PICK o : o = out
    OBVIOUS
  <2>2. {Mark, EndMark} \subseteq o
    BY <2>1
  <2>3. Without(MarkPiece(runes, ts, k), o) = IF runes[k] \in o THEN <<>> ELSE <<runes[k]>>
    BY <2>2, WithoutPiece
  <2>4. p[k] = MarkPiece(runes, ts, k)
    BY <1>1
  <2> HIDE DEF p, out
  <2> QED
    BY <2>1, <2>3, <2>4
<1> HIDE DEF p
<1>7. /\ first \in Seq(Seq(B)) /\ Len(first) = m - 1
      /\ \A k \in 1 .. m - 1 : first[k] = p[k]
  BY <1>1
<1>8. /\ last \in Seq(Seq(B)) /\ Len(last) = N - m + 1
      /\ \A k \in 1 .. N - m + 1 : last[k] = p[m + k - 1]
  <2>1. p \in Seq(Seq(B)) /\ Len(p) = N /\ N \in Nat /\ m \in 1 .. N
    BY <1>1
  <2> HIDE DEF B, N
  <2>2. last \in Seq(Seq(B)) /\ Len(last) = N - m + 1
    BY <2>1
  <2>3. \A k \in 1 .. N - m + 1 : last[k] = p[m + k - 1]
    BY <2>1
  <2> QED
    BY <2>2, <2>3
<1>9. /\ tail \in Seq(A) /\ Len(tail) = N - m + 1
      /\ \A k \in 1 .. N - m + 1 : tail[k] = runes[m + k - 1] /\ m + k - 1 \in 1 .. N
  BY <1>1
<1>10. /\ rest \in Seq(B) /\ Len(rest) = Len(s) - n
       /\ \A k \in 1 .. Len(s) - n : rest[k] = s[n + k]
  BY <1>2, <1>3
<1> HIDE DEF first, last, tail, rest, B, N
<1>11. p = first \o last
  <2> DEFINE both == first \o last
  <2>1. /\ both \in Seq(Seq(B)) /\ Len(both) = (m - 1) + (N - m + 1)
        /\ \A k \in 1 .. (m - 1) + (N - m + 1) :
             both[k] = IF k <= m - 1 THEN first[k] ELSE last[k - (m - 1)]
    <3>1. first \in Seq(Seq(B)) /\ last \in Seq(Seq(B))
      BY <1>7, <1>8
    <3>2. /\ both \in Seq(Seq(B)) /\ Len(both) = Len(first) + Len(last)
          /\ \A k \in 1 .. Len(first) + Len(last) :
               both[k] = IF k <= Len(first) THEN first[k] ELSE last[k - Len(first)]
      BY <3>1, ConcatProperties
    <3>3. Len(first) = m - 1 /\ Len(last) = N - m + 1
      BY <1>7, <1>8
    <3> HIDE DEF both
    <3> QED
      BY <3>2, <3>3
  <2> HIDE DEF both
  <2>2. Len(both) = N /\ (m - 1) + (N - m + 1) = N
    BY <1>1, <2>1
  <2>3. ASSUME NEW k \in 1 .. N PROVE both[k] = p[k]
    <3>1. CASE k <= m - 1
      <4>1. k \in 1 .. m - 1
        BY <1>1, <3>1
      <4> QED
        BY <1>7, <2>1, <2>2, <3>1, <4>1
    <3>2. CASE ~(k <= m - 1)
      <4>1. k - (m - 1) \in 1 .. N - m + 1 /\ m + (k - (m - 1)) - 1 = k
        BY <1>1, <3>2
      <4>2. last[k - (m - 1)] = p[k]
        BY <1>8, <4>1
      <4> QED
        BY <2>1, <2>2, <3>2, <4>2
    <3> QED
      BY <3>1, <3>2
  <2>4. both = p
    BY <1>1, <2>1, <2>2, <2>3, SeqEqual
  <2> QED
    BY <2>4 DEF both
<1>12. PICK f : f = Joined(first)
  OBVIOUS
<1>13. PICK l : l = Joined(last)
  OBVIOUS
<1>14. f \in Seq(B) /\ l \in Seq(B)
  BY <1>7, <1>8, <1>12, <1>13, JoinedFacts
<1>15. s = Cat(f, l) /\ Len(f) = n - 1
  <2>1. Joined(first \o last) = Cat(Joined(first), Joined(last))
    BY <1>7, <1>8, JoinedApart
  <2>2. JoinedTo(first \o last)[Len(first)] = Joined(first)
    BY <1>7, <1>8, JoinedApart
  <2>3. JoinedTo(p)[m - 1] = f
    BY <1>7, <1>11, <1>12, <2>2
  <2> QED
    BY <1>4, <1>5, <1>11, <1>12, <1>13, <2>1, <2>3 DEF Ahead
<1>16. Len(s) = Len(f) + Len(l) /\ Len(l) \in Nat /\ \A k \in 1 .. Len(l) : s[Len(f) + k] = l[k]
  <2>1. Len(Cat(f, l)) = Len(f) + Len(l) /\ Len(l) \in Nat
    BY <1>14, CatFacts
  <2>2. \A k \in 1 .. Len(l) : Cat(f, l)[Len(f) + k] = l[k]
    BY <1>14, CatElements
  <2> QED
    BY <1>15, <2>1, <2>2
<1>17. l = Cat(<<Mark>>, rest)
  <2>1. PICK d : d = <<Mark>>
    OBVIOUS
  <2>2. d \in Seq(B) /\ Len(d) = 1 /\ d[1] = Mark
    BY <2>1 DEF B
  <2>3. PICK c : c = Cat(d, rest)
    OBVIOUS
  <2>4. c \in Seq(B) /\ Len(c) = 1 + (Len(s) - n)
    <3>1. Cat(d, rest) \in Seq(B) /\ Len(Cat(d, rest)) = Len(d) + Len(rest)
      BY <1>10, <2>2, CatFacts
    <3> QED
      BY <1>10, <2>2, <2>3, <3>1
  <2>5. c[1] = Mark /\ \A k \in 1 .. Len(s) - n : c[1 + k] = s[n + k]
    <3>1. /\ \A k \in 1 .. Len(d) : Cat(d, rest)[k] = d[k]
          /\ \A k \in 1 .. Len(rest) : Cat(d, rest)[Len(d) + k] = rest[k]
      <4>1. d \in Seq(B) /\ rest \in Seq(B)
        BY <1>10, <2>2
      <4> QED
        BY <4>1, CatElements
    <3>2. 1 \in 1 .. Len(d)
      BY <2>2
    <3> QED
      BY <1>10, <2>2, <2>3, <3>1, <3>2
  <2>6. Len(l) = Len(c)
    BY <1>2, <1>3, <1>15, <1>16, <2>4
  <2>7. ASSUME NEW k \in 1 .. Len(c) PROVE l[k] = c[k]
    <3>1. k \in 1 .. Len(l) /\ Len(f) + k = n + (k - 1)
      BY <1>3, <1>15, <1>16, <2>6
    <3>2. l[k] = s[n + (k - 1)]
      BY <1>16, <3>1
    <3>3. CASE k = 1
      <4>1. n + (k - 1) = n
        BY <1>3, <3>3
      <4> QED
        BY <1>3, <2>5, <3>2, <3>3, <4>1
    <3>4. CASE k # 1
      <4>1. k - 1 \in 1 .. Len(s) - n /\ 1 + (k - 1) = k
        BY <1>2, <1>3, <2>4, <3>4
      <4>2. c[1 + (k - 1)] = s[n + (k - 1)]
        BY <2>5, <4>1
      <4> QED
        BY <3>2, <4>1, <4>2
    <3> QED
      BY <3>3, <3>4
  <2>8. l = c
    BY <1>14, <2>4, <2>6, <2>7, SeqEqual
  <2> QED
    BY <2>1, <2>3, <2>8
<1>18. Without(l, out) = tail
  <2>1. DOMAIN last = DOMAIN tail /\ DOMAIN tail = 1 .. N - m + 1
    BY <1>8, <1>9
  <2>2. \A k \in DOMAIN tail : Without(last[k], out) = IF tail[k] \in out THEN <<>> ELSE <<tail[k]>>
    BY <1>6, <1>8, <1>9, <2>1
  <2>3. \A k \in DOMAIN tail : tail[k] \notin out
    BY <1>9
  <2> HIDE DEF out
  <2>4. Without(Joined(last), out) = Without(tail, out)
    BY <1>8, <1>9, <2>1, <2>2, WithoutPieces
  <2>5. Without(tail, out) = tail
    BY <1>9, <2>3, WithoutNone
  <2> QED
    BY <1>13, <2>4, <2>5
<1>19. Without(rest, out) = tail
  <2>1. <<Mark>> \in Seq(B)
    BY DEF B
  <2>2. Without(<<Mark>>, out) = <<>>
    <3>1. Mark \in out
      OBVIOUS
    <3> QED
      BY <3>1, WithoutOne
  <2> HIDE DEF out
  <2>3. Without(Cat(<<Mark>>, rest), out) = Cat(Without(<<Mark>>, out), Without(rest, out))
    <3>1. PICK d : d = <<Mark>>
      OBVIOUS
    <3>2. d \in Seq(B) /\ rest \in Seq(B)
      BY <1>10, <2>1, <3>1
    <3>3. Without(Cat(d, rest), out) = Cat(Without(d, out), Without(rest, out))
      BY <3>2, WithoutCat
    <3> QED
      BY <3>1, <3>3, Zenon
  <2>4. Without(rest, out) \in Seq(B)
    BY <1>10, WithoutCat
  <2>5. Cat(<<>>, Without(rest, out)) = Without(rest, out)
    BY <2>4, CatFacts
  <2> QED
    BY <1>17, <1>18, <2>2, <2>3, <2>5
<1> QED
  BY <1>19 DEF Unmarked, out, rest, tail, N

RunsFrom(runes, ts, s, n, L, i) ==
    /\ i + L <= Len(runes)
    /\ \A k \in 1 .. L : Place(runes, ts, i + k) = n + k /\ s[n + k] = runes[i + k]

\* The runes of a term that is found in what is marked are one after the other in what
\* there was.
LEMMA RunsOn ==
    ASSUME NEW A, NEW runes \in Seq(A), NEW ts, NEW s, s = Marked(runes, ts), NEW n \in Nat,
           NEW L \in Nat, L > 0, n + L <= Len(s),
           \A k \in 1 .. L : s[n + k] # Mark /\ s[n + k] # EndMark
    PROVE  \E i \in Nat : RunsFrom(runes, ts, s, n, L, i)
<1> DEFINE N == Len(runes)
           place(m) == Place(runes, ts, m)
<1>1. /\ Len(s) \in Nat /\ N \in Nat
      /\ \A m \in 1 .. N : IsPlaced(runes, ts, m, s)
      /\ \A j \in 1 .. Len(s) : \E m \in 1 .. N : IsAt(runes, ts, m, j)
  <2>1. N \in Nat
    OBVIOUS
  <2>2. /\ Len(s) \in Nat /\ s \in Seq(A \cup {Mark, EndMark})
        /\ \A m \in 1 .. Len(runes) : IsPlaced(runes, ts, m, s)
        /\ \A j \in 1 .. Len(s) : \E m \in 1 .. Len(runes) : IsAt(runes, ts, m, j)
    BY MarkedPlaces
  <2> QED
    BY <2>1, <2>2
<1>2. \A m \in 1 .. N : place(m) \in 1 .. Len(s) /\ s[place(m)] = runes[m]
  BY <1>1 DEF IsPlaced
<1>3. \A m, k \in 1 .. N : m < k => place(m) < place(k)
  BY PlaceOrder
<1>4. ASSUME NEW k \in 1 .. L PROVE \E m \in 1 .. N : n + k = place(m)
  <2>1. n + k \in 1 .. Len(s) /\ s[n + k] # Mark /\ s[n + k] # EndMark
    <3>1. n + k \in 1 .. Len(s)
      BY <1>1
    <3>2. s[n + k] # Mark /\ s[n + k] # EndMark
      OBVIOUS
    <3> QED
      BY <3>1, <3>2
  <2>2. PICK j : j = n + k
    OBVIOUS
  <2>3. PICK m \in 1 .. N : IsAt(runes, ts, m, j)
    BY <1>1, <2>1, <2>2
  <2>4. IsPlaced(runes, ts, m, s)
    BY <1>1
  <2>5. Begins(runes, ts, m) /\ j = place(m) - 1 => s[j] = Mark
    BY <2>4 DEF IsPlaced
  <2>6. Ends(runes, ts, m) /\ j = place(m) + 1 => s[j] = EndMark
    BY <2>4 DEF IsPlaced
  <2>7. j = place(m)
    BY <2>1, <2>2, <2>3, <2>5, <2>6 DEF IsAt
  <2> QED
    BY <2>2, <2>7
<1> HIDE DEF place, N
<1>5. PICK i \in Nat : i + 1 \in 1 .. N /\ n + 1 = place(i + 1)
  <2>1. 1 \in 1 .. L
    OBVIOUS
  <2>2. PICK m \in 1 .. N : n + 1 = place(m)
    BY <1>4, <2>1
  <2>3. m - 1 \in Nat /\ (m - 1) + 1 = m
    BY <1>1
  <2> QED
    BY <2>2, <2>3
<1> DEFINE S == {k \in 0 .. L - 1 : i + (k + 1) \in 1 .. N /\ place(i + (k + 1)) = n + (k + 1)}
<1>6. 0 \in S
  <2>1. 0 + 1 = 1 /\ 0 \in 0 .. L - 1
    OBVIOUS
  <2> QED
    BY <1>5, <2>1
<1>7. ASSUME NEW k \in 0 .. (L - 1) - 1, k \in S PROVE k + 1 \in S
  <2>1. k + 1 \in 0 .. L - 1 /\ k \in Nat /\ (k + 1) + 1 \in 1 .. L
    OBVIOUS
  <2>2. PICK a \in 1 .. N : a = i + (k + 1) /\ place(a) = n + (k + 1)
    BY <1>7
  <2>3. PICK b \in 1 .. N : n + ((k + 1) + 1) = place(b)
    BY <1>4, <2>1
  <2>4. a < b
    <3> SUFFICES ASSUME ~(a < b) PROVE FALSE
      OBVIOUS
    <3>1. a = b \/ b < a
      BY <1>1
    <3>2. place(b) = place(a) \/ place(b) < place(a)
      BY <1>3, <3>1
    <3> QED
      BY <2>1, <2>2, <2>3, <3>2
  <2>5. b = a + 1
    <3> SUFFICES ASSUME b # a + 1 PROVE FALSE
      OBVIOUS
    <3>1. a + 1 \in 1 .. N /\ a < a + 1 /\ a + 1 < b
      BY <1>1, <2>4
    <3>2. place(a) < place(a + 1) /\ place(a + 1) < place(b) /\ place(a + 1) \in Nat
      BY <1>2, <1>3, <3>1
    <3> QED
      BY <2>1, <2>2, <2>3, <3>2
  <2>6. b = i + ((k + 1) + 1)
    BY <1>5, <2>1, <2>2, <2>5
  <2> QED
    BY <2>1, <2>3, <2>6
<1>8. \A k \in 0 .. L - 1 : k \in S
  <2>1. L - 1 \in Nat
    OBVIOUS
  <2> HIDE DEF S
  <2> QED
    BY <1>6, <1>7, <2>1, Loop
<1>9. ASSUME NEW k \in 1 .. L
      PROVE  i + k \in 1 .. N /\ place(i + k) = n + k /\ s[n + k] = runes[i + k]
  <2>1. k - 1 \in 0 .. L - 1 /\ (k - 1) + 1 = k
    OBVIOUS
  <2>2. i + k \in 1 .. N /\ place(i + k) = n + k
    BY <1>8, <2>1
  <2> QED
    BY <1>2, <2>2
<1>10. i + L <= N
  <2>1. L \in 1 .. L
    OBVIOUS
  <2> QED
    BY <1>1, <1>9, <2>1
<1> QED
  BY <1>9, <1>10 DEF place, N, RunsFrom

\* No term is left unmarked.
LEMMA OutsideUnhit ==
    ASSUME NEW A, NEW runes \in Seq(A), Mark \notin A, EndMark \notin A, NEW ts \in Queries,
           NEW s, s = Marked(runes, ts), NEW n \in 0 .. Len(s),
           \A m \in 1 .. n : s[m] = Mark => \E k \in m .. n : s[k] = EndMark,
           NEW term \in ts, At(SubSeq(s, n + 1, Len(s)), term, 0)
    PROVE  FALSE
<1> DEFINE N == Len(runes)
           place(m) == Place(runes, ts, m)
           past(j) == Past(runes, ts, j)
           L == Len(term)
           rest == SubSeq(s, n + 1, Len(s))
<1>1. /\ Len(s) \in Nat /\ N \in Nat /\ s \in Seq(A \cup {Mark, EndMark})
      /\ \A m \in 1 .. N : IsPlaced(runes, ts, m, s)
      /\ \A j \in 1 .. Len(s) : \E m \in 1 .. N : IsAt(runes, ts, m, j)
  <2>1. N \in Nat
    OBVIOUS
  <2>2. /\ Len(s) \in Nat /\ s \in Seq(A \cup {Mark, EndMark})
        /\ \A m \in 1 .. Len(runes) : IsPlaced(runes, ts, m, s)
        /\ \A j \in 1 .. Len(s) : \E m \in 1 .. Len(runes) : IsAt(runes, ts, m, j)
    BY MarkedPlaces
  <2> QED
    BY <2>1, <2>2
<1>2. \A m \in 1 .. N : place(m) \in 1 .. Len(s) /\ s[place(m)] = runes[m] /\ runes[m] \in A
  <2> TAKE m \in 1 .. N
  <2>1. IsPlaced(runes, ts, m, s)
    BY <1>1
  <2>2. runes[m] \in A
    OBVIOUS
  <2> QED
    BY <2>1, <2>2, Zenon DEF IsPlaced, place
<1>3. \A m, k \in 1 .. N : m < k => place(m) < place(k)
  BY PlaceOrder
<1>4. L \in Nat /\ L > 0 /\ n \in Nat
  BY <1>1, TermFacts
<1>5. rest \in Seq(A \cup {Mark, EndMark}) /\ Len(rest) = Len(s) - n /\ \A k \in 1 .. Len(s) - n : rest[k] = s[n + k]
  BY <1>1
<1>6. At(rest, term, 0)
  OBVIOUS
<1> HIDE DEF rest, place, N, L
<1>7. n + L <= Len(s)
  BY <1>1, <1>4, <1>5, <1>6 DEF At, L
<1>8. \A k \in 1 .. L : s[n + k] \in Letters /\ ToLower(s[n + k]) = term[k]
  <2> TAKE k \in 1 .. L
  <2>1. 0 + k = k /\ k \in 1 .. Len(s) - n /\ 0 \in Nat
    BY <1>1, <1>4, <1>7
  <2>2. rest[k] = s[n + k]
    BY <1>5, <2>1
  <2>3. rest[0 + k] \in Letters
    BY <1>6, <2>1, HitLetters DEF L
  <2>4. ToLower(rest[0 + k]) = term[k]
    BY <1>6 DEF At, L
  <2> QED
    BY <2>1, <2>2, <2>3, <2>4
<1>9. PICK i \in Nat : /\ i + L <= N
                       /\ \A k \in 1 .. L : place(i + k) = n + k /\ s[n + k] = runes[i + k]
  <2>1. \A k \in 1 .. L : s[n + k] # Mark /\ s[n + k] # EndMark
    BY <1>8, RunesAssumption
  <2>2. \E i \in Nat : RunsFrom(runes, ts, s, n, L, i)
    BY <1>4, <1>7, <2>1, RunsOn
  <2> QED
    BY <2>2 DEF place, N, RunsFrom
<1>10. Hit(runes, ts, i)
  <2>1. i + Len(term) <= Len(runes) /\ \A k \in 1 .. Len(term) : ToLower(runes[i + k]) = term[k]
    BY <1>8, <1>9 DEF L, N
  <2> QED
    BY <2>1 DEF Hit, At
<1>11. PICK j \in Found(runes, ts) : j <= i /\ i < past(j)
  BY <1>10, FoundFacts
<1>12. j \in Nat /\ Hit(runes, ts, j)
  BY FoundFacts
<1>13. past(j) \in Nat /\ past(j) <= N
  <2>1. past(j) \in j + 1 .. N
    BY <1>12, LongestFacts DEF N
  <2> QED
    BY <1>1, <1>12, <2>1
<1> DEFINE open == place(j + 1) - 1
<1>14. /\ j + 1 \in 1 .. N /\ i + 1 \in 1 .. N /\ place(i + 1) = n + 1
       /\ place(j + 1) \in 1 .. Len(s)
  <2>1. 1 \in 1 .. L
    BY <1>4
  <2>2. j + 1 \in 1 .. N /\ i + 1 \in 1 .. N
    BY <1>1, <1>4, <1>9, <1>11, <1>12, <1>13
  <2> QED
    BY <1>2, <1>9, <2>1, <2>2
<1>15. s[open] = Mark /\ open \in 1 .. n
  <2>1. Begins(runes, ts, j + 1)
    <3>1. (j + 1) - 1 = j
      BY <1>12
    <3> QED
      BY <3>1 DEF Begins
  <2>2. IsPlaced(runes, ts, j + 1, s)
    BY <1>1, <1>14
  <2>3. open \in 1 .. Len(s) /\ s[open] = Mark
    BY <2>1, <2>2 DEF IsPlaced, place
  <2>4. place(j + 1) <= n + 1
    <3>1. j = i \/ j + 1 < i + 1
      BY <1>11, <1>12
    <3> QED
      BY <1>3, <1>14, <1>4, <3>1
  <2> QED
    BY <1>1, <1>4, <1>14, <2>3, <2>4
<1>16. PICK k \in open .. n : s[k] = EndMark
  BY <1>15
<1>17. Mark # EndMark
  BY DEF Mark, EndMark
<1>18. k \in 1 .. Len(s) /\ k # open /\ k # place(j + 1)
  <2>1. k \in 1 .. Len(s)
    BY <1>1, <1>15, <1>16
  <2>2. k # open
    BY <1>15, <1>16, <1>17
  <2>3. k # place(j + 1)
    BY <1>2, <1>14, <1>16
  <2> QED
    BY <2>1, <2>2, <2>3
<1>19. PICK q \in 1 .. N : IsAt(runes, ts, q, k)
  BY <1>1, <1>18
<1>20. Ends(runes, ts, q) /\ k = place(q) + 1
  <2>1. IsPlaced(runes, ts, q, s)
    BY <1>1
  <2>2. Begins(runes, ts, q) /\ k = place(q) - 1 => s[k] = Mark
    BY <2>1 DEF IsPlaced, place
  <2>3. k = place(q) => s[k] \in A
    BY <1>2
  <2> QED
    BY <1>16, <1>17, <1>19, <2>2, <2>3 DEF IsAt, place
<1>21. j < q /\ q <= i
  <2>1. k >= open /\ k <= n /\ place(q) \in Nat /\ k \in Nat
    BY <1>2, <1>15, <1>16, <1>18
  <2>2. place(q) < place(i + 1)
    BY <1>4, <1>14, <1>20, <2>1
  <2>3. place(q) >= place(j + 1)
    <3>1. PICK a \in Nat : a = place(j + 1)
      BY <1>1, <1>14
    <3>2. k >= a - 1 /\ k # a - 1 /\ k # a
      BY <1>18, <2>1, <3>1
    <3> HIDE DEF open
    <3>3. k - 1 >= a /\ k - 1 = place(q)
      BY <1>20, <2>1, <3>2
    <3> QED
      BY <3>1, <3>3
  <2>4. q < i + 1
    <3> SUFFICES ASSUME ~(q < i + 1) PROVE FALSE
      OBVIOUS
    <3>1. q = i + 1 \/ i + 1 < q
      BY <1>1, <1>9
    <3>2. place(q) = place(i + 1) \/ place(i + 1) < place(q)
      BY <1>3, <1>14, <3>1
    <3> QED
      BY <1>4, <1>14, <2>1, <2>2, <3>2
  <2>5. ~(q < j + 1)
    <3> SUFFICES ASSUME q < j + 1 PROVE FALSE
      OBVIOUS
    <3>1. place(q) < place(j + 1)
      BY <1>3, <1>14
    <3> QED
      BY <1>14, <2>1, <2>3, <3>1
  <2> QED
    BY <1>1, <1>9, <1>12, <2>4, <2>5
<1>22. q \in Nat /\ q < past(j)
  BY <1>1, <1>9, <1>11, <1>13, <1>21
<1> HIDE DEF open
<1>23. ~Ends(runes, ts, q)
  BY <1>21, <1>22, HitUnmarked
<1> QED
  BY <1>20, <1>23

\* A mark marks a term, and the longest that begins where it does.
LEMMA MarkIsTerm ==
    ASSUME NEW A, NEW runes \in Seq(A), Mark \notin A, EndMark \notin A, NEW ts \in Queries,
           NEW s, s = Marked(runes, ts), NEW n \in 1 .. Len(s), s[n] = Mark,
           NEW rest, rest = SubSeq(s, n + 1, Len(s))
    PROVE  \E term \in ts :
             /\ At(rest, term, 0) /\ rest[Len(term) + 1] = EndMark
             /\ \A longer \in ts : At(Unmarked(rest), longer, 0) => Len(longer) <= Len(term)
<1> DEFINE N == Len(runes)
<1>1. /\ Len(s) \in Nat /\ N \in Nat /\ s \in Seq(A \cup {Mark, EndMark})
      /\ \A m \in 1 .. N : IsPlaced(runes, ts, m, s)
      /\ \A j \in 1 .. Len(s) : \E m \in 1 .. N : IsAt(runes, ts, m, j)
  <2>1. N \in Nat
    OBVIOUS
  <2>2. /\ Len(s) \in Nat /\ s \in Seq(A \cup {Mark, EndMark})
        /\ \A m \in 1 .. Len(runes) : IsPlaced(runes, ts, m, s)
        /\ \A j \in 1 .. Len(s) : \E m \in 1 .. Len(runes) : IsAt(runes, ts, m, j)
    BY MarkedPlaces
  <2> QED
    BY <2>1, <2>2
<1>2. PICK m \in 1 .. N : IsAt(runes, ts, m, n)
  BY <1>1
<1>3. Begins(runes, ts, m) /\ n = Place(runes, ts, m) - 1
  <2>1. IsPlaced(runes, ts, m, s)
    BY <1>1
  <2>2. n = Place(runes, ts, m) => s[n] \in A
    BY <2>1 DEF IsPlaced
  <2>3. Ends(runes, ts, m) /\ n = Place(runes, ts, m) + 1 => s[n] = EndMark
    BY <2>1 DEF IsPlaced
  <2>4. Mark # EndMark
    BY DEF Mark, EndMark
  <2> QED
    BY <1>2, <2>2, <2>3, <2>4 DEF IsAt
<1>4. PICK i \in Nat : i = m - 1 /\ i + 1 = m
  <2>1. m - 1 \in Nat /\ (m - 1) + 1 = m
    BY <1>1
  <2> QED
    BY <2>1
<1>5. i \in Found(runes, ts) /\ Hit(runes, ts, i)
  <2>1. i \in Found(runes, ts)
    BY <1>3, <1>4 DEF Begins
  <2> QED
    BY <2>1, FoundFacts
<1>6. PICK term \in ts : At(runes, term, i) /\ Past(runes, ts, i) = i + Len(term)
  BY <1>5, LongestFacts
<1>7. Len(term) \in Nat /\ Len(term) > 0
  BY TermFacts
<1>8. PICK L : L = Past(runes, ts, i) - i
  OBVIOUS
<1>8a. L = Len(term)
  BY <1>4, <1>6, <1>7, <1>8
<1>9. /\ n + L + 1 <= Len(s) /\ s[n + L + 1] = EndMark
      /\ \A k \in 1 .. L : s[n + k] = runes[i + k] /\ Place(runes, ts, i + k) = n + k
  <2>1. n = Place(runes, ts, i + 1) - 1
    BY <1>3, <1>4
  <2>2. MarksHit(runes, ts, s, i, n, L)
    BY <1>5, <1>8, <2>1, MarkShows
  <2> QED
    BY <2>2 DEF MarksHit
<1>10. Len(rest) = Len(s) - n /\ \A k \in 1 .. Len(s) - n : rest[k] = s[n + k]
  BY <1>1
<1>11. At(rest, term, 0) /\ rest[Len(term) + 1] = EndMark
  <2>0. L \in Nat /\ n \in Nat
    BY <1>7, <1>8a
  <2>1. 0 + L <= Len(rest) /\ L + 1 \in 1 .. Len(s) - n /\ n + (L + 1) = n + L + 1
    BY <1>1, <1>9, <1>10, <2>0
  <2>2. ASSUME NEW k \in 1 .. L PROVE ToLower(rest[0 + k]) = term[k]
    <3>1. k \in 1 .. Len(s) - n /\ 0 + k = k
      BY <1>1, <1>9, <2>0
    <3>2. rest[0 + k] = runes[i + k]
      BY <1>9, <1>10, <3>1
    <3>3. ToLower(runes[i + k]) = term[k]
      BY <1>6, <1>8a DEF At
    <3> QED
      BY <3>2, <3>3
  <2>3. rest[L + 1] = EndMark
    BY <1>9, <1>10, <2>1
  <2> QED
    BY <1>8a, <2>1, <2>2, <2>3 DEF At
<1>12. ASSUME NEW longer \in ts, At(Unmarked(rest), longer, 0) PROVE Len(longer) <= Len(term)
  <2>1. PICK u : u = SubSeq(runes, m, N)
    OBVIOUS
  <2>2. Unmarked(rest) = u
    <3>1. Unmarked(SubSeq(s, n + 1, Len(s))) = SubSeq(runes, m, Len(runes))
      BY <1>3, UnmarkedRest
    <3> QED
      BY <2>1, <3>1
  <2>3. Len(u) = N - i /\ \A k \in 1 .. N - i : u[k] = runes[i + k]
    BY <1>1, <1>4, <2>1
  <2>4. Len(longer) \in Nat /\ Len(longer) > 0
    BY TermFacts
  <2>5. At(u, longer, 0)
    BY <1>12, <2>2
  <2>6. i + Len(longer) <= N
    BY <1>1, <2>3, <2>4, <2>5 DEF At
  <2>7. ASSUME NEW k \in 1 .. Len(longer) PROVE ToLower(runes[i + k]) = longer[k]
    <3>1. 0 + k = k /\ k \in 1 .. N - i
      BY <1>1, <2>4, <2>6
    <3>2. ToLower(u[0 + k]) = longer[k]
      BY <2>5 DEF At
    <3> QED
      BY <2>3, <3>1, <3>2
  <2>8. At(runes, longer, i)
    BY <2>6, <2>7 DEF At
  <2>9. i + Len(longer) <= Past(runes, ts, i)
    BY <1>5, <2>8, LongestFacts
  <2> QED
    BY <1>6, <1>7, <2>4, <2>9
<1> QED
  BY <1>11, <1>12

\* Every mark is of a term, the longest there is, and no term is without one.
THEOREM MarkedWholeHolds == Spec => []MarkedWhole
<1>1. IInv => MarkedWhole
  <2> SUFFICES ASSUME IInv, Made PROVE MarkedWhole
    BY DEF MarkedWhole
  <2>1. /\ text \in Seq(Runes) /\ terms \in Queries /\ length \in Nat /\ length > 2
        /\ snippet = MakeSnippet(text, terms, length)
    BY AskedFacts DEF Made
  <2>2. PICK e \in Seq(Runes) : snippet = Marked(e, terms)
    BY <2>1, SnippetFacts DEF MakeSnippet
  <2>3. Mark \notin Runes /\ EndMark \notin Runes
    BY RuneFacts
  <2>4. Len(snippet) \in Nat
    BY <2>2, MarkedPlaces
  <2>5. ASSUME NEW n \in 0 .. Len(snippet)
        PROVE  LET rest == SubSeq(snippet, n + 1, Len(snippet))
               IN  /\ n > 0 /\ snippet[n] = Mark =>
                        \E term \in terms :
                          /\ At(rest, term, 0) /\ rest[Len(term) + 1] = EndMark
                          /\ \A longer \in terms : At(Unmarked(rest), longer, 0) => Len(longer) <= Len(term)
                   /\ Outside(n) => \A term \in terms : ~At(rest, term, 0)
    <3> DEFINE rest == SubSeq(snippet, n + 1, Len(snippet))
    <3>1. ASSUME n > 0, snippet[n] = Mark
          PROVE  \E term \in terms :
                   /\ At(rest, term, 0) /\ rest[Len(term) + 1] = EndMark
                   /\ \A longer \in terms : At(Unmarked(rest), longer, 0) => Len(longer) <= Len(term)
      <4>1. n \in 1 .. Len(snippet)
        BY <2>4, <3>1
      <4> QED
        BY <2>1, <2>2, <2>3, <3>1, <4>1, MarkIsTerm
    <3>2. ASSUME Outside(n), NEW term \in terms, At(rest, term, 0) PROVE FALSE
      BY <2>1, <2>2, <2>3, <3>2, OutsideUnhit DEF Outside
    <3> QED
      BY <3>1, <3>2
  <2> QED
    BY <2>5 DEF MarkedWhole
<1> QED
  BY <1>1, Invariance, PTL

-----------------------------------------------------------------------------
\* Where the first hit of a text is, of its window, of what is escaped of that, and of
\* the snippet.

\* where the n-th rune is, or what escapes it begins
EscPlace(runes, n) == Ahead(EscapePieces(runes), n) + 1

IsEscaped(runes, n, s) ==
    /\ EscPlace(runes, n) \in 1 .. Len(s) /\ s[EscPlace(runes, n)] = runes[n]
    /\ runes[n] = Amp => s[EscPlace(runes, n) + 4] = ";"
    /\ n < Len(runes) /\ runes[n] = Amp => EscPlace(runes, n + 1) = EscPlace(runes, n) + 5
    /\ n < Len(runes) /\ runes[n] # Amp => EscPlace(runes, n + 1) = EscPlace(runes, n) + 1
    /\ n = Len(runes) /\ runes[n] # Amp => Len(s) = EscPlace(runes, n)

LEMMA EscapedPlaces ==
    ASSUME NEW A, NEW runes \in Seq(A), NEW s, s = Escaped(runes)
    PROVE  /\ Len(s) \in Nat
           /\ Len(runes) > 0 => EscPlace(runes, 1) = 1
           /\ \A n \in 1 .. Len(runes) : IsEscaped(runes, n, s)
<1> DEFINE B == A \cup {Amp} \cup Escapes
<1>1. PICK p : p = EscapePieces(runes)
  OBVIOUS
<1>2. p \in Seq(Seq(B)) /\ Len(p) = Len(runes)
  BY <1>1, EscapePiecesSeq
<1>3. \A n \in 1 .. Len(runes) : p[n] = IF runes[n] = Amp THEN Entity ELSE <<runes[n]>>
  BY <1>1, EscapePiecesSeq
<1>4. s = Joined(p)
  BY <1>1 DEF Escaped, EscapePieces
<1> HIDE DEF B
<1>5. s \in Seq(B) /\ Len(s) = Ahead(p, Len(p) + 1)
  BY <1>2, <1>4, JoinedFacts
<1>6. \A n \in 1 .. Len(p) : \A k \in 1 .. Len(p[n]) : Ahead(p, n) + k \in 1 .. Len(s)
  BY <1>2, <1>4, JoinedFacts
<1>7. \A n \in 1 .. Len(p) : \A k \in 1 .. Len(p[n]) : s[Ahead(p, n) + k] = p[n][k]
  BY <1>2, <1>4, JoinedFacts
<1>8. /\ Ahead(p, 1) = 0
      /\ \A n \in 1 .. Len(p) : Ahead(p, n) \in Nat
      /\ \A n \in 1 .. Len(p) : Ahead(p, n + 1) = Ahead(p, n) + Len(p[n])
  <2>1. /\ Ahead(p, 1) = 0
        /\ \A n \in 1 .. Len(p) + 1 : Ahead(p, n) \in Nat
        /\ \A n \in 1 .. Len(p) : Ahead(p, n + 1) = Ahead(p, n) + Len(p[n])
    BY <1>2, JoinedSteps
  <2>2. \A n \in 1 .. Len(p) : n \in 1 .. Len(p) + 1
    BY <1>2
  <2> QED
    BY <2>1, <2>2
<1>9. \A n : EscPlace(runes, n) = Ahead(p, n) + 1
  BY <1>1 DEF EscPlace
<1>10. Len(s) \in Nat /\ Len(p) \in Nat
  BY <1>2, <1>5
<1>11. ASSUME NEW n \in 1 .. Len(runes), runes[n] = Amp PROVE IsEscaped(runes, n, s)
  <2>1. p[n] = Entity /\ Len(Entity) = 5 /\ Entity[1] = Amp /\ Entity[5] = ";"
    BY <1>3, <1>11, EntityFacts DEF Entity, Amp
  <2>2. 1 \in 1 .. 5 /\ 5 \in 1 .. 5
    OBVIOUS
  <2>3. n \in 1 .. Len(p)
    BY <1>2
  <2>4. Len(p[n]) = 5 /\ p[n][1] = Amp /\ p[n][5] = ";"
    BY <2>1
  <2>5. Ahead(p, n) + 1 \in 1 .. Len(s)
    BY <1>6, <2>2, <2>3, <2>4
  <2>6. s[Ahead(p, n) + 1] = Amp /\ s[Ahead(p, n) + 5] = ";"
    BY <1>7, <2>2, <2>3, <2>4
  <2>7. PICK a \in Nat : a = Ahead(p, n)
    BY <1>8, <2>3
  <2>8. Ahead(p, n + 1) = a + 5
    BY <1>8, <2>3, <2>4, <2>7
  <2>9. (a + 1) + 4 = a + 5 /\ (a + 5) + 1 = (a + 1) + 5
    OBVIOUS
  <2>10. EscPlace(runes, n) = a + 1 /\ EscPlace(runes, n + 1) = (a + 1) + 5
    BY <1>9, <2>7, <2>8, <2>9
  <2>11. a + 1 \in 1 .. Len(s) /\ s[a + 1] = Amp /\ s[(a + 1) + 4] = ";"
    BY <2>5, <2>6, <2>7, <2>9
  <2> QED
    BY <1>11, <2>10, <2>11 DEF IsEscaped
<1>12. ASSUME NEW n \in 1 .. Len(runes), runes[n] # Amp PROVE IsEscaped(runes, n, s)
  <2>1. n \in 1 .. Len(p) /\ 1 \in 1 .. 1
    BY <1>2
  <2>2. p[n] = <<runes[n]>>
    BY <1>3, <1>12
  <2>3. Len(p[n]) = 1 /\ p[n][1] = runes[n]
    BY <2>2
  <2>4. Ahead(p, n) + 1 \in 1 .. Len(s)
    BY <1>6, <2>1, <2>3
  <2>5. s[Ahead(p, n) + 1] = runes[n]
    BY <1>7, <2>1, <2>3
  <2>6. PICK a \in Nat : a = Ahead(p, n)
    BY <1>8, <2>1
  <2>7. Ahead(p, n + 1) = a + 1
    BY <1>8, <2>1, <2>3, <2>6
  <2>8. EscPlace(runes, n) = a + 1 /\ EscPlace(runes, n + 1) = (a + 1) + 1
    BY <1>9, <2>6, <2>7
  <2>9. n = Len(runes) => Len(s) = a + 1
    BY <1>2, <1>5, <2>7
  <2>10. a + 1 \in 1 .. Len(s) /\ s[a + 1] = runes[n]
    BY <2>4, <2>5, <2>6
  <2> QED
    BY <1>12, <2>8, <2>9, <2>10 DEF IsEscaped
<1>13. EscPlace(runes, 1) = 1
  BY <1>8, <1>9
<1> QED
  BY <1>10, <1>11, <1>12, <1>13

\* No letter is one that is escaped, or that is not of a text.
LEMMA LetterFacts ==
    ASSUME NEW r \in Letters
    PROVE  r # Amp /\ r # ";" /\ r # Ellipsis /\ r # Space
BY RunesAssumption

LettersAt(s, i, L) == i + L <= Len(s) /\ \A k \in 1 .. L : s[i + k] \in Letters

SameRun(runes, s, c, i, L) ==
    /\ c + L <= Len(runes) /\ i + L <= Len(s)
    /\ \A k \in 1 .. L : runes[c + k] = s[i + k]

\* What is between the first letter of a hit and the last is one after the other in
\* what is escaped as well.
LEMMA EscapedRun ==
    ASSUME NEW A, NEW runes \in Seq(A), NEW s, s = Escaped(runes), NEW c \in Nat,
           NEW L \in Nat, L > 0, NEW i \in Nat, c + 1 \in 1 .. Len(runes), EscPlace(runes, c + 1) = i + 1,
           LettersAt(runes, c, L) \/ LettersAt(s, i, L)
    PROVE  SameRun(runes, s, c, i, L)
<1> DEFINE N == Len(runes)
           place(n) == EscPlace(runes, n)
           S == {k \in 0 .. L - 1 : c + (k + 1) \in 1 .. N /\ place(c + (k + 1)) = i + (k + 1)}
<1>1. Len(s) \in Nat /\ N \in Nat /\ \A n \in 1 .. N : IsEscaped(runes, n, s)
  BY EscapedPlaces
<1>2. \A n \in 1 .. N :
        /\ place(n) \in 1 .. Len(s) /\ s[place(n)] = runes[n]
        /\ n < N /\ runes[n] # Amp => place(n + 1) = place(n) + 1
        /\ n = N /\ runes[n] # Amp => Len(s) = place(n)
  BY <1>1 DEF IsEscaped
<1>3. c + 1 \in 1 .. N /\ place(c + 1) = i + 1
  OBVIOUS
<1>4. \/ c + L <= N /\ \A k \in 1 .. L : runes[c + k] \in Letters
      \/ i + L <= Len(s) /\ \A k \in 1 .. L : s[i + k] \in Letters
  BY DEF LettersAt
<1> HIDE DEF N, place
<1>5. ASSUME NEW k \in 0 .. (L - 1) - 1, k \in S PROVE k + 1 \in S
  <2>1. k \in Nat /\ k + 1 \in 1 .. L /\ k + 1 < L /\ k + 1 \in 0 .. L - 1
    OBVIOUS
  <2>2. PICK n \in 1 .. N : n = c + (k + 1) /\ place(n) = i + (k + 1)
    BY <1>5
  <2>3. s[i + (k + 1)] = runes[c + (k + 1)] /\ runes[n] = runes[c + (k + 1)]
    BY <1>2, <2>2
  <2>4. runes[n] \in Letters
    BY <1>4, <2>1, <2>3
  <2>5. runes[n] # Amp
    BY <2>4, LetterFacts
  <2>6. n < N
    <3>1. CASE c + L <= N
      BY <1>1, <2>1, <2>2, <3>1
    <3>2. CASE i + L <= Len(s)
      <4>1. n = N => Len(s) = i + (k + 1)
        BY <1>2, <2>2, <2>5
      <4>2. Len(s) # i + (k + 1)
        BY <1>1, <2>1, <3>2
      <4> QED
        BY <1>1, <4>1, <4>2
    <3> QED
      BY <1>4, <3>1, <3>2
  <2>7. place(n + 1) = (i + (k + 1)) + 1
    BY <1>2, <2>2, <2>5, <2>6
  <2>8. n + 1 = c + ((k + 1) + 1) /\ (i + (k + 1)) + 1 = i + ((k + 1) + 1) /\ n + 1 \in 1 .. N
    BY <1>1, <2>1, <2>2, <2>6
  <2> QED
    BY <2>1, <2>7, <2>8
<1>6. 0 \in S
  <2>1. 0 + 1 = 1 /\ 0 \in 0 .. L - 1
    OBVIOUS
  <2> QED
    BY <1>3, <2>1
<1>7. \A k \in 0 .. L - 1 : k \in S
  <2>1. L - 1 \in Nat
    OBVIOUS
  <2> HIDE DEF S
  <2> QED
    BY <1>5, <1>6, <2>1, Loop
<1>8. ASSUME NEW k \in 1 .. L PROVE c + k \in 1 .. N /\ i + k \in 1 .. Len(s) /\ runes[c + k] = s[i + k]
  <2>1. k - 1 \in 0 .. L - 1 /\ (k - 1) + 1 = k
    OBVIOUS
  <2>2. c + k \in 1 .. N /\ place(c + k) = i + k
    BY <1>7, <2>1
  <2> QED
    BY <1>2, <2>2
<1>9. c + L <= N /\ i + L <= Len(s)
  <2>1. L \in 1 .. L
    OBVIOUS
  <2> QED
    BY <1>1, <1>8, <2>1
<1> QED
  BY <1>8, <1>9 DEF N, SameRun

\* So the first hit is found in what is escaped, and is not in another one.
LEMMA FirstEscapedHit ==
    ASSUME NEW A, NEW runes \in Seq(A), NEW s, s = Escaped(runes), NEW B, s \in Seq(B),
           NEW ts \in Queries, NEW term \in ts, NEW c \in Nat, At(runes, term, c),
           \A h \in Nat : Hit(runes, ts, h) => c <= h
    PROVE  \E i \in Found(s, ts) : At(s, term, i)
<1> DEFINE N == Len(runes)
           place(n) == EscPlace(runes, n)
<1>1. Len(s) \in Nat /\ N \in Nat /\ \A n \in 1 .. N : IsEscaped(runes, n, s)
  BY EscapedPlaces
<1>2. N > 0 => place(1) = 1
  BY EscapedPlaces
<1>3. \A n \in 1 .. N :
        /\ place(n) \in 1 .. Len(s) /\ s[place(n)] = runes[n]
        /\ runes[n] = Amp => s[place(n) + 4] = ";"
        /\ n < N /\ runes[n] = Amp => place(n + 1) = place(n) + 5
        /\ n < N /\ runes[n] # Amp => place(n + 1) = place(n) + 1
  BY <1>1 DEF IsEscaped
<1>4. Len(term) \in Nat /\ Len(term) > 0 /\ c + Len(term) <= N /\ c + 1 \in 1 .. N
  <2>1. Len(term) \in Nat /\ Len(term) > 0
    BY TermFacts
  <2>2. c + Len(term) <= N
    BY DEF At
  <2> QED
    BY <1>1, <2>1, <2>2
<1>5. PICK i \in Nat : place(c + 1) = i + 1 /\ i < Len(s)
  <2>1. place(c + 1) \in 1 .. Len(s)
    BY <1>3, <1>4
  <2> HIDE DEF place
  <2>2. place(c + 1) - 1 \in Nat /\ place(c + 1) = (place(c + 1) - 1) + 1 /\ place(c + 1) - 1 < Len(s)
    BY <1>1, <2>1
  <2> QED
    BY <2>2
<1>6. At(s, term, i)
  <2>1. \A k \in 1 .. Len(term) : runes[c + k] \in Letters
    BY HitLetters
  <2>2. LettersAt(runes, c, Len(term))
    BY <1>4, <2>1 DEF LettersAt
  <2>3. EscPlace(runes, c + 1) = i + 1
    BY <1>5
  <2>4. c + 1 \in 1 .. Len(runes)
    BY <1>4
  <2>5. Len(term) \in Nat /\ Len(term) > 0
    BY <1>4
  <2>6. SameRun(runes, s, c, i, Len(term))
    BY <2>2, <2>3, <2>4, <2>5, EscapedRun
  <2>7. \A k \in 1 .. Len(term) : ToLower(runes[c + k]) = term[k]
    BY DEF At
  <2> QED
    BY <2>6, <2>7 DEF At, SameRun
<1>7. PICK j \in Found(s, ts) : j <= i /\ i < Past(s, ts, j)
  <2>1. Hit(s, ts, i)
    BY <1>6 DEF Hit
  <2> QED
    BY <2>1, FoundFacts
<1>8. j \in Nat /\ Hit(s, ts, j)
  BY FoundFacts
<1>9. PICK u \in ts : At(s, u, j) /\ Past(s, ts, j) = j + Len(u)
  BY <1>8, LongestFacts
<1>10. /\ Len(u) \in Nat /\ Len(u) > 0 /\ i < j + Len(u) /\ j + Len(u) <= Len(s)
       /\ \A k \in 1 .. Len(u) : s[j + k] \in Letters /\ ToLower(s[j + k]) = u[k]
  <2>1. Len(u) \in Nat /\ Len(u) > 0
    BY TermFacts
  <2>2. i < j + Len(u)
    BY <1>7, <1>9
  <2>3. \A k \in 1 .. Len(u) : s[j + k] \in Letters
    BY <1>8, <1>9, HitLetters
  <2> QED
    BY <1>9, <2>1, <2>2, <2>3 DEF At
<1> SUFFICES ASSUME j # i PROVE FALSE
  BY <1>6
<1> DEFINE K == i - j
           S == {m \in 0 .. K : m <= c /\ place((c - m) + 1) = (i - m) + 1}
<1>11. K \in Nat /\ K > 0 /\ K < Len(u) /\ j + K = i
  BY <1>7, <1>8, <1>10
<1> HIDE DEF K, place, N
<1>12. ASSUME NEW m \in 0 .. K - 1, m \in S PROVE m + 1 \in S
  <2>1. m \in Nat /\ m < K /\ m <= c /\ place((c - m) + 1) = (i - m) + 1
    BY <1>11, <1>12
  <2>2. PICK k \in 1 .. Len(u) : k = K - m /\ j + k = i - m /\ j + k > 0
    <3>1. K - m \in 1 .. Len(u) /\ j + (K - m) = i - m /\ j + (K - m) > 0
      BY <1>8, <1>10, <1>11, <2>1
    <3> QED
      BY <3>1
  <2>3. s[i - m] \in Letters
    BY <1>10, <2>2
  <2>4. m # c
    <3> SUFFICES ASSUME m = c PROVE FALSE
      OBVIOUS
    <3>1. (c - m) + 1 = 1 /\ N > 0
      BY <1>1, <1>4
    <3>2. (i - m) + 1 = 1
      BY <1>2, <2>1, <3>1
    <3> QED
      BY <1>8, <2>2, <3>2
  <2>5. PICK n \in 1 .. N : n = c - m /\ n < N /\ n + 1 = (c - m) + 1
    <3>1. c - m \in 1 .. N /\ c - m < N
      BY <1>1, <1>4, <2>1, <2>4
    <3> QED
      BY <3>1
  <2>6. place(n + 1) = (i - m) + 1 /\ place(n) \in Nat
    <3>1. place(n + 1) = (i - m) + 1
      BY <2>1, <2>5, Zenon
    <3>2. place(n) \in 1 .. Len(s)
      BY <1>3
    <3>3. place(n) \in Nat
      BY <1>1, <3>2
    <3> QED
      BY <3>1, <3>3
  <2>7. runes[n] # Amp
    <3> SUFFICES ASSUME runes[n] = Amp PROVE FALSE
      OBVIOUS
    <3>1. place(n + 1) = place(n) + 5
      BY <1>3, <2>5
    <3>2. place(n) + 4 = i - m
      BY <2>1, <2>6, <3>1
    <3>3. s[place(n) + 4] = ";"
      BY <1>3
    <3>4. s[i - m] = ";"
      BY <3>2, <3>3
    <3> QED
      BY <2>3, <3>4, LetterFacts
  <2>8. place(n + 1) = place(n) + 1
    BY <1>3, <2>5, <2>7
  <2>9. place(n) = i - m
    BY <2>1, <2>6, <2>8
  <2>10. (c - (m + 1)) + 1 = n /\ (i - (m + 1)) + 1 = i - m /\ m + 1 <= c /\ m + 1 \in 0 .. K
    BY <1>11, <2>1, <2>4, <2>5
  <2> QED
    BY <2>9, <2>10
<1>13. 0 \in S
  <2>1. (c - 0) + 1 = c + 1 /\ (i - 0) + 1 = i + 1 /\ 0 \in 0 .. K /\ 0 <= c
    BY <1>11
  <2> QED
    BY <1>5, <2>1
<1>14. K \in S
  <2> HIDE DEF S
  <2>1. \A m \in 0 .. K : m \in S
    BY <1>11, <1>12, <1>13, Loop
  <2>2. K \in 0 .. K
    BY <1>11
  <2> QED
    BY <2>1, <2>2
<1>15. PICK b \in Nat : b = c - K /\ b < c /\ b + 1 \in 1 .. N /\ place(b + 1) = j + 1
  <2>1. K <= c /\ place((c - K) + 1) = (i - K) + 1
    BY <1>14
  <2>2. c - K \in Nat /\ c - K < c /\ (c - K) + 1 \in 1 .. N /\ i - K = j
    BY <1>1, <1>4, <1>8, <1>11, <2>1
  <2> QED
    BY <2>1, <2>2
<1>16. b + Len(u) <= N /\ \A k \in 1 .. Len(u) : runes[b + k] = s[j + k]
  <2>1. EscPlace(runes, b + 1) = j + 1 /\ b + 1 \in 1 .. Len(runes)
    BY <1>15 DEF place, N
  <2>2. LettersAt(s, j, Len(u))
    BY <1>10 DEF LettersAt
  <2>3. b \in Nat /\ j \in Nat /\ Len(u) \in Nat /\ Len(u) > 0
    BY <1>8, <1>10, <1>15
  <2>4. SameRun(runes, s, b, j, Len(u))
    BY <2>1, <2>2, <2>3, EscapedRun
  <2> QED
    BY <2>4 DEF N, SameRun
<1>17. Hit(runes, ts, b)
  <2>1. \A k \in 1 .. Len(u) : ToLower(runes[b + k]) = u[k]
    BY <1>10, <1>16
  <2> QED
    BY <1>16, <2>1 DEF Hit, At, N
<1>18. c <= b
  BY <1>15, <1>17
<1> QED
  BY <1>15, <1>18

\* What there is of a text in its window, from the rune after the start on.
ShowsPart(t, w, start, stop, d) ==
    /\ d \in {0, 1} /\ Len(w) \in Nat /\ start \in Nat /\ stop \in start .. Len(t) /\ Len(t) \in Nat
    /\ d + (stop - start) <= Len(w)
    /\ \A n \in 1 .. stop - start : w[d + n] = t[start + n]
    /\ \A n \in 1 .. Len(w) : n \in d + 1 .. d + (stop - start) \/ w[n] = Ellipsis

LEMMA WindowShows ==
    ASSUME NEW t \in Seq(Runes), NEW ts, NEW len \in Nat, NEW start, NEW stop,
           ShownOf(t, ts, len, start, stop), NEW w, w = Window(t, ts, len)
    PROVE  \E d : ShowsPart(t, w, start, stop, d)
<1> DEFINE P == Runes
<1>1. PICK body : body = SubSeq(t, start + 1, stop)
  OBVIOUS
<1>2. PICK a : a = Dots(start > 0)
  OBVIOUS
<1>3. PICK z : z = Dots(stop < Len(t))
  OBVIOUS
<1>4. /\ start \in Nat /\ stop \in start .. Len(t) /\ Len(t) \in Nat
      /\ w = Cat(Cat(a, body), z)
  <2>1. Len(t) \in Nat
    OBVIOUS
  <2>2. /\ start \in 0 .. Len(t) /\ stop \in start .. Len(t)
        /\ w = Cat(Cat(Dots(start > 0), SubSeq(t, start + 1, stop)), Dots(stop < Len(t)))
    BY DEF ShownOf
  <2> QED
    BY <1>1, <1>2, <1>3, <2>1, <2>2
<1>5. /\ body \in Seq(P) /\ Len(body) = stop - start
      /\ \A n \in 1 .. stop - start : body[n] = t[start + n]
  <2>1. t \in Seq(P)
    OBVIOUS
  <2> HIDE DEF P
  <2> QED
    BY <1>1, <1>4, <2>1
<1>6. ASSUME NEW some, NEW x, x = Dots(some)
      PROVE  x \in Seq(P) /\ Len(x) \in {0, 1} /\ \A n \in 1 .. Len(x) : x[n] = Ellipsis
  <2>1. x \in Seq(P)
    BY <1>6, DotsFacts, RuneFacts
  <2> HIDE DEF P
  <2>2. CASE some
    <3>1. x = <<Ellipsis>>
      BY <1>6, <2>2 DEF Dots
    <3> QED
      BY <2>1, <3>1
  <2>3. CASE ~some
    <3>1. x = <<>>
      BY <1>6, <2>3 DEF Dots
    <3> QED
      BY <2>1, <3>1
  <2> QED
    BY <2>2, <2>3
<1>7. a \in Seq(P) /\ Len(a) \in {0, 1} /\ \A n \in 1 .. Len(a) : a[n] = Ellipsis
  BY <1>2, <1>6
<1>8. z \in Seq(P) /\ Len(z) \in {0, 1} /\ \A n \in 1 .. Len(z) : z[n] = Ellipsis
  BY <1>3, <1>6
<1> HIDE DEF P
<1>9. PICK x : x = Cat(a, body)
  OBVIOUS
<1>10. x \in Seq(P) /\ Len(x) = Len(a) + Len(body)
  BY <1>5, <1>7, <1>9, CatFacts
<1>11. (\A n \in 1 .. Len(a) : x[n] = a[n]) /\ \A n \in 1 .. Len(body) : x[Len(a) + n] = body[n]
  BY <1>5, <1>7, <1>9, CatElements
<1>12. w = Cat(x, z) /\ Len(w) = Len(x) + Len(z)
  BY <1>4, <1>8, <1>9, <1>10, CatFacts
<1>13. (\A n \in 1 .. Len(x) : w[n] = x[n]) /\ \A n \in 1 .. Len(z) : w[Len(x) + n] = z[n]
  <2>1. x \in Seq(P) /\ z \in Seq(P)
    BY <1>8, <1>10
  <2>2. \A n \in 1 .. Len(x) : Cat(x, z)[n] = x[n]
    BY <2>1, CatElements
  <2>3. \A n \in 1 .. Len(z) : Cat(x, z)[Len(x) + n] = z[n]
    BY <2>1, CatElements
  <2> QED
    BY <1>12, <2>2, <2>3
<1>14. PICK d : d = Len(a)
  OBVIOUS
<1>15. d \in {0, 1} /\ Len(x) = d + (stop - start) /\ Len(x) \in Nat /\ Len(w) \in Nat /\ Len(x) <= Len(w)
  <2>1. d \in {0, 1} /\ Len(x) = d + (stop - start)
    BY <1>5, <1>7, <1>10, <1>14
  <2>2. Len(w) = Len(x) + Len(z) /\ Len(z) \in {0, 1}
    BY <1>8, <1>12
  <2>3. start \in Nat /\ stop \in start .. Len(t) /\ Len(t) \in Nat
    BY <1>4
  <2> HIDE DEF P
  <2> QED
    BY <2>1, <2>2, <2>3
<1>16. ASSUME NEW n \in 1 .. stop - start PROVE w[d + n] = t[start + n]
  <2>1. d + n \in 1 .. Len(x) /\ n \in 1 .. Len(body)
    BY <1>4, <1>5, <1>15
  <2>2. x[d + n] = body[n]
    BY <1>11, <1>14, <2>1
  <2> QED
    BY <1>5, <1>13, <2>1, <2>2
<1>17. ASSUME NEW n \in 1 .. Len(w), n \notin d + 1 .. d + (stop - start) PROVE w[n] = Ellipsis
  <2>1. n \in 1 .. d \/ n - Len(x) \in 1 .. Len(z)
    BY <1>4, <1>8, <1>12, <1>15, <1>17
  <2>2. CASE n \in 1 .. d
    <3>1. n \in 1 .. Len(x) /\ n \in 1 .. Len(a)
      BY <1>4, <1>14, <1>15, <2>2
    <3> QED
      BY <1>7, <1>11, <1>13, <3>1
  <2>3. CASE n - Len(x) \in 1 .. Len(z)
    <3>1. PICK k \in 1 .. Len(z) : Len(x) + k = n
      <4>1. Len(x) + (n - Len(x)) = n
        BY <1>15
      <4> QED
        BY <2>3, <4>1
    <3> QED
      BY <1>8, <1>13, <3>1
  <2> QED
    BY <2>1, <2>2, <2>3
<1>18. d + (stop - start) <= Len(w)
  BY <1>15
<1>19. ShowsPart(t, w, start, stop, d)
  BY <1>4, <1>15, <1>16, <1>17, <1>18 DEF ShowsPart
<1> QED
  BY <1>19

\* The first hit of a text is the first of its window, if it is there whole.
LEMMA FirstInWindow ==
    ASSUME NEW t, NEW w, NEW start, NEW stop, NEW d, ShowsPart(t, w, start, stop, d),
           NEW ts \in Queries, NEW term \in ts, NEW first \in Nat, At(t, term, first),
           \A h \in Nat : Hit(t, ts, h) => first <= h,
           start <= first, first + Len(term) <= stop
    PROVE  \E c \in Nat : At(w, term, c) /\ \A h \in Nat : Hit(w, ts, h) => c <= h
<1>1. /\ d \in {0, 1} /\ Len(w) \in Nat /\ start \in Nat /\ stop \in Nat /\ start <= stop
      /\ stop <= Len(t) /\ Len(t) \in Nat /\ d + (stop - start) <= Len(w)
  <2>1. /\ d \in {0, 1} /\ Len(w) \in Nat /\ start \in Nat /\ stop \in start .. Len(t)
        /\ Len(t) \in Nat /\ d + (stop - start) <= Len(w)
    BY DEF ShowsPart
  <2> QED
    BY <2>1
<1>2. \A n \in 1 .. stop - start : w[d + n] = t[start + n]
  BY DEF ShowsPart
<1>3. \A n \in 1 .. Len(w) : n \in d + 1 .. d + (stop - start) \/ w[n] = Ellipsis
  BY DEF ShowsPart
<1>4. Len(term) \in Nat /\ Len(term) > 0
  BY TermFacts
<1>5. PICK c \in Nat : c = d + (first - start)
  BY <1>1
<1>6. At(w, term, c)
  <2>1. c + Len(term) <= Len(w)
    BY <1>1, <1>4, <1>5
  <2>2. ASSUME NEW k \in 1 .. Len(term) PROVE ToLower(w[c + k]) = term[k]
    <3>1. PICK n \in 1 .. stop - start : d + n = c + k /\ start + n = first + k
      <4>1. /\ (first - start) + k \in 1 .. stop - start
            /\ d + ((first - start) + k) = c + k /\ start + ((first - start) + k) = first + k
        BY <1>1, <1>4, <1>5
      <4> QED
        BY <4>1
    <3>2. w[c + k] = t[first + k]
      BY <1>2, <3>1
    <3>3. ToLower(t[first + k]) = term[k]
      BY DEF At
    <3> QED
      BY <3>2, <3>3
  <2> QED
    BY <2>1, <2>2 DEF At
<1>7. ASSUME NEW h \in Nat, Hit(w, ts, h) PROVE c <= h
  <2>1. PICK u \in ts : At(w, u, h)
    BY <1>7 DEF Hit
  <2>2. Len(u) \in Nat /\ Len(u) > 0 /\ h + Len(u) <= Len(w)
    <3>1. Len(u) \in Nat /\ Len(u) > 0
      BY TermFacts
    <3> QED
      BY <2>1, <3>1 DEF At
  <2>3. ASSUME NEW k \in 1 .. Len(u) PROVE h + k \in d + 1 .. d + (stop - start)
    <3>1. w[h + k] \in Letters
      BY <2>1, HitLetters
    <3>2. w[h + k] # Ellipsis
      BY <3>1, LetterFacts
    <3>3. h + k \in 1 .. Len(w)
      BY <1>1, <2>2
    <3> QED
      BY <1>3, <3>2, <3>3
  <2>4. h + 1 >= d + 1
    <3>1. 1 \in 1 .. Len(u)
      BY <2>2
    <3>2. h + 1 \in d + 1 .. d + (stop - start)
      BY <2>3, <3>1
    <3> QED
      BY <1>1, <3>2
  <2>5. h + Len(u) <= d + (stop - start)
    <3>1. Len(u) \in 1 .. Len(u)
      BY <2>2
    <3>2. h + Len(u) \in d + 1 .. d + (stop - start)
      BY <2>3, <3>1
    <3> QED
      BY <1>1, <3>2
  <2>6. PICK g \in Nat : g = start + (h - d)
    BY <1>1, <2>4
  <2>7. At(t, u, g)
    <3>1. g + Len(u) <= Len(t)
      BY <1>1, <2>2, <2>5, <2>6
    <3>2. ASSUME NEW k \in 1 .. Len(u) PROVE ToLower(t[g + k]) = u[k]
      <4>1. PICK n \in 1 .. stop - start : d + n = h + k /\ start + n = g + k
        <5>1. /\ (h - d) + k \in 1 .. stop - start
              /\ d + ((h - d) + k) = h + k /\ start + ((h - d) + k) = g + k
          BY <1>1, <2>2, <2>4, <2>5, <2>6
        <5> QED
          BY <5>1
      <4>2. w[h + k] = t[g + k]
        BY <1>2, <4>1
      <4>3. ToLower(w[h + k]) = u[k]
        BY <2>1 DEF At
      <4> QED
        BY <4>2, <4>3
    <3> QED
      BY <3>1, <3>2 DEF At
  <2>8. first <= g
    BY <2>7 DEF Hit
  <2> QED
    BY <1>1, <1>5, <2>6, <2>8
<1> QED
  BY <1>6, <1>7

\* The window doesn't stop in a hit that doesn't begin past half of it or end past it.
LEMMA WindowReaches ==
    ASSUME NEW t \in Seq(Runes), NEW ts \in Queries, NEW len \in Nat, NEW start, NEW stop,
           ShownOf(t, ts, len, start, stop), NEW term \in ts, NEW first \in Nat, At(t, term, first),
           start <= first, first - start <= len \div 2 + 1, first + Len(term) - start <= len
    PROVE  first + Len(term) <= stop
<1>1. Len(t) \in Nat /\ Len(term) \in Nat /\ Len(term) > 0
  BY TermFacts
<1>2. PICK half \in Nat : half = len \div 2
  OBVIOUS
<1>3. /\ start \in Nat /\ stop \in Nat /\ start <= stop /\ stop <= Len(t)
      /\ \/ stop = Len(t) \/ stop = start + len
         \/ t[stop + 1] = Space /\ stop > start + half
  <2>1. /\ start \in 0 .. Len(t) /\ stop \in start .. Len(t)
        /\ stop < Len(t) => \/ stop = start + len
                            \/ t[stop + 1] = Space /\ stop > start + len \div 2
    BY DEF ShownOf
  <2> QED
    BY <1>1, <1>2, <2>1
<1>4. CASE stop = Len(t)
  BY <1>4 DEF At
<1>5. CASE stop = start + len
  BY <1>1, <1>3, <1>5
<1>6. CASE t[stop + 1] = Space /\ stop > start + half
  <2> SUFFICES ASSUME ~(first + Len(term) <= stop) PROVE FALSE
    OBVIOUS
  <2>1. PICK k \in 1 .. Len(term) : first + k = stop + 1
    <3>1. first - start <= half + 1
      BY <1>2
    <3>2. first <= stop
      BY <1>2, <1>3, <1>6, <3>1
    <3>3. (stop + 1) - first \in 1 .. Len(term) /\ first + ((stop + 1) - first) = stop + 1
      BY <1>1, <1>3, <3>2
    <3> QED
      BY <3>3
  <2>2. t[first + k] \in Letters
    BY HitLetters
  <2>3. t[stop + 1] \in Letters
    BY <2>1, <2>2
  <2> QED
    BY <1>6, <2>3, LetterFacts
<1> QED
  BY <1>3, <1>4, <1>5, <1>6

\* The first hit is marked where the window has it whole.
LEMMA FirstIsMarked ==
    ASSUME NEW t \in Seq(Runes), NEW ts \in Queries, NEW len \in Nat, NEW start, NEW stop,
           ShownOf(t, ts, len, start, stop), Window(t, ts, len) \in Seq(Runes),
           NEW term \in ts, NEW first \in Nat, At(t, term, first),
           \A h \in Nat : Hit(t, ts, h) => first <= h,
           start <= first, first + Len(term) <= stop, NEW s, s = MakeSnippet(t, ts, len)
    PROVE  \E n \in DOMAIN s : s[n] = Mark /\ At(SubSeq(s, n + 1, Len(s)), term, 0)
<1>1. PICK w : w = Window(t, ts, len)
  OBVIOUS
<1>2. PICK e : e = Escaped(w)
  OBVIOUS
<1>3. PICK B : B = Runes
  OBVIOUS
<1>4. w \in Seq(B)
  BY <1>1, <1>3
<1>6. e \in Seq(B)
  <2>1. Escaped(w) \in Seq(Runes \cup {Amp} \cup Escapes)
    BY <1>3, <1>4, EscapedSeq
  <2> QED
    BY <1>2, <1>3, <2>1, RuneFacts
<1>7. s = Marked(e, ts)
  BY <1>1, <1>2 DEF MakeSnippet
<1>8. PICK d : ShowsPart(t, w, start, stop, d)
  BY <1>1, WindowShows
<1>9. PICK c \in Nat : At(w, term, c) /\ \A h \in Nat : Hit(w, ts, h) => c <= h
  BY <1>8, FirstInWindow
<1>10. PICK i \in Found(e, ts) : At(e, term, i)
  BY <1>2, <1>4, <1>6, <1>9, FirstEscapedHit
<1>11. PICK n : n = Place(e, ts, i + 1) - 1
  OBVIOUS
<1>12. PICK L : L = Past(e, ts, i) - i
  OBVIOUS
<1>13. MarksHit(e, ts, s, i, n, L)
  BY <1>6, <1>7, <1>10, <1>11, <1>12, MarkShows
<1>14. /\ i \in Nat /\ L \in Nat /\ L > 0 /\ n \in Nat /\ n > 0 /\ n + L + 1 <= Len(s)
       /\ s[n] = Mark /\ \A k \in 1 .. L : s[n + k] = e[i + k]
  BY <1>13 DEF MarksHit
<1>15. Len(term) \in Nat /\ Len(term) > 0 /\ Len(term) <= L
  <2>1. Len(term) \in Nat /\ Len(term) > 0
    BY TermFacts
  <2>2. Hit(e, ts, i)
    BY <1>10 DEF Hit
  <2>3. i + Len(term) <= Past(e, ts, i) /\ Past(e, ts, i) \in i + 1 .. Len(e)
    BY <1>6, <1>10, <1>14, <2>2, LongestFacts
  <2>4. Len(e) \in Nat
    BY <1>6
  <2> QED
    BY <1>12, <1>14, <2>1, <2>3, <2>4
<1>16. s \in Seq(B \cup {Mark, EndMark}) /\ Len(s) \in Nat
  BY <1>6, <1>7, MarkedPlaces
<1>17. n \in DOMAIN s
  <2>1. DOMAIN s = 1 .. Len(s)
    BY <1>16
  <2>2. n \in 1 .. Len(s)
    BY <1>14, <1>16
  <2> QED
    BY <2>1, <2>2
<1>18. PICK rest : rest = SubSeq(s, n + 1, Len(s))
  OBVIOUS
<1>19. Len(rest) = Len(s) - n /\ \A k \in 1 .. Len(s) - n : rest[k] = s[n + k]
  BY <1>14, <1>16, <1>18
<1>20. At(rest, term, 0)
  <2>1. 0 + Len(term) <= Len(rest)
    BY <1>14, <1>15, <1>16, <1>19
  <2>2. ASSUME NEW k \in 1 .. Len(term) PROVE ToLower(rest[0 + k]) = term[k]
    <3>1. 0 + k = k /\ k \in 1 .. L /\ k \in 1 .. Len(s) - n
      BY <1>14, <1>15, <1>16
    <3>2. rest[0 + k] = e[i + k]
      BY <1>14, <1>19, <3>1
    <3>3. ToLower(e[i + k]) = term[k]
      BY <1>10 DEF At
    <3> QED
      BY <3>2, <3>3
  <2> QED
    BY <2>1, <2>2 DEF At
<1> QED
  BY <1>14, <1>17, <1>18, <1>20

\* The first term of the text is marked in its snippet, unless it begins past the first
\* half of the window or ends past it, wherever the window starts.
THEOREM HitShownHolds == Spec => []HitShown
<1>1. IInv => HitShown
  <2> SUFFICES ASSUME IInv, Made, Hits(text, terms) # {} PROVE HitShown
    BY DEF HitShown
  <2>1. /\ text \in Seq(Runes) /\ terms \in Queries /\ length \in Nat /\ length > 2
        /\ snippet = MakeSnippet(text, terms, length)
    BY AskedFacts DEF Made
  <2>2. PICK first : first = Min(Hits(text, terms))
    OBVIOUS
  <2>3. PICK lead : lead = first - length \div 4
    OBVIOUS
  <2>4. PICK start, stop \in Nat :
          /\ ShownOf(text, terms, length, start, stop)
          /\ Window(text, terms, length) \in Seq(Runes)
    BY <2>1, SnippetFacts
  <2>5. start = Start(text, terms, length)
    BY <2>4 DEF ShownOf
  <2>6. /\ first \in Hits(text, terms) /\ (\A h \in Hits(text, terms) : first <= h) /\ start <= first
        /\ \A s \in Spaces(text) : s < lead => s + 1 <= start
        /\ (\A s \in Spaces(text) : s >= lead) => lead <= start
    BY <2>1, <2>2, <2>3, <2>5, StartFacts
  <2>7. Len(text) \in Nat
    BY <2>1
  <2>8. first \in Nat
    BY <2>6, <2>7 DEF Hits
  <2>9. lead \in Int
    BY <2>1, <2>3, <2>8
  <2>10. \A h \in Nat : Hit(text, terms, h) => first <= h
    <3> TAKE h \in Nat
    <3> HAVE Hit(text, terms, h)
    <3>1. h < Len(text)
      BY <2>1, LongestFacts
    <3>2. h \in Hits(text, terms)
      BY <2>7, <3>1 DEF Hits
    <3> QED
      BY <2>6, <3>2
  <2>11. ASSUME NEW term \in terms, At(text, term, first), NEW from \in Int, from <= start,
                first - from <= length \div 2 + 1, first + Len(term) - from <= length
         PROVE  \E n \in DOMAIN snippet :
                  snippet[n] = Mark /\ At(SubSeq(snippet, n + 1, Len(snippet)), term, 0)
    <3>1. Len(term) \in Nat
      BY <2>1, TermFacts
    <3>2. PICK half \in Nat : half = length \div 2
      BY <2>1
    <3>3. first - from <= half + 1
      BY <2>11, <3>2
    <3>4. first - start <= half + 1 /\ first + Len(term) - start <= length
      BY <2>1, <2>4, <2>8, <2>11, <3>1, <3>3
    <3>5. first - start <= length \div 2 + 1
      BY <3>2, <3>4
    <3>6. first + Len(term) <= stop
      BY <2>1, <2>4, <2>6, <2>8, <2>11, <3>4, <3>5, WindowReaches
    <3> QED
      BY <2>1, <2>4, <2>6, <2>8, <2>10, <2>11, <3>6, FirstIsMarked
  <2>12. ASSUME NEW term \in {t \in terms : At(text, t, first)}
         PROVE  LET Within(from) ==
                        first - from <= length \div 2 + 1 /\ first + Len(term) - from <= length
                IN  (\/ Within(0)
                     \/ \E s \in Spaces(text) : s < lead /\ Within(s + 1)
                     \/ Within(lead) /\ \A s \in Spaces(text) : s >= lead)
                    => \E n \in DOMAIN snippet :
                        snippet[n] = Mark /\ At(SubSeq(snippet, n + 1, Len(snippet)), term, 0)
    <3> DEFINE Within(from) ==
                   first - from <= length \div 2 + 1 /\ first + Len(term) - from <= length
    <3>1. term \in terms /\ At(text, term, first)
      OBVIOUS
    <3>2. \A from \in Int : from <= start /\ Within(from) =>
            \E n \in DOMAIN snippet :
              snippet[n] = Mark /\ At(SubSeq(snippet, n + 1, Len(snippet)), term, 0)
      BY <2>11, <3>1
    <3> HIDE DEF Within
    <3>3. 0 \in Int /\ 0 <= start
      BY <2>4
    <3>4. ASSUME NEW s \in Spaces(text), s < lead PROVE s + 1 \in Int /\ s + 1 <= start
      <4>1. s \in Int
        BY <2>7 DEF Spaces
      <4> QED
        BY <2>6, <3>4, <4>1
    <3>5. (\A s \in Spaces(text) : s >= lead) => lead <= start
      BY <2>6
    <3>6. (\/ Within(0)
           \/ \E s \in Spaces(text) : s < lead /\ Within(s + 1)
           \/ Within(lead) /\ \A s \in Spaces(text) : s >= lead)
          => \E from \in Int : from <= start /\ Within(from)
      BY <2>9, <3>3, <3>4, <3>5
    <3>7. (\/ Within(0)
           \/ \E s \in Spaces(text) : s < lead /\ Within(s + 1)
           \/ Within(lead) /\ \A s \in Spaces(text) : s >= lead)
          => \E n \in DOMAIN snippet :
              snippet[n] = Mark /\ At(SubSeq(snippet, n + 1, Len(snippet)), term, 0)
      BY <3>2, <3>6
    <3> QED
      BY <3>7 DEF Within
  <2> QED
    BY <2>2, <2>3, <2>12 DEF HitShown
<1> QED
  BY <1>1, Invariance, PTL
=============================================================================
