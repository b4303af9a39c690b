--------------------------- MODULE PlanningProofs ---------------------------
(***************************************************************************)
(* How a track is cut, for any packets.  Both chunk planners, the one that *)
(* gets packets (packet/mod.rs) and the one that walks a sample table      *)
(* (container/mp4.rs), partition them: what a planner holds after n        *)
(* packets is a partition of these n if the chunk it has open is counted.  *)
(* A table that parses has packets: a place in the file and times that are *)
(* not negative for each sample its chunks have room for.                  *)
(***************************************************************************)
EXTENDS SampleTables, SequenceTheorems, WellFoundedInduction, FiniteSetTheorems, TLAPS

-----------------------------------------------------------------------------
(***************************************************************************)
(* Walks along a sequence: the functions of this code that go from element *)
(* to element have a value for each, and Total and Kept are such.          *)
(***************************************************************************)
\* Induction up to a number, for sets.
LEMMA UpTo ==
  ASSUME NEW N \in Nat, NEW P \in SUBSET (0 .. N), 0 \in P,
         \A n \in 1 .. N : n - 1 \in P => n \in P
  PROVE  P = 0 .. N
<1> DEFINE Less == {ss \in Nat \X Nat : ss[1] < ss[2]}
           Rest == (0 .. N) \ P
<1>1. SUFFICES ASSUME Rest # {} PROVE FALSE
  OBVIOUS
<1>2. IsWellFoundedOn(Less, Nat)
  BY NatLessThanWellFounded DEF OpToRel
<1>3. Rest \subseteq Nat
  OBVIOUS
<1>4. \A k, n \in Nat : k < n => <<k, n>> \in Less
  OBVIOUS
<1> HIDE DEF Less
<1>5. PICK m \in Rest : \A k \in Rest : <<k, m>> \notin Less
  BY <1>1, <1>2, <1>3, WFMin, Zenon
<1>6. m \in 1 .. N
  OBVIOUS
<1>7. m - 1 \notin Rest
  <2>1. <<m - 1, m>> \in Less
    BY <1>4, <1>6
  <2>2. QED
    BY <1>5, <2>1, Zenon
<1>8. QED
  BY <1>6, <1>7

\* A walk over 1 .. N exists, and stays among the states it starts in.
LEMMA Iteration ==
  ASSUME NEW S, NEW base \in S, NEW N \in Nat, NEW F \in [1 .. N -> [S -> S]]
  PROVE  \E f \in [0 .. N -> S] : f[0] = base /\ \A n \in 1 .. N : f[n] = F[n][f[n - 1]]
<1> DEFINE Walks(f, k) == f[0] = base /\ \A n \in 1 .. k : f[n] = F[n][f[n - 1]]
           P == {k \in 0 .. N : \E f \in [0 .. k -> S] : Walks(f, k)}
<1>1. 0 \in P
  <2>1. [n \in 0 .. 0 |-> base] \in [0 .. 0 -> S] /\ Walks([n \in 0 .. 0 |-> base], 0)
    OBVIOUS
  <2> HIDE DEF Walks
  <2>2. QED
    BY <2>1
<1>2. ASSUME NEW k \in 1 .. N, k - 1 \in P PROVE k \in P
  <2>1. PICK g \in [0 .. k - 1 -> S] : Walks(g, k - 1)
    BY <1>2
  <2> DEFINE h == [n \in 0 .. k |-> IF n = k THEN F[k][g[k - 1]] ELSE g[n]]
  <2>2. g[k - 1] \in S /\ F[k] \in [S -> S]
    OBVIOUS
  <2>3. h \in [0 .. k -> S]
    BY <2>2
  <2>4. h[0] = base
    BY <2>1
  <2>5. ASSUME NEW n \in 1 .. k PROVE h[n] = F[n][h[n - 1]]
    <3>1. CASE n = k
      BY <3>1
    <3>2. CASE n # k
      <4>1. n \in 1 .. k - 1 /\ n - 1 \in 0 .. k - 1 /\ n - 1 # k
        BY <2>5, <3>2
      <4>2. h[n] = g[n] /\ h[n - 1] = g[n - 1]
        BY <3>2, <4>1
      <4>3. QED
        BY <2>1, <4>1, <4>2
    <3>3. QED
      BY <3>1, <3>2
  <2>6. Walks(h, k)
    BY <2>4, <2>5
  <2> HIDE DEF h, Walks
  <2>7. QED
    BY <2>3, <2>6
<1>3. P = 0 .. N
  <2> HIDE DEF P
  <2>1. P \in SUBSET (0 .. N)
    BY DEF P
  <2>2. QED
    BY <1>1, <1>2, <2>1, UpTo
<1>4. N \in P
  <2> HIDE DEF P
  <2>1. QED
    BY <1>3
<1>5. QED
  <2> HIDE DEF Walks
  <2>1. PICK f \in [0 .. N -> S] : Walks(f, N)
    BY <1>4
  <2>2. QED
    BY <2>1 DEF Walks

\* What makes the steps of a walk from where it starts is that walk.
LEMMA IterationIs ==
  ASSUME NEW S, NEW base \in S, NEW N \in Nat, NEW F \in [1 .. N -> [S -> S]], NEW g,
         g[0] = base, \A n \in 1 .. N : g[n - 1] \in S => g[n] = F[n][g[n - 1]]
  PROVE  \A n \in 0 .. N : g[n] \in S /\ (n > 0 => g[n] = F[n][g[n - 1]])
<1> DEFINE P == {n \in 0 .. N : g[n] \in S}
<1>1. 0 \in P
  OBVIOUS
<1>2. ASSUME NEW n \in 1 .. N, n - 1 \in P PROVE n \in P
  <2>1. g[n] = F[n][g[n - 1]] /\ F[n] \in [S -> S]
    BY <1>2
  <2>2. QED
    BY <1>2, <2>1
<1>3. P = 0 .. N
  <2> HIDE DEF P
  <2>1. P \in SUBSET (0 .. N)
    BY DEF P
  <2>2. QED
    BY <1>1, <1>2, <2>1, UpTo
<1>4. QED
  BY <1>3

\* The running sums of numbers exist, and Total is the last one.
LEMMA Sums ==
  ASSUME NEW s, s \in Seq(Int)
  PROVE  \E sum \in [0 .. Len(s) -> Int] :
           /\ sum[0] = 0 /\ \A n \in 1 .. Len(s) : sum[n] = sum[n - 1] + s[n]
           /\ Total(s) = sum[Len(s)]
<1> DEFINE N == Len(s)
           Z == Int
           zero == 0
           F == [n \in 1 .. N |-> [x \in Z |-> x + s[n]]]
           Is(f) == f = [n \in 0 .. N |-> IF n = 0 THEN 0 ELSE f[n - 1] + s[n]]
<1>1. N \in Nat /\ zero \in Z /\ F \in [1 .. N -> [Z -> Z]]
  OBVIOUS
<1>2. \A n \in 1 .. N : n - 1 \in 0 .. N
  BY <1>1
<1>3. \A n \in 1 .. N, x \in Z : F[n][x] = x + s[n]
  OBVIOUS
<1> HIDE DEF F, N, Z, Is, zero
<1>4. PICK f \in [0 .. N -> Z] : f[0] = zero /\ \A n \in 1 .. N : f[n] = F[n][f[n - 1]]
  BY ONLY <1>1, Iteration
<1>5. Is(f)
  <2>1. \A n \in 1 .. N : f[n] = f[n - 1] + s[n]
    BY <1>2, <1>3, <1>4
  <2>2. QED
    BY <1>4, <2>1 DEF Is, N, Z, zero
<1> DEFINE sum == CHOOSE g : Is(g)
<1>6. Is(sum)
  BY <1>5
<1>7. Total(s) = sum[N]
  BY DEF Total, Is, N
<1> HIDE DEF sum
<1>8. sum[0] = 0 /\ \A n \in 1 .. N : sum[n] = sum[n - 1] + s[n]
  BY <1>1, <1>6 DEF Is
<1>9. \A n \in 0 .. N : sum[n] \in Z
  <2>1. \A n \in 1 .. N : sum[n - 1] \in Z => sum[n] = F[n][sum[n - 1]]
    BY <1>3, <1>8
  <2>2. QED
    BY <1>1, <1>8, <2>1, IterationIs DEF zero
<1>10. sum \in [0 .. N -> Z]
  BY <1>6, <1>9 DEF Is
<1>11. QED
  BY <1>7, <1>8, <1>10 DEF N, Z

\* Any running sum ends with the total.
LEMMA TotalIs ==
  ASSUME NEW s \in Seq(Int), NEW f,
         f[0] = 0, \A n \in 1 .. Len(s) : f[n] = f[n - 1] + s[n]
  PROVE  Total(s) = f[Len(s)] /\ \A n \in 0 .. Len(s) : f[n] \in Int
<1>1. PICK sum \in [0 .. Len(s) -> Int] :
        /\ sum[0] = 0 /\ \A n \in 1 .. Len(s) : sum[n] = sum[n - 1] + s[n]
        /\ Total(s) = sum[Len(s)]
  BY Sums
<1> DEFINE N == Len(s)
           P == {n \in 0 .. N : f[n] = sum[n]}
<1>2. N \in Nat
  OBVIOUS
<1>3. 0 \in P
  BY <1>1, <1>2
<1>4. ASSUME NEW n \in 1 .. N, n - 1 \in P PROVE n \in P
  BY <1>1, <1>4
<1>5. P = 0 .. N
  <2> HIDE DEF P, N
  <2>1. P \in SUBSET (0 .. N)
    BY DEF P
  <2>2. QED
    BY <1>2, <1>3, <1>4, <2>1, UpTo
<1>6. ASSUME NEW n \in 0 .. N PROVE f[n] = sum[n] /\ sum[n] \in Int
  <2> HIDE DEF N
  <2>1. n \in P
    BY <1>5
  <2>2. QED
    BY <1>1, <2>1 DEF N
<1>7. N \in 0 .. N
  BY <1>2
<1>8. QED
  BY <1>1, <1>6, <1>7

\* A sum of numbers is a number,
LEMMA TotalType ==
  ASSUME NEW s \in Seq(Int) PROVE Total(s) \in Int
BY Sums

\* of nothing is zero,
LEMMA TotalEmpty == Total(<<>>) = 0
<1>1. <<>> \in Seq(Int) /\ Len(<<>>) = 0
  OBVIOUS
<1>2. QED
  BY <1>1, Sums

\* and grows by what is appended.
LEMMA TotalAppend ==
  ASSUME NEW s \in Seq(Int), NEW x \in Int
  PROVE  Total(Append(s, x)) = Total(s) + x
<1>1. PICK sum \in [0 .. Len(s) -> Int] :
        /\ sum[0] = 0 /\ \A n \in 1 .. Len(s) : sum[n] = sum[n - 1] + s[n]
        /\ Total(s) = sum[Len(s)]
  BY Sums
<1> DEFINE t == Append(s, x)
           N == Len(s)
           f == [n \in 0 .. N + 1 |-> IF n = N + 1 THEN sum[N] + x ELSE sum[n]]
<1>2. t \in Seq(Int) /\ Len(t) = N + 1 /\ N \in Nat /\ t[N + 1] = x
      /\ \A n \in 1 .. N : t[n] = s[n]
  OBVIOUS
<1>3. f[0] = 0 /\ f[N + 1] = Total(s) + x
  BY <1>1, <1>2
<1>4. ASSUME NEW n \in 1 .. N + 1 PROVE f[n] = f[n - 1] + t[n]
  BY <1>1, <1>2
<1> HIDE DEF f, t
<1>5. Total(t) = f[N + 1]
  BY <1>2, <1>3, <1>4, TotalIs
<1>6. QED
  BY <1>3, <1>5 DEF t

\* What is at least c times as much at every place is so in total.
LEMMA TotalGrows ==
  ASSUME NEW c \in Nat, NEW s \in Seq(Int), NEW t \in Seq(Int), Len(s) = Len(t),
         \A n \in 1 .. Len(s) : c * s[n] <= t[n]
  PROVE  c * Total(s) <= Total(t)
<1>1. PICK f \in [0 .. Len(s) -> Int] :
        /\ f[0] = 0 /\ \A n \in 1 .. Len(s) : f[n] = f[n - 1] + s[n]
        /\ Total(s) = f[Len(s)]
  BY Sums
<1>2. PICK g \in [0 .. Len(t) -> Int] :
        /\ g[0] = 0 /\ \A n \in 1 .. Len(t) : g[n] = g[n - 1] + t[n]
        /\ Total(t) = g[Len(t)]
  BY Sums
<1> DEFINE N == Len(s)
           P == {n \in 0 .. N : c * f[n] <= g[n]}
<1>3. N \in Nat
  OBVIOUS
<1>4. 0 \in P
  BY <1>1, <1>2, <1>3
<1>5. ASSUME NEW n \in 1 .. N, n - 1 \in P PROVE n \in P
  <2>0. n \in 1 .. Len(s) /\ n \in 1 .. Len(t) /\ n - 1 \in 0 .. Len(s) /\ n - 1 \in 0 .. Len(t)
    BY <1>3
  <2>a. f[n - 1] \in Int /\ g[n - 1] \in Int
    BY <2>0
  <2>b. s[n] \in Int /\ t[n] \in Int
    BY <2>0
  <2>c. f[n] = f[n - 1] + s[n] /\ g[n] = g[n - 1] + t[n]
    BY <1>1, <1>2, <2>0
  <2>d. c * f[n - 1] <= g[n - 1] /\ c * s[n] <= t[n]
    BY <1>5, <2>0
  <2>1. /\ f[n - 1] \in Int /\ s[n] \in Int /\ g[n - 1] \in Int /\ t[n] \in Int
        /\ f[n] = f[n - 1] + s[n] /\ g[n] = g[n - 1] + t[n]
        /\ c * f[n - 1] <= g[n - 1] /\ c * s[n] <= t[n]
    BY <2>a, <2>b, <2>c, <2>d
  <2>2. \A a, b \in Int : c * (a + b) = c * a + c * b
    OBVIOUS
  <2>3. c * f[n] = c * f[n - 1] + c * s[n]
    BY <2>1, <2>2
  <2>4. c * f[n - 1] \in Int /\ c * s[n] \in Int
    BY <2>1, SMTT(30)
  <2>5. c * f[n] <= g[n]
    <3>1. \A a, b, x, y \in Int : a <= x /\ b <= y => a + b <= x + y
      OBVIOUS
    <3>2. c * f[n - 1] + c * s[n] <= g[n - 1] + t[n]
      BY <2>1, <2>4, <3>1
    <3>3. QED
      BY <2>1, <2>3, <3>2
  <2>6. QED
    BY <2>5
<1>6. P = 0 .. N
  <2> HIDE DEF P, N
  <2>1. P \in SUBSET (0 .. N)
    BY DEF P
  <2>2. QED
    BY <1>3, <1>4, <1>5, <2>1, UpTo
<1>7. N \in P
  BY <1>3, <1>6
<1>8. QED
  BY <1>1, <1>2, <1>7

\* The total of two sequences in a row.
LEMMA TotalConcat ==
  ASSUME NEW s \in Seq(Int), NEW t \in Seq(Int)
  PROVE  Total(s \o t) = Total(s) + Total(t)
<1>1. PICK f \in [0 .. Len(s) -> Int] :
        /\ f[0] = 0 /\ \A n \in 1 .. Len(s) : f[n] = f[n - 1] + s[n]
        /\ Total(s) = f[Len(s)]
  BY Sums
<1>2. PICK g \in [0 .. Len(t) -> Int] :
        /\ g[0] = 0 /\ \A n \in 1 .. Len(t) : g[n] = g[n - 1] + t[n]
        /\ Total(t) = g[Len(t)]
  BY Sums
<1> DEFINE M == Len(s)
           N == Len(t)
           u == s \o t
           h == [n \in 0 .. M + N |-> IF n <= M THEN f[n] ELSE f[M] + g[n - M]]
<1>3. /\ M \in Nat /\ N \in Nat /\ u \in Seq(Int) /\ Len(u) = M + N
      /\ \A n \in 1 .. M + N : u[n] = IF n <= M THEN s[n] ELSE t[n - M]
  OBVIOUS
<1>4. h[0] = 0
  BY <1>1, <1>3
<1>5. ASSUME NEW n \in 1 .. M + N PROVE h[n] = h[n - 1] + u[n]
  <2>1. CASE n <= M
    BY <1>1, <1>3, <2>1
  <2>2. CASE n = M + 1
    <3>1. h[n] = f[M] + g[1] /\ h[n - 1] = f[M] /\ u[n] = t[1]
      BY <1>3, <2>2
    <3>2. 1 \in 1 .. Len(t) /\ M \in 0 .. Len(s)
      BY <1>3, <2>2
    <3>5. g[1] = g[1 - 1] + t[1]
      BY <1>2, <3>2
    <3>6. f[M] \in Int /\ t[1] \in Int
      BY <3>2
    <3>7. 1 - 1 = 0
      OBVIOUS
    <3>4. g[1] = g[0] + t[1] /\ f[M] \in Int /\ t[1] \in Int
      BY <3>5, <3>6, <3>7, Zenon
    <3>3. QED
      BY <1>2, <3>1, <3>4
  <2>3. CASE n > M + 1
    <3>1. h[n] = f[M] + g[n - M] /\ h[n - 1] = f[M] + g[n - 1 - M] /\ u[n] = t[n - M]
      BY <1>3, <2>3
    <3>2. /\ n - M \in 1 .. N /\ n - 1 - M = (n - M) - 1 /\ (n - M) - 1 \in 0 .. N
      BY <1>3, <2>3
    <3>5. n - M \in 1 .. Len(t) /\ (n - M) - 1 \in 0 .. Len(t) /\ M \in 0 .. Len(s)
      BY <1>3, <3>2
    <3>6. \A k \in 1 .. Len(t) : g[k] = g[k - 1] + t[k] /\ t[k] \in Int
      BY <1>2
    <3>3. g[n - M] = g[(n - M) - 1] + t[n - M] /\ t[n - M] \in Int /\ f[M] \in Int
          /\ g[(n - M) - 1] \in Int
      BY <1>1, <1>2, <3>5, <3>6
    <3>4. QED
      BY <3>1, <3>2, <3>3
  <2>4. QED
    BY <1>3, <2>1, <2>2, <2>3
<1>6. h[M + N] = Total(s) + Total(t)
  <2>1. CASE N = 0
    BY <1>1, <1>2, <1>3, <2>1
  <2>2. CASE N > 0
    BY <1>1, <1>2, <1>3, <2>2
  <2>3. QED
    BY <1>3, <2>1, <2>2
<1> HIDE DEF h, u
<1>7. Total(u) = h[M + N]
  BY <1>3, <1>4, <1>5, TotalIs
<1>8. QED
  BY <1>6, <1>7 DEF u

\* What is kept of every prefix of a sequence.
Keeping(kept, s, I) ==
  /\ kept[0] = <<>>
  /\ \A n \in 1 .. Len(s) :
       kept[n] = IF n \in I THEN Append(kept[n - 1], s[n]) ELSE kept[n - 1]
  /\ Kept(s, I) = kept[Len(s)]

\* The recursive function behind Kept.
LEMMA Keeps ==
  ASSUME NEW T, NEW s \in Seq(T), NEW I
  PROVE  \E kept \in [0 .. Len(s) -> Seq(T)] : Keeping(kept, s, I)
<1> DEFINE N == Len(s)
           Z == Seq(T)
           empty == <<>>
           step(x, n) == IF n \in I THEN Append(x, s[n]) ELSE x
           F == [n \in 1 .. N |-> [x \in Z |-> step(x, n)]]
           Is(f) == f = [n \in 0 .. N |->
                           IF n = 0 THEN empty ELSE step(f[n - 1], n)]
<1>1. N \in Nat /\ empty \in Z /\ F \in [1 .. N -> [Z -> Z]]
  OBVIOUS
<1>2. \A n \in 1 .. N : n - 1 \in 0 .. N
  BY <1>1
<1>3. \A n \in 1 .. N, x \in Z : F[n][x] = step(x, n)
  OBVIOUS
<1>4. Kept(s, I) = (CHOOSE f : Is(f))[N]
  BY DEF Kept
<1> HIDE DEF F, N, Z, step, Is, empty
<1>5. PICK f \in [0 .. N -> Z] : f[0] = empty /\ \A n \in 1 .. N : f[n] = F[n][f[n - 1]]
  BY <1>1, Iteration
<1>6. Is(f)
  <2>1. \A n \in 1 .. N : f[n] = step(f[n - 1], n)
    BY <1>2, <1>3, <1>5
  <2>2. QED
    BY <1>5, <2>1 DEF Is
<1> DEFINE kept == CHOOSE g : Is(g)
<1>7. Is(kept)
  BY <1>6
<1> HIDE DEF kept
<1>8. kept[0] = empty /\ \A n \in 1 .. N : kept[n] = step(kept[n - 1], n)
  BY <1>1, <1>7 DEF Is
<1>9. \A n \in 0 .. N : kept[n] \in Z
  <2>1. \A n \in 1 .. N : kept[n - 1] \in Z => kept[n] = F[n][kept[n - 1]]
    BY <1>3, <1>8
  <2>2. QED
    BY <1>1, <1>8, <2>1, IterationIs
<1>10. kept \in [0 .. N -> Z]
  BY <1>7, <1>9 DEF Is
<1>11. QED
  BY <1>4, <1>8, <1>10 DEF N, Z, kept, step, empty, Keeping

\* What is kept of a sequence is a sequence of the same things.
LEMMA KeptType ==
  ASSUME NEW T, NEW s \in Seq(T), NEW I
  PROVE  Kept(s, I) \in Seq(T)
<1>1. Len(s) \in 0 .. Len(s)
  OBVIOUS
<1>2. QED
  BY <1>1, Keeps DEF Keeping

\* What is kept are elements at the indexes.
LEMMA KeptFrom ==
  ASSUME NEW T, NEW s \in Seq(T), NEW I
  PROVE  \A m \in DOMAIN Kept(s, I) : \E n \in I \cap DOMAIN s : Kept(s, I)[m] = s[n]
<1>0. PICK kept \in [0 .. Len(s) -> Seq(T)] : Keeping(kept, s, I)
  BY Keeps, Zenon
<1>1. /\ kept[0] = <<>>
      /\ \A n \in 1 .. Len(s) :
           kept[n] = IF n \in I THEN Append(kept[n - 1], s[n]) ELSE kept[n - 1]
      /\ Kept(s, I) = kept[Len(s)]
  BY <1>0 DEF Keeping
<1> DEFINE N == Len(s)
           From(x) == \A m \in DOMAIN x : \E n \in I \cap DOMAIN s : x[m] = s[n]
           P == {n \in 0 .. N : From(kept[n])}
<1>2. N \in Nat
  OBVIOUS
<1>3. 0 \in P
  BY <1>1, <1>2
<1>4. ASSUME NEW n \in 1 .. N, n - 1 \in P PROVE n \in P
  <2>1. kept[n - 1] \in Seq(T) /\ From(kept[n - 1]) /\ n \in DOMAIN s
    BY <1>4
  <2>2. CASE n \in I
    <3> DEFINE x == kept[n - 1]
               y == Append(x, s[n])
    <3>1. kept[n] = y
      BY <1>1, <2>2
    <3>2. ASSUME NEW m \in DOMAIN y PROVE \E k \in I \cap DOMAIN s : y[m] = s[k]
      <4>1. CASE m = Len(x) + 1
        BY <2>1, <2>2, <4>1
      <4>2. CASE m # Len(x) + 1
        <5>1. m \in DOMAIN x /\ y[m] = x[m]
          BY <2>1, <3>2, <4>2
        <5>2. QED
          BY <2>1, <5>1
      <4>3. QED
        BY <4>1, <4>2
    <3>3. From(kept[n]) /\ n \in 0 .. N
      BY ONLY <3>1, <3>2, n \in 1 .. N DEF From
    <3>4. QED
      BY ONLY <3>3
  <2>3. CASE n \notin I
    BY <1>1, <1>4, <2>1, <2>3
  <2>4. QED
    BY <2>2, <2>3
<1>5. P = 0 .. N
  <2> HIDE DEF P, N
  <2>1. P \in SUBSET (0 .. N)
    BY DEF P
  <2>2. QED
    BY <1>2, <1>3, <1>4, <2>1, UpTo
<1>6. N \in P
  BY <1>2, <1>5
<1>7. QED
  BY <1>1, <1>6

\* What is kept depends on the indexes of the sequence alone.
LEMMA KeptAgrees ==
  ASSUME NEW T, NEW s \in Seq(T), NEW I, NEW J, \A n \in 1 .. Len(s) : n \in I <=> n \in J
  PROVE  Kept(s, I) = Kept(s, J)
<1>1. PICK ki \in [0 .. Len(s) -> Seq(T)] : Keeping(ki, s, I)
  BY Keeps, Zenon
<1>2. PICK kj \in [0 .. Len(s) -> Seq(T)] : Keeping(kj, s, J)
  BY Keeps, Zenon
<1> DEFINE N == Len(s)
           P == {n \in 0 .. N : ki[n] = kj[n]}
<1>3. N \in Nat
  OBVIOUS
<1>4. 0 \in P
  BY <1>1, <1>2 DEF Keeping
<1>5. ASSUME NEW n \in 1 .. N, n - 1 \in P PROVE n \in P
  <2>1. /\ ki[n] = IF n \in I THEN Append(ki[n - 1], s[n]) ELSE ki[n - 1]
        /\ kj[n] = IF n \in J THEN Append(kj[n - 1], s[n]) ELSE kj[n - 1]
    BY <1>1, <1>2 DEF Keeping
  <2>2. ki[n - 1] = kj[n - 1]
    BY <1>5
  <2>3. ki[n] = kj[n]
    BY <2>1, <2>2
  <2>4. QED
    BY <2>3
<1>6. P = 0 .. N
  <2> HIDE DEF P, N
  <2>1. P \in SUBSET (0 .. N)
    BY DEF P
  <2>2. QED
    BY <1>3, <1>4, <1>5, <2>1, UpTo
<1>7. N \in P
  BY <1>3, <1>6
<1>8. QED
  BY <1>1, <1>2, <1>7 DEF Keeping

\* Nothing is kept at no index.
LEMMA KeptNone ==
  ASSUME NEW T, NEW s \in Seq(T), NEW I, \A n \in 1 .. Len(s) : n \notin I
  PROVE  Kept(s, I) = <<>>
<1>1. Kept(s, I) \in Seq(T) /\ \A m \in DOMAIN Kept(s, I) : \E n \in I \cap DOMAIN s : TRUE
  BY KeptType, KeptFrom
<1>2. DOMAIN s = 1 .. Len(s)
  OBVIOUS
<1> DEFINE k == Kept(s, I)
<1>3. DOMAIN k = {}
  BY <1>1, <1>2
<1> HIDE DEF k
<1>4. k \in Seq(T)
  BY <1>1 DEF k
<1>5. QED
  BY <1>3, <1>4 DEF k

\* What is kept of two sequences in a row.
LEMMA KeptConcat ==
  ASSUME NEW T, NEW s \in Seq(T), NEW t \in Seq(T), NEW I, NEW J,
         \A n \in 1 .. Len(t) : n \in J <=> Len(s) + n \in I
  PROVE  Kept(s \o t, I) = Kept(s, I) \o Kept(t, J)
<1> DEFINE M == Len(s)
           N == Len(t)
           u == s \o t
<1>1. /\ M \in Nat /\ N \in Nat /\ u \in Seq(T) /\ Len(u) = M + N
      /\ \A n \in 1 .. M : u[n] = s[n]
      /\ \A n \in 1 .. N : u[M + n] = t[n]
  OBVIOUS
<1>2. PICK ks \in [0 .. Len(s) -> Seq(T)] : Keeping(ks, s, I)
  BY Keeps, Zenon
<1>3. PICK kt \in [0 .. Len(t) -> Seq(T)] : Keeping(kt, t, J)
  BY Keeps, Zenon
<1> HIDE DEF u
<1>4. PICK ku \in [0 .. Len(u) -> Seq(T)] : Keeping(ku, u, I)
  BY <1>1, Keeps, Zenon
<1>5. ku[M] = ks[M]
  <2> DEFINE P == {n \in 0 .. M : ku[n] = ks[n]}
  <2>1. 0 \in P
    BY <1>1, <1>2, <1>4 DEF Keeping
  <2>2. ASSUME NEW n \in 1 .. M, n - 1 \in P PROVE n \in P
    <3>1. ks[n] = IF n \in I THEN Append(ks[n - 1], s[n]) ELSE ks[n - 1]
      BY <1>2 DEF Keeping
    <3>2. n \in 1 .. Len(u)
      BY <1>1
    <3>3. ku[n] = IF n \in I THEN Append(ku[n - 1], u[n]) ELSE ku[n - 1]
      BY <1>4, <3>2 DEF Keeping
    <3>4. ku[n - 1] = ks[n - 1] /\ u[n] = s[n]
      BY <1>1, <2>2
    <3>5. ku[n] = ks[n]
      BY <3>1, <3>3, <3>4
    <3>6. QED
      BY <3>5
  <2>3. P = 0 .. M
    <3> HIDE DEF P
    <3>1. P \in SUBSET (0 .. M)
      BY DEF P
    <3>2. QED
      BY <1>1, <2>1, <2>2, <3>1, UpTo
  <2> HIDE DEF P
  <2>4. M \in P
    BY ONLY <1>1, <2>3
  <2>5. QED
    BY <2>4 DEF P
<1>6. ku[M + N] = ks[M] \o kt[N]
  <2> DEFINE x == ks[M]
             P == {n \in 0 .. N : ku[M + n] = x \o kt[n]}
  <2>0. x \in Seq(T)
    <3>1. M \in 0 .. Len(s)
      BY <1>1
    <3>2. QED
      BY <1>2, <3>1
  <2> HIDE DEF x
  <2>1. 0 \in P
    <3>1. kt[0] = <<>> /\ ku[M + 0] = x /\ 0 \in 0 .. N
      BY <1>1, <1>3, <1>5 DEF Keeping, x
    <3>2. x \o <<>> = x
      BY <2>0
    <3>3. QED
      BY <3>1, <3>2
  <2>2. ASSUME NEW n \in 1 .. N, n - 1 \in P PROVE n \in P
    <3>1. kt[n] = IF n \in J THEN Append(kt[n - 1], t[n]) ELSE kt[n - 1]
      BY <1>3 DEF Keeping
    <3>2. M + n \in 1 .. Len(u) /\ (M + n) - 1 = M + (n - 1)
      BY <1>1
    <3>3. ku[M + n] = IF M + n \in I THEN Append(ku[M + (n - 1)], u[M + n]) ELSE ku[M + (n - 1)]
      BY <1>4, <3>2 DEF Keeping
    <3>4. ku[M + (n - 1)] = x \o kt[n - 1] /\ u[M + n] = t[n] /\ (M + n \in I <=> n \in J)
      BY <1>1, <2>2
    <3>5. kt[n - 1] \in Seq(T) /\ t[n] \in T
      BY <1>1
    <3>6. Append(x \o kt[n - 1], t[n]) = x \o Append(kt[n - 1], t[n])
      <4>1. ASSUME NEW y \in Seq(T), NEW e \in T
            PROVE  Append(x \o y, e) = x \o Append(y, e)
        <5>1. x \o y \in Seq(T) /\ <<e>> \in Seq(T)
          BY ONLY <2>0, <4>1
        <5>2. Append(x \o y, e) = (x \o y) \o <<e>>
          BY ONLY <4>1, <5>1, AppendIsConcat
        <5>3. Append(y, e) = y \o <<e>>
          BY ONLY <4>1, AppendIsConcat
        <5>4. (x \o y) \o <<e>> = x \o (y \o <<e>>)
          BY ONLY <2>0, <4>1, <5>1, ConcatAssociative, SMTT(30)
        <5>5. QED
          BY <5>2, <5>3, <5>4, Zenon
      <4>2. QED
        BY ONLY <3>5, <4>1
    <3>7. ku[M + n] = x \o kt[n]
      BY <3>1, <3>3, <3>4, <3>6
    <3>8. QED
      BY <3>7
  <2>3. P = 0 .. N
    <3> HIDE DEF P
    <3>1. P \in SUBSET (0 .. N)
      BY DEF P
    <3>2. QED
      BY <1>1, <2>1, <2>2, <3>1, UpTo
  <2> HIDE DEF P
  <2>4. N \in P
    BY ONLY <1>1, <2>3
  <2>5. QED
    BY <2>4 DEF x, P
<1>7. Kept(u, I) = ku[M + N] /\ Kept(s, I) = ks[M] /\ Kept(t, J) = kt[N]
  BY <1>1, <1>2, <1>3, <1>4 DEF Keeping
<1>8. QED
  BY <1>6, <1>7 DEF u

\* Indexes in the middle of three sequences in a row keep what they keep of that one.
LEMMA KeptMiddle ==
  ASSUME NEW T, NEW s \in Seq(T), NEW t \in Seq(T), NEW u \in Seq(T), NEW I, NEW J,
         \A n \in 1 .. Len(s) : n \notin I,
         \A n \in 1 .. Len(t) : n \in J <=> Len(s) + n \in I,
         \A n \in 1 .. Len(u) : Len(s) + Len(t) + n \notin I
  PROVE  Kept(s \o (t \o u), I) = Kept(t, J)
<1> DEFINE tu == t \o u
           Itu == {n \in 1 .. Len(tu) : Len(s) + n \in I}
           Iu == {n \in 1 .. Len(u) : Len(t) + n \in Itu}
<1>1. /\ tu \in Seq(T) /\ Len(tu) = Len(t) + Len(u)
      /\ Len(s) \in Nat /\ Len(t) \in Nat /\ Len(u) \in Nat
  OBVIOUS
<1>2. Kept(s, I) = <<>>
  BY KeptNone
<1>3. Kept(u, Iu) = <<>>
  <2>1. \A n \in 1 .. Len(u) : n \notin Iu
    <3>1. ASSUME NEW n \in Iu PROVE FALSE
      <4>1. n \in 1 .. Len(u) /\ Len(s) + (Len(t) + n) \in I
        BY <1>1, <3>1
      <4>2. Len(s) + (Len(t) + n) = Len(s) + Len(t) + n
        BY <1>1, <4>1
      <4>3. QED
        BY <4>1, <4>2
    <3>2. QED
      BY <3>1
  <2> HIDE DEF Iu
  <2>2. QED
    BY <2>1, KeptNone
<1>4. Kept(t, Itu) = Kept(t, J)
  <2>1. \A n \in 1 .. Len(t) : n \in Itu <=> n \in J
    BY <1>1
  <2> HIDE DEF Itu
  <2>2. QED
    BY <2>1, KeptAgrees
<1>5. Kept(tu, Itu) = Kept(t, Itu) \o Kept(u, Iu)
  <2>1. \A n \in 1 .. Len(u) : n \in Iu <=> Len(t) + n \in Itu
    OBVIOUS
  <2> HIDE DEF Itu, Iu
  <2>2. QED
    BY <2>1, KeptConcat
<1> HIDE DEF tu, Iu
<1>6. Kept(s \o tu, I) = Kept(s, I) \o Kept(tu, Itu)
  <2>1. \A n \in 1 .. Len(tu) : n \in Itu <=> Len(s) + n \in I
    OBVIOUS
  <2> HIDE DEF Itu
  <2>2. QED
    BY <1>1, <2>1, KeptConcat
<1>7. Kept(t, J) \in Seq(T)
  BY KeptType
<1> HIDE DEF Itu
<1> DEFINE k == Kept(t, J)
<1> HIDE DEF k
<1>8. k \o <<>> = k /\ <<>> \o k = k
  BY <1>7 DEF k
<1>9. Kept(tu, Itu) = k /\ Kept(s \o tu, I) = <<>> \o k
  BY <1>2, <1>3, <1>4, <1>5, <1>6, <1>8 DEF k
<1>10. QED
  BY <1>8, <1>9 DEF tu, k

\* A run of indexes keeps the elements of that run.
LEMMA KeptRun ==
  ASSUME NEW T, NEW s \in Seq(T), NEW lo \in Nat, NEW hi \in Nat,
         1 <= lo, lo <= hi + 1, hi <= Len(s)
  PROVE  LET k == Kept(s, lo .. hi)
         IN  /\ k \in Seq(T) /\ Len(k) = hi - lo + 1
             /\ \A m \in 1 .. hi - lo + 1 : k[m] = s[lo + m - 1]
<1>1. PICK kept \in [0 .. Len(s) -> Seq(T)] : Keeping(kept, s, lo .. hi)
  BY Keeps, Zenon
<1> DEFINE N == Len(s)
           Size(n) == IF n < lo THEN 0 ELSE IF n <= hi THEN n - lo + 1 ELSE hi - lo + 1
           Is(n) == /\ Len(kept[n]) = Size(n)
                    /\ \A m \in 1 .. Size(n) : kept[n][m] = s[lo + m - 1]
           P == {n \in 0 .. N : Is(n)}
<1>2. N \in Nat
  OBVIOUS
<1>3. 0 \in P
  BY <1>1, <1>2 DEF Keeping
<1>4. ASSUME NEW n \in 1 .. N, n - 1 \in P PROVE n \in P
  <2> DEFINE x == kept[n - 1]
  <2>1. kept[n] = IF n \in lo .. hi THEN Append(x, s[n]) ELSE x
    BY <1>1 DEF Keeping
  <2>2. x \in Seq(T) /\ Is(n - 1) /\ n \in 0 .. N /\ s[n] \in T
    BY <1>4
  <2>3. CASE n \in lo .. hi
    <3>1. kept[n] = Append(x, s[n])
      BY <2>1, <2>3
    <3>2. Size(n - 1) = n - lo /\ Size(n) = n - lo + 1
      BY <2>3
    <3>3. Len(x) = n - lo /\ \A m \in 1 .. n - lo : x[m] = s[lo + m - 1]
      BY <2>2, <3>2
    <3> HIDE DEF x, Size
    <3>4. /\ Len(Append(x, s[n])) = n - lo + 1 /\ Append(x, s[n])[n - lo + 1] = s[n]
          /\ \A m \in 1 .. n - lo : Append(x, s[n])[m] = x[m]
      BY <2>2, <3>3
    <3>5. \A m \in 1 .. n - lo + 1 : Append(x, s[n])[m] = s[lo + m - 1]
      <4>1. TAKE m \in 1 .. n - lo + 1
      <4>2. CASE m = n - lo + 1
        <5>1. lo + m - 1 = n
          BY <4>2
        <5>2. QED
          BY <3>4, <4>2, <5>1
      <4>3. CASE m # n - lo + 1
        <5>1. m \in 1 .. n - lo
          BY <2>3, <4>3
        <5>2. QED
          BY <3>3, <3>4, <5>1
      <4>4. QED
        BY <4>2, <4>3
    <3>6. Is(n)
      BY <3>1, <3>2, <3>4, <3>5
    <3>7. QED
      BY <2>2, <3>6
  <2>4. CASE n \notin lo .. hi
    <3>1. kept[n] = x
      BY <2>1, <2>4
    <3>2. Size(n) = Size(n - 1)
      BY <2>4
    <3> HIDE DEF Size
    <3>3. Is(n)
      BY <2>2, <3>1, <3>2
    <3>4. QED
      BY <2>2, <3>3
  <2>5. QED
    BY <2>3, <2>4
<1>5. P = 0 .. N
  <2> HIDE DEF P, N
  <2>1. P \in SUBSET (0 .. N)
    BY DEF P
  <2>2. QED
    BY <1>2, <1>3, <1>4, <2>1, UpTo
<1>6. N \in P
  BY <1>2, <1>5
<1>7. Size(N) = hi - lo + 1
  BY <1>2
<1>8. Kept(s, lo .. hi) = kept[N] /\ kept[N] \in Seq(T)
  BY <1>1, <1>2 DEF Keeping
<1>9. Is(N)
  BY <1>6
<1> HIDE DEF N, Size
<1>10. QED
  BY <1>7, <1>8, <1>9

\* The sum over what is kept is the sum over all, the others counting nothing.
LEMMA KeptTotal ==
  ASSUME NEW T, NEW s \in Seq(T), NEW I, NEW g \in [T -> Int]
  PROVE  LET k == Kept(s, I)
         IN  Total([m \in DOMAIN k |-> g[k[m]]])
               = Total([n \in DOMAIN s |-> IF n \in I THEN g[s[n]] ELSE 0])
<1>0. PICK kept \in [0 .. Len(s) -> Seq(T)] : Keeping(kept, s, I)
  BY Keeps, Zenon
<1>1. /\ kept[0] = <<>>
      /\ \A n \in 1 .. Len(s) :
           kept[n] = IF n \in I THEN Append(kept[n - 1], s[n]) ELSE kept[n - 1]
      /\ Kept(s, I) = kept[Len(s)]
  BY <1>0 DEF Keeping
<1> DEFINE N == Len(s)
           all == [n \in DOMAIN s |-> IF n \in I THEN g[s[n]] ELSE 0]
           of(x) == [m \in DOMAIN x |-> g[x[m]]]
           f == [n \in 0 .. N |-> Total(of(kept[n]))]
<1>2. N \in Nat /\ all \in Seq(Int) /\ Len(all) = N
  OBVIOUS
<1>3. f[0] = 0
  <2>1. of(<<>>) = <<>>
    OBVIOUS
  <2>2. QED
    BY <1>1, <1>2, <2>1, TotalEmpty
<1>4. ASSUME NEW n \in 1 .. N PROVE f[n] = f[n - 1] + all[n]
  <2> DEFINE x == kept[n - 1]
  <2>0. n - 1 \in 0 .. N /\ n \in 0 .. N
    BY <1>2
  <2>1. x \in Seq(T) /\ n \in DOMAIN s /\ s[n] \in T /\ n - 1 \in 0 .. N /\ n \in 0 .. N
    BY <2>0
  <2>2. of(x) \in Seq(Int)
    BY <2>1
  <2>3. CASE n \in I
    <3>1. of(Append(x, s[n])) = Append(of(x), g[s[n]])
      BY <2>1
    <3>2. kept[n] = Append(x, s[n]) /\ all[n] = g[s[n]] /\ g[s[n]] \in Int
      BY <1>1, <2>1, <2>3
    <3> HIDE DEF of, x
    <3>3. Total(of(Append(x, s[n]))) = Total(of(x)) + g[s[n]]
      BY <2>2, <3>1, <3>2, TotalAppend
    <3>4. QED
      BY <2>1, <3>2, <3>3 DEF x
  <2>4. CASE n \notin I
    <3>1. kept[n] = x /\ all[n] = 0
      BY <1>1, <2>1, <2>4
    <3>2. Total(of(x)) \in Int
      BY <2>2, TotalType
    <3> HIDE DEF of
    <3>3. QED
      BY <2>1, <3>1, <3>2
  <2>5. QED
    BY <2>3, <2>4
<1>5. Total(all) = f[N]
  <2> HIDE DEF f, all
  <2>1. QED
    BY <1>2, <1>3, <1>4, TotalIs
<1>6. f[N] = Total(of(Kept(s, I)))
  BY <1>1, <1>2
<1>7. QED
  BY <1>5, <1>6

-----------------------------------------------------------------------------
(***************************************************************************)
(* Chunks.                                                                 *)
(***************************************************************************)
Chunks == [start : Nat, duration : Nat, first : Nat, last : Nat, aligned : BOOLEAN]
PlannerType ==
  [chunks : Seq(Chunks), count : Nat, from : Nat, start : Nat, end : Nat, aligned : BOOLEAN]

\* The chunk that is open follows those that are closed.
CutSoFar(planner, packets, apart) ==
  /\ planner \in PlannerType
  /\ planner.count <= Len(packets)
  /\ planner.count > 0 =>
       LET chunks == planner.chunks
           full == Len(chunks)
       IN  /\ 1 <= planner.from /\ planner.from <= planner.count
           /\ full = 0 => planner.from = 1
           /\ full > 0 =>
                /\ chunks[1].first = 1
                /\ chunks[full].last + 1 = planner.from
                /\ packets[planner.from].key
                /\ planner.start - chunks[full].start >= apart
           /\ \A n \in 1 .. full : chunks[n].first <= chunks[n].last
           /\ \A n \in 1 .. full - 1 :
                /\ chunks[n].last + 1 = chunks[n + 1].first
                /\ packets[chunks[n + 1].first].key
                /\ chunks[n + 1].start - chunks[n].start >= apart
  /\ planner.count = 0 => planner.chunks = <<>>

\* The times of a packet are natural numbers.
LEMMA Times ==
  ASSUME NEW units \in Nat, NEW scale \in Nat
  PROVE  ToMillis(units, scale) \in Nat
<1> DEFINE ms == units * MillisPerSecond
<1>1. ms \in Nat
  BY DEF MillisPerSecond
<1> HIDE DEF ms
<1>2. ASSUME scale > 0 PROVE ms \div scale \in Nat
  BY <1>1, <1>2
<1>3. QED
  BY <1>2 DEF ToMillis, ms

\* A chunk that is still open is a chunk.
LEMMA OpenChunkType ==
  ASSUME NEW planner \in PlannerType
  PROVE  OpenChunk(planner) \in Chunks
<1>1. Minus(planner.end, planner.start) \in Nat
  BY DEF PlannerType, Minus, Larger
<1>2. QED
  BY <1>1 DEF OpenChunk, Chunk, Chunks, PlannerType

-----------------------------------------------------------------------------
(***************************************************************************)
(* One packet.                                                             *)
(***************************************************************************)
\* A chunk is closed and the next one opened with the packet.
LEMMA CutHolds ==
  ASSUME NEW packets \in Seq(PacketType), NEW apart \in Nat, apart > 0,
         NEW planner, CutSoFar(planner, packets, apart), planner.count < Len(packets),
         Cuts(apart, planner.start, planner.count, packets[planner.count + 1]),
         NEW next \in PlannerType,
         next.chunks = Append(planner.chunks, OpenChunk(planner)),
         next.count = planner.count + 1, next.from = planner.count + 1,
         next.start = PtsMs(packets[planner.count + 1])
  PROVE  CutSoFar(next, packets, apart)
<1> DEFINE open == OpenChunk(planner)
           chunks == Append(planner.chunks, open)
           full == Len(planner.chunks)
           packet == packets[planner.count + 1]
<1>1. /\ planner \in PlannerType /\ planner.count \in Nat /\ planner.count > 0
      /\ planner.chunks \in Seq(Chunks) /\ full \in Nat
  BY DEF CutSoFar, PlannerType, Cuts
<1>2. packet \in PacketType
  BY <1>1
<1>3. /\ PtsMs(packet) \in Nat /\ planner.start \in Nat
      /\ packet.key /\ PtsMs(packet) - planner.start >= apart
  <2>1. PtsMs(packet) \in Nat /\ planner.start \in Nat
    BY <1>1, <1>2, Times DEF PtsMs, PacketType, PlannerType
  <2>2. packet.key /\ Minus(PtsMs(packet), planner.start) >= apart
    BY DEF Cuts
  <2> HIDE DEF packet
  <2>3. QED
    BY <2>1, <2>2 DEF Minus, Larger
<1>4. /\ open \in Chunks /\ open.first = planner.from /\ open.last = planner.count
      /\ open.start = planner.start
  BY <1>1, OpenChunkType DEF OpenChunk, Chunk
<1> HIDE DEF open
<1>5. /\ chunks \in Seq(Chunks) /\ Len(chunks) = full + 1
      /\ chunks[full + 1] = open
      /\ \A n \in 1 .. full : chunks[n] = planner.chunks[n]
  BY <1>1, <1>4
<1>6. /\ next.chunks = chunks /\ next.count = planner.count + 1
      /\ next.from = planner.count + 1 /\ next.start = PtsMs(packet)
  BY DEF open
<1> HIDE DEF chunks, full, packet
<1>8. /\ 1 <= planner.from /\ planner.from <= planner.count
      /\ full = 0 => planner.from = 1
      /\ full > 0 =>
           /\ planner.chunks[1].first = 1
           /\ planner.chunks[full].last + 1 = planner.from
           /\ packets[planner.from].key
           /\ planner.start - planner.chunks[full].start >= apart
      /\ \A n \in 1 .. full : planner.chunks[n].first <= planner.chunks[n].last
      /\ \A n \in 1 .. full - 1 :
           /\ planner.chunks[n].last + 1 = planner.chunks[n + 1].first
           /\ packets[planner.chunks[n + 1].first].key
           /\ planner.chunks[n + 1].start - planner.chunks[n].start >= apart
  BY <1>1 DEF CutSoFar, full
<1>9. chunks[1].first = 1
  BY <1>1, <1>4, <1>5, <1>8
<1>10. \A n \in 1 .. full + 1 : chunks[n].first <= chunks[n].last
  <2>1. ASSUME NEW n \in 1 .. full + 1 PROVE chunks[n].first <= chunks[n].last
    <3>1. CASE n = full + 1
      BY <1>4, <1>5, <1>8, <3>1
    <3>2. CASE n \in 1 .. full
      BY <1>5, <1>8, <3>2
    <3>3. QED
      BY <1>1, <2>1, <3>1, <3>2
  <2>2. QED
    BY <2>1
<1>11. ASSUME NEW n \in 1 .. full
       PROVE  /\ chunks[n].last + 1 = chunks[n + 1].first
              /\ packets[chunks[n + 1].first].key
              /\ chunks[n + 1].start - chunks[n].start >= apart
  <2>1. CASE n = full
    <3>1. chunks[n] = planner.chunks[full] /\ chunks[n + 1] = open /\ full > 0
      BY <1>1, <1>5, <1>11, <2>1
    <3>2. QED
      BY <1>4, <1>8, <3>1
  <2>2. CASE n \in 1 .. full - 1
    <3>1. chunks[n] = planner.chunks[n] /\ chunks[n + 1] = planner.chunks[n + 1]
      <4>1. n + 1 \in 1 .. full
        BY <1>1, <2>2
      <4>2. \A m \in 1 .. full : chunks[m] = planner.chunks[m]
        BY <1>5
      <4>3. QED
        BY <1>11, <4>1, <4>2, Zenon
    <3>2. QED
      BY <1>8, <2>2, <3>1
  <2>3. QED
    BY <1>1, <1>11, <2>1, <2>2
<1>12. /\ chunks[full + 1].last + 1 = planner.count + 1
       /\ packets[planner.count + 1].key
       /\ PtsMs(packet) - chunks[full + 1].start >= apart
  BY <1>3, <1>4, <1>5 DEF packet
<1>13. next.count <= Len(packets) /\ next.count > 0 /\ Len(packets) \in Nat
  BY <1>1, <1>6
<1>14. Len(next.chunks) = full + 1 /\ full + 1 > 0 /\ full + 1 - 1 = full
  BY <1>1, <1>5, <1>6
<1>15. /\ 1 <= next.from /\ next.from <= next.count
       /\ next.chunks[1].first = 1
       /\ next.chunks[full + 1].last + 1 = next.from
       /\ packets[next.from].key
       /\ next.start - next.chunks[full + 1].start >= apart
  BY <1>1, <1>6, <1>9, <1>12
<1>16. /\ \A n \in 1 .. Len(next.chunks) : next.chunks[n].first <= next.chunks[n].last
       /\ \A n \in 1 .. Len(next.chunks) - 1 :
            /\ next.chunks[n].last + 1 = next.chunks[n + 1].first
            /\ packets[next.chunks[n + 1].first].key
            /\ next.chunks[n + 1].start - next.chunks[n].start >= apart
  <2>1. next.chunks = chunks /\ Len(next.chunks) = full + 1 /\ Len(next.chunks) - 1 = full
    BY <1>1, <1>6, <1>14
  <2>2. QED
    BY <1>10, <1>11, <2>1, Zenon
<1>17. Len(next.chunks) # 0 /\ next.count # 0
  BY <1>1, <1>13, <1>14
<1>18. QED
  BY <1>13, <1>14, <1>15, <1>16, <1>17, Zenon DEF CutSoFar

\* The packet joins the open chunk.
LEMMA JoinHolds ==
  ASSUME NEW packets \in Seq(PacketType), NEW apart \in Nat,
         NEW planner, CutSoFar(planner, packets, apart), planner.count < Len(packets),
         planner.count > 0, NEW next \in PlannerType,
         next.chunks = planner.chunks, next.from = planner.from,
         next.start = planner.start, next.count = planner.count + 1
  PROVE  CutSoFar(next, packets, apart)
<1>1. planner \in PlannerType /\ planner.count \in Nat /\ Len(packets) \in Nat
  BY DEF CutSoFar, PlannerType
<1>3. planner.from \in Nat
  BY <1>1 DEF PlannerType
<1>4. QED
  BY <1>1, <1>3 DEF CutSoFar

-----------------------------------------------------------------------------
(***************************************************************************)
(* The planner of packets.                                                 *)
(***************************************************************************)
LEMMA PushedHolds ==
  ASSUME NEW packets \in Seq(PacketType), NEW apart \in Nat, apart > 0,
         NEW n \in 1 .. Len(packets), NEW planner, CutSoFar(planner, packets, apart),
         planner.count = n - 1
  PROVE  LET next == Pushed(planner, packets[n], apart)
         IN  CutSoFar(next, packets, apart) /\ next.count = n
<1> DEFINE packet == packets[n]
           next == Pushed(planner, packet, apart)
           opened == [planner EXCEPT !.from = n, !.start = PtsMs(packet),
                                     !.aligned = packet.key]
           closed == [opened EXCEPT !.chunks = Append(@, OpenChunk(planner))]
           chunks == Append(planner.chunks, OpenChunk(planner))
<1>1. /\ planner \in PlannerType /\ n \in Nat /\ n > 0 /\ Len(packets) \in Nat
      /\ planner.count + 1 = n /\ planner.count \in Nat
  BY DEF CutSoFar
<1>2. packet \in PacketType
  OBVIOUS
<1>3. PtsMs(packet) \in Nat /\ EndMs(packet) \in Nat /\ packet.key \in BOOLEAN
  <2> HIDE DEF packet
  <2>1. /\ packet.pts \in Nat /\ packet.duration \in Nat /\ packet.scale \in Nat
        /\ packet.key \in BOOLEAN
    BY <1>2 DEF PacketType
  <2>2. PtsMs(packet) \in Nat /\ DurationMs(packet) \in Nat
    BY <2>1, Times DEF PtsMs, DurationMs
  <2>3. QED
    BY <2>1, <2>2 DEF EndMs
<1>4. OpenChunk(planner) \in Chunks /\ planner.chunks \in Seq(Chunks)
  BY <1>1, OpenChunkType DEF PlannerType
<1>5. chunks \in Seq(Chunks)
  BY <1>4
<1> HIDE DEF packet, chunks
<1>6. CASE planner.count = 0
  <2>1. next = [opened EXCEPT !.end = EndMs(packet), !.count = n]
    BY <1>1, <1>6 DEF Pushed
  <2>2. /\ next \in PlannerType /\ next.chunks = planner.chunks /\ next.from = n
        /\ next.count = n
    BY <1>1, <1>3, <2>1 DEF PlannerType
  <2>3. planner.chunks = <<>> /\ Len(next.chunks) = 0 /\ n = 1
    BY <1>1, <1>6, <2>2 DEF CutSoFar
  <2> HIDE DEF next
  <2>4. CutSoFar(next, packets, apart)
    BY <1>1, <2>2, <2>3 DEF CutSoFar
  <2>5. QED
    BY <2>2, <2>4 DEF next, packet
<1>7. CASE planner.count # 0 /\ Cuts(apart, planner.start, planner.count, packet)
  <2>1. next = [closed EXCEPT !.end = EndMs(packet), !.count = n]
    BY <1>1, <1>7 DEF Pushed
  <2>2. closed = [planner EXCEPT !.from = n, !.start = PtsMs(packet),
                                 !.aligned = packet.key, !.chunks = chunks]
    BY <1>1 DEF PlannerType, chunks
  <2> HIDE DEF next, opened, closed
  <2>21. closed \in PlannerType
    BY <1>1, <1>3, <1>5, <2>2 DEF PlannerType
  <2>22. closed.chunks = chunks /\ closed.from = n /\ closed.start = PtsMs(packet)
    BY <1>1, <2>2 DEF PlannerType
  <2>3. /\ next \in PlannerType /\ next.chunks = chunks /\ next.from = n
        /\ next.count = n /\ next.start = PtsMs(packet)
    BY <1>1, <1>3, <2>1, <2>21, <2>22 DEF PlannerType
  <2>4. CutSoFar(next, packets, apart)
    BY <1>1, <1>7, <2>3, CutHolds DEF packet, chunks
  <2>5. QED
    BY <2>3, <2>4 DEF next, packet
<1>8. CASE planner.count # 0 /\ ~Cuts(apart, planner.start, planner.count, packet)
  <2>1. next = [planner EXCEPT !.end = EndMs(packet), !.count = n]
    BY <1>1, <1>8 DEF Pushed
  <2>2. /\ next \in PlannerType /\ next.chunks = planner.chunks
        /\ next.from = planner.from /\ next.count = n /\ next.start = planner.start
    BY <1>1, <1>3, <2>1 DEF PlannerType
  <2> HIDE DEF next
  <2>3. CutSoFar(next, packets, apart)
    BY <1>1, <1>8, <2>2, JoinHolds
  <2>4. QED
    BY <2>2, <2>3 DEF next, packet
<1>9. QED
  BY <1>6, <1>7, <1>8

\* A planner that has taken all packets has partitioned them.
LEMMA HoldsPartition ==
  ASSUME NEW packets \in Seq(PacketType), NEW apart \in Nat, packets # <<>>,
         NEW planner, CutSoFar(planner, packets, apart), planner.count = Len(packets)
  PROVE  Partition(Append(planner.chunks, OpenChunk(planner)), packets, apart)
<1> DEFINE open == OpenChunk(planner)
           chunks == Append(planner.chunks, open)
           full == Len(planner.chunks)
<1>1. /\ planner \in PlannerType /\ planner.chunks \in Seq(Chunks) /\ full \in Nat
      /\ planner.count > 0 /\ planner.count \in Nat /\ planner.from \in Nat
  BY DEF CutSoFar, PlannerType
<1>2. /\ open \in Chunks /\ open.first = planner.from /\ open.last = planner.count
      /\ open.start = planner.start
  BY <1>1, OpenChunkType DEF OpenChunk, Chunk
<1> HIDE DEF open
<1>3. /\ Len(chunks) = full + 1 /\ chunks # <<>> /\ chunks[full + 1] = open
      /\ \A n \in 1 .. full : chunks[n] = planner.chunks[n]
  BY <1>1, <1>2
<1>4. /\ 1 <= planner.from /\ planner.from <= planner.count
      /\ full = 0 => planner.from = 1
      /\ full > 0 =>
           /\ planner.chunks[1].first = 1
           /\ planner.chunks[full].last + 1 = planner.from
           /\ packets[planner.from].key
           /\ planner.start - planner.chunks[full].start >= apart
      /\ \A n \in 1 .. full : planner.chunks[n].first <= planner.chunks[n].last
      /\ \A n \in 1 .. full - 1 :
           /\ planner.chunks[n].last + 1 = planner.chunks[n + 1].first
           /\ packets[planner.chunks[n + 1].first].key
           /\ planner.chunks[n + 1].start - planner.chunks[n].start >= apart
  BY <1>1 DEF CutSoFar
<1> HIDE DEF chunks, full
<1>5. chunks[1].first = 1 /\ chunks[full + 1].last = Len(packets)
  BY <1>1, <1>2, <1>3, <1>4
<1>6. ASSUME NEW n \in 1 .. full + 1 PROVE chunks[n].first <= chunks[n].last
  <2>1. CASE n = full + 1
    BY <1>2, <1>3, <1>4, <2>1
  <2>2. CASE n \in 1 .. full
    BY <1>3, <1>4, <2>2
  <2>3. QED
    BY <1>1, <1>6, <2>1, <2>2
<1>7. ASSUME NEW n \in 1 .. full
      PROVE  /\ chunks[n].last + 1 = chunks[n + 1].first
             /\ packets[chunks[n + 1].first].key
             /\ chunks[n + 1].start - chunks[n].start >= apart
  <2>1. CASE n = full
    <3>1. chunks[n] = planner.chunks[full] /\ chunks[n + 1] = open /\ full > 0
      BY <1>1, <1>3, <1>7, <2>1
    <3>2. QED
      BY <1>2, <1>4, <3>1
  <2>2. CASE n \in 1 .. full - 1
    <3>1. chunks[n] = planner.chunks[n] /\ chunks[n + 1] = planner.chunks[n + 1]
      BY <1>1, <1>3, <2>2
    <3>2. QED
      BY <1>4, <2>2, <3>1
  <2>3. QED
    BY <1>1, <1>7, <2>1, <2>2
<1>8. Len(chunks) = full + 1 /\ Len(chunks) - 1 = full
  BY <1>1, <1>3
<1>9. Partition(chunks, packets, apart)
  BY <1>3, <1>5, <1>6, <1>7, <1>8, Zenon DEF Partition
<1>10. QED
  BY <1>9 DEF chunks, open

\* The planner's state after every prefix of the packets exists.
Pushes(after, packets, apart, N) ==
  after = [n \in 0 .. N |->
             IF n = 0 THEN NewPlanner ELSE Pushed(after[n - 1], packets[n], apart)]

\* The planner's walk over packets exists.
LEMMA PushesExist ==
  ASSUME NEW packets, NEW apart, NEW N \in Nat
  PROVE  \E after : Pushes(after, packets, apart, N)
<1> DEFINE Step(g, n) == IF n = 0 THEN NewPlanner ELSE Pushed(g[n - 1], packets[n], apart)
           P == {k \in 0 .. N : \E g : g = [n \in 0 .. k |-> Step(g, n)]}
<1>1. 0 \in P
  <2> DEFINE g == [n \in 0 .. 0 |-> NewPlanner]
  <2>1. g = [n \in 0 .. 0 |-> Step(g, n)]
    OBVIOUS
  <2>2. \E h : h = [n \in 0 .. 0 |-> Step(h, n)]
    <3> HIDE DEF Step, g
    <3> WITNESS g
    <3>1. QED
      BY <2>1
  <2> HIDE DEF Step
  <2>3. QED
    BY <2>2
<1>2. ASSUME NEW k \in 1 .. N, k - 1 \in P PROVE k \in P
  <2>1. PICK g : g = [n \in 0 .. k - 1 |-> Step(g, n)]
    BY <1>2
  <2> DEFINE h == [n \in 0 .. k |-> IF n = k THEN Pushed(g[k - 1], packets[k], apart) ELSE g[n]]
  <2>2. ASSUME NEW n \in 0 .. k PROVE h[n] = Step(h, n)
    <3>1. CASE n = k
      <4>1. h[k - 1] = g[k - 1] /\ k # 0
        BY <1>2
      <4>2. QED
        BY <3>1, <4>1
    <3>2. CASE n \in 0 .. k - 1
      <4>1. h[n] = g[n] /\ g[n] = Step(g, n)
        BY <2>1, <3>2
      <4>2. n # 0 => h[n - 1] = g[n - 1]
        BY <3>2
      <4>3. QED
        BY <4>1, <4>2
    <3>3. QED
      BY <1>2, <2>2, <3>1, <3>2
  <2>3. h = [n \in 0 .. k |-> Step(h, n)]
    BY <2>2
  <2>4. \E f : f = [n \in 0 .. k |-> Step(f, n)]
    <3> HIDE DEF Step, h
    <3> WITNESS h
    <3>1. QED
      BY <2>3
  <2> HIDE DEF Step
  <2>5. k \in 0 .. N
    BY <1>2
  <2>6. QED
    BY <2>4, <2>5
<1>3. P = 0 .. N
  <2> HIDE DEF P
  <2>1. P \in SUBSET (0 .. N)
    BY DEF P
  <2>2. QED
    BY <1>1, <1>2, <2>1, UpTo
<1>4. N \in P
  <2> HIDE DEF P
  <2>1. QED
    BY <1>3
<1>5. QED
  BY <1>4 DEF Pushes

\* plan_track_chunks cuts any packets into runs that begin at keyframes, at least the
\* requested time apart.
THEOREM PacketsPartitioned ==
  ASSUME NEW packets \in Seq(PacketType), packets # <<>>,
         NEW apart \in Nat, apart > 0
  PROVE  Partition(PlanTrackChunks(packets, apart), packets, apart)
<1> DEFINE N == Len(packets)
           after == CHOOSE g : g = [n \in 0 .. N |->
             IF n = 0 THEN NewPlanner ELSE Pushed(g[n - 1], packets[n], apart)]
<1>1. N \in Nat /\ N > 0
  OBVIOUS
<1>2. after = [n \in 0 .. N |->
             IF n = 0 THEN NewPlanner ELSE Pushed(after[n - 1], packets[n], apart)]
  <2>1. \E g : Pushes(g, packets, apart, N)
    <3> HIDE DEF N, after
    <3>1. QED
      BY <1>1, PushesExist
  <2>2. QED
    BY <2>1, Zenon DEF Pushes
<1>3. PlanTrackChunks(packets, apart) = Finished(after[N])
  BY DEF PlanTrackChunks
<1> HIDE DEF after
<1> DEFINE P == {n \in 0 .. N : CutSoFar(after[n], packets, apart) /\ after[n].count = n}
<1>4. 0 \in P
  <2>1. after[0] = NewPlanner
    BY <1>1, <1>2
  <2>2. NewPlanner \in PlannerType /\ NewPlanner.count = 0 /\ NewPlanner.chunks = <<>>
    BY DEF NewPlanner, PlannerType
  <2>3. QED
    BY <1>1, <2>1, <2>2 DEF CutSoFar
<1>5. ASSUME NEW n \in 1 .. N, n - 1 \in P PROVE n \in P
  <2>1. after[n] = Pushed(after[n - 1], packets[n], apart)
    BY <1>2
  <2>2. CutSoFar(after[n - 1], packets, apart) /\ after[n - 1].count = n - 1
    BY <1>5
  <2>3. /\ CutSoFar(Pushed(after[n - 1], packets[n], apart), packets, apart)
        /\ Pushed(after[n - 1], packets[n], apart).count = n
    BY <2>2, PushedHolds
  <2>4. QED
    BY <2>1, <2>3
<1>6. P = 0 .. N
  <2>1. P \in SUBSET (0 .. N)
    OBVIOUS
  <2> HIDE DEF P
  <2>2. QED
    BY <1>1, <1>4, <1>5, <2>1, UpTo
<1>7. CutSoFar(after[N], packets, apart) /\ after[N].count = N
  BY <1>1, <1>6
<1>8. QED
  BY <1>1, <1>3, <1>7, HoldsPartition DEF Finished

-----------------------------------------------------------------------------
(***************************************************************************)
(* The planner of a sample table.                                          *)
(***************************************************************************)
LEMMA TabledHolds ==
  ASSUME NEW packets \in Seq(PacketType), NEW apart \in Nat, apart > 0,
         NEW n \in 1 .. Len(packets), NEW planner, CutSoFar(planner, packets, apart),
         planner.count = n - 1, planner.count = 0 => planner.from = 1
  PROVE  LET next == Tabled(planner, packets[n], apart)
         IN  CutSoFar(next, packets, apart) /\ next.count = n
<1> DEFINE packet == packets[n]
           next == Tabled(planner, packet, apart)
           end == ToMillis(packet.pts + packet.duration, packet.scale)
           chunks == Append(planner.chunks, OpenChunk(planner))
           closed == [planner EXCEPT !.chunks = Append(@, OpenChunk(planner)), !.from = n,
                                     !.start = PtsMs(packet), !.aligned = packet.key]
<1>1. /\ planner \in PlannerType /\ n \in Nat /\ n > 0 /\ Len(packets) \in Nat
      /\ planner.count + 1 = n /\ planner.count \in Nat
  BY DEF CutSoFar
<1>2. packet \in PacketType
  OBVIOUS
<1>3. PtsMs(packet) \in Nat /\ end \in Nat /\ packet.key \in BOOLEAN
  <2> HIDE DEF packet
  <2>1. /\ packet.pts \in Nat /\ packet.duration \in Nat /\ packet.scale \in Nat
        /\ packet.key \in BOOLEAN
    BY <1>2 DEF PacketType
  <2>2. packet.pts + packet.duration \in Nat
    BY <2>1
  <2>3. QED
    BY <2>1, <2>2, Times DEF PtsMs
<1>4. OpenChunk(planner) \in Chunks /\ planner.chunks \in Seq(Chunks)
  BY <1>1, OpenChunkType DEF PlannerType
<1>5. chunks \in Seq(Chunks)
  BY <1>4
<1> HIDE DEF packet, chunks, end
<1>6. CASE Cuts(apart, planner.start, planner.count, packet)
  <2>1. next = [closed EXCEPT !.end = end, !.count = n]
    BY <1>1, <1>6 DEF Tabled, end
  <2>2. closed = [planner EXCEPT !.chunks = chunks, !.from = n, !.start = PtsMs(packet),
                                 !.aligned = packet.key]
    BY <1>1 DEF PlannerType, chunks
  <2> HIDE DEF next, closed
  <2>3. closed \in PlannerType
    BY <1>1, <1>3, <1>5, <2>2 DEF PlannerType
  <2>4. closed.chunks = chunks /\ closed.from = n /\ closed.start = PtsMs(packet)
    BY <1>1, <2>2 DEF PlannerType
  <2>5. /\ next \in PlannerType /\ next.chunks = chunks /\ next.from = n
        /\ next.count = n /\ next.start = PtsMs(packet)
    BY <1>1, <1>3, <2>1, <2>3, <2>4 DEF PlannerType
  <2>6. CutSoFar(next, packets, apart)
    BY <1>1, <1>6, <2>5, CutHolds DEF packet, chunks
  <2>7. QED
    BY <2>5, <2>6 DEF next, packet
<1>7. CASE ~Cuts(apart, planner.start, planner.count, packet)
  <2>1. next = [planner EXCEPT !.end = end, !.count = n]
    BY <1>1, <1>7 DEF Tabled, end
  <2>2. /\ next \in PlannerType /\ next.chunks = planner.chunks
        /\ next.from = planner.from /\ next.count = n /\ next.start = planner.start
    BY <1>1, <1>3, <2>1 DEF PlannerType
  <2> HIDE DEF next
  <2>3. CASE planner.count > 0
    <3>1. CutSoFar(next, packets, apart)
      BY <1>1, <2>2, <2>3, JoinHolds
    <3>2. QED
      BY <2>2, <3>1 DEF next, packet
  <2>4. CASE planner.count = 0
    <3>1. planner.chunks = <<>> /\ Len(next.chunks) = 0 /\ n = 1 /\ next.from = 1
      BY <1>1, <2>2, <2>4 DEF CutSoFar
    <3>2. CutSoFar(next, packets, apart)
      BY <1>1, <2>2, <3>1 DEF CutSoFar
    <3>3. QED
      BY <2>2, <3>2 DEF next, packet
  <2>5. QED
    BY <1>1, <2>3, <2>4
<1>8. QED
  BY <1>6, <1>7

\* The walk over a table, from the planner base: its state after every prefix.
Walk(after, packets, apart, base, N) ==
  after = [n \in 0 .. N |->
             IF n = 0 THEN base ELSE Tabled(after[n - 1], packets[n], apart)]

\* The planner's walk over a sample table exists.
LEMMA WalkExists ==
  ASSUME NEW packets, NEW apart, NEW base, NEW N \in Nat
  PROVE  \E after : Walk(after, packets, apart, base, N)
<1> DEFINE Step(g, n) == IF n = 0 THEN base ELSE Tabled(g[n - 1], packets[n], apart)
           P == {k \in 0 .. N : \E g : g = [n \in 0 .. k |-> Step(g, n)]}
<1>1. 0 \in P
  <2> DEFINE g == [n \in 0 .. 0 |-> base]
  <2>1. g = [n \in 0 .. 0 |-> Step(g, n)]
    OBVIOUS
  <2>2. \E h : h = [n \in 0 .. 0 |-> Step(h, n)]
    <3> HIDE DEF Step, g
    <3> WITNESS g
    <3>1. QED
      BY <2>1
  <2> HIDE DEF Step
  <2>3. QED
    BY <2>2
<1>2. ASSUME NEW k \in 1 .. N, k - 1 \in P PROVE k \in P
  <2>1. PICK g : g = [n \in 0 .. k - 1 |-> Step(g, n)]
    BY <1>2
  <2> DEFINE h == [n \in 0 .. k |-> IF n = k THEN Tabled(g[k - 1], packets[k], apart) ELSE g[n]]
  <2>2. ASSUME NEW n \in 0 .. k PROVE h[n] = Step(h, n)
    <3>1. CASE n = k
      <4>1. h[k - 1] = g[k - 1] /\ k # 0
        BY <1>2
      <4>2. QED
        BY <3>1, <4>1
    <3>2. CASE n \in 0 .. k - 1
      <4>1. h[n] = g[n] /\ g[n] = Step(g, n)
        BY <2>1, <3>2
      <4>2. n # 0 => h[n - 1] = g[n - 1]
        BY <3>2
      <4>3. QED
        BY <4>1, <4>2
    <3>3. QED
      BY <1>2, <2>2, <3>1, <3>2
  <2>3. h = [n \in 0 .. k |-> Step(h, n)]
    BY <2>2
  <2>4. \E f : f = [n \in 0 .. k |-> Step(f, n)]
    <3> HIDE DEF Step, h
    <3> WITNESS h
    <3>1. QED
      BY <2>3
  <2> HIDE DEF Step
  <2>5. k \in 0 .. N
    BY <1>2
  <2>6. QED
    BY <2>4, <2>5
<1>3. P = 0 .. N
  <2> HIDE DEF P
  <2>1. P \in SUBSET (0 .. N)
    BY DEF P
  <2>2. QED
    BY <1>1, <1>2, <2>1, UpTo
<1>4. N \in P
  <2> HIDE DEF P
  <2>1. QED
    BY <1>3
<1>5. QED
  BY <1>4 DEF Walk

\* A walk from an empty planner whose chunk begins with the first packet.
LEMMA WalkHolds ==
  ASSUME NEW packets \in Seq(PacketType), packets # <<>>, NEW apart \in Nat, apart > 0,
         NEW base \in PlannerType, base.count = 0, base.chunks = <<>>, base.from = 1,
         NEW after, Walk(after, packets, apart, base, Len(packets))
  PROVE  /\ CutSoFar(after[Len(packets)], packets, apart)
         /\ after[Len(packets)].count = Len(packets)
<1> DEFINE N == Len(packets)
           Done(n) == /\ CutSoFar(after[n], packets, apart) /\ after[n].count = n
                      /\ n = 0 => after[n].from = 1
           P == {n \in 0 .. N : Done(n)}
<1>1. N \in Nat /\ N > 0
  OBVIOUS
<1>2. /\ after[0] = base
      /\ \A n \in 1 .. N : after[n] = Tabled(after[n - 1], packets[n], apart)
  <2> HIDE DEF N
  <2>1. after = [n \in 0 .. N |->
                   IF n = 0 THEN base ELSE Tabled(after[n - 1], packets[n], apart)]
    BY DEF Walk, N
  <2>2. after[0] = base
    BY <1>1, <2>1
  <2>3. ASSUME NEW n \in 1 .. N
        PROVE  after[n] = Tabled(after[n - 1], packets[n], apart)
    BY <1>1, <2>1
  <2>4. QED
    BY <2>2, <2>3
<1>3. 0 \in P
  BY <1>1, <1>2 DEF CutSoFar
<1>4. ASSUME NEW n \in 1 .. N, n - 1 \in P PROVE n \in P
  <2>1. after[n] = Tabled(after[n - 1], packets[n], apart)
    BY <1>2
  <2>2. /\ CutSoFar(after[n - 1], packets, apart) /\ after[n - 1].count = n - 1
        /\ after[n - 1].count = 0 => after[n - 1].from = 1
    BY <1>4
  <2>3. /\ CutSoFar(Tabled(after[n - 1], packets[n], apart), packets, apart)
        /\ Tabled(after[n - 1], packets[n], apart).count = n
    BY <2>2, TabledHolds
  <2>4. QED
    BY <2>1, <2>3
<1>5. P = 0 .. N
  <2>1. P \in SUBSET (0 .. N)
    OBVIOUS
  <2> HIDE DEF P
  <2>2. QED
    BY <1>1, <1>3, <1>4, <2>1, UpTo
<1>6. N \in P
  <2> HIDE DEF P, N
  <2>1. QED
    BY <1>1, <1>5
<1>7. QED
  BY <1>6

\* SampleTable::chunk_plan cuts the packets of a table into the same kind of runs,
\* although its first chunk starts at zero and not at the first packet.
THEOREM TablePartitioned ==
  ASSUME NEW table, NEW scale, IntoPackets(table, scale) \in Seq(PacketType),
         IntoPackets(table, scale) # <<>>, table.sizes # <<>>, table.keys[1] \in BOOLEAN,
         NEW apart \in Nat, apart > 0
  PROVE  /\ TableChunkPlan(table, scale, apart) \in Seq(Chunks)
         /\ Partition(TableChunkPlan(table, scale, apart), IntoPackets(table, scale), apart)
<1> DEFINE packets == IntoPackets(table, scale)
           N == Len(packets)
           base == [NewPlanner EXCEPT !.aligned = table.keys[1]]
           after == CHOOSE g : g = [n \in 0 .. N |->
             IF n = 0 THEN base ELSE Tabled(g[n - 1], packets[n], apart)]
<1>1. packets \in Seq(PacketType) /\ packets # <<>> /\ N \in Nat /\ N > 0
  OBVIOUS
<1>2. TableChunkPlan(table, scale, apart) = Append(after[N].chunks, OpenChunk(after[N]))
  BY DEF TableChunkPlan
<1>3. /\ base \in PlannerType /\ base.count = 0 /\ base.chunks = <<>> /\ base.from = 1
  <2>1. base = [chunks |-> <<>>, count |-> 0, from |-> 1, start |-> 0, end |-> 0,
                aligned |-> table.keys[1]]
    BY DEF NewPlanner
  <2>2. <<>> \in Seq(Chunks)
    OBVIOUS
  <2> HIDE DEF base
  <2>3. QED
    BY <2>1, <2>2 DEF PlannerType
<1> HIDE DEF packets, base
<1>4. Walk(after, packets, apart, base, N)
  <2>1. \E g : Walk(g, packets, apart, base, N)
    <3> HIDE DEF N, after
    <3>1. QED
      BY <1>1, WalkExists
  <2>2. QED
    BY <2>1, Zenon DEF Walk
<1> HIDE DEF after
<1>5. CutSoFar(after[N], packets, apart) /\ after[N].count = N
  BY <1>1, <1>3, <1>4, WalkHolds
<1>6. Append(after[N].chunks, OpenChunk(after[N])) \in Seq(Chunks)
  <2>1. after[N] \in PlannerType /\ after[N].chunks \in Seq(Chunks)
    BY <1>5 DEF CutSoFar, PlannerType
  <2>2. OpenChunk(after[N]) \in Chunks
    BY <2>1, OpenChunkType
  <2>3. QED
    BY <2>1, <2>2
<1>7. QED
  BY <1>1, <1>2, <1>5, <1>6, HoldsPartition DEF packets

-----------------------------------------------------------------------------
(***************************************************************************)
(* The packets of a table: into_packets, for any boxes that parse.         *)
(***************************************************************************)
\* Finitely many numbers have a lowest and a highest.
LEMMA Lowest ==
  ASSUME NEW N \in Nat, NEW f \in [0 .. N -> Int]
  PROVE  \E m \in 0 .. N : \A n \in 0 .. N : f[m] <= f[n]
<1> DEFINE Low(k) == \E m \in 0 .. k : \A n \in 0 .. k : f[m] <= f[n]
           P == {k \in 0 .. N : Low(k)}
<1>1. 0 \in P
  OBVIOUS
<1>2. ASSUME NEW k \in 1 .. N, k - 1 \in P PROVE k \in P
  <2>1. PICK m \in 0 .. k - 1 : \A n \in 0 .. k - 1 : f[m] <= f[n]
    BY <1>2
  <2>2. f[m] \in Int /\ f[k] \in Int /\ \A n \in 0 .. k : n \in 0 .. k - 1 \/ n = k
    OBVIOUS
  <2>3. CASE f[m] <= f[k]
    <3>1. m \in 0 .. k /\ \A n \in 0 .. k : f[m] <= f[n]
      BY <2>1, <2>2, <2>3
    <3>2. QED
      BY <3>1
  <2>4. CASE ~(f[m] <= f[k])
    <3>1. k \in 0 .. k /\ \A n \in 0 .. k : f[n] \in Int
      OBVIOUS
    <3>2. \A n \in 0 .. k : f[k] <= f[n]
      BY <2>1, <2>2, <2>4, <3>1
    <3>3. QED
      BY <3>1, <3>2
  <2>5. QED
    BY <2>3, <2>4
<1>3. P = 0 .. N
  <2> HIDE DEF P
  <2>1. P \in SUBSET (0 .. N)
    BY DEF P
  <2>2. QED
    BY <1>1, <1>2, <2>1, UpTo
<1>4. N \in P
  <2> HIDE DEF P
  <2>1. QED
    BY <1>3
<1>5. QED
  BY <1>4

\* Finitely many numbers have a greatest,
LEMMA Highest ==
  ASSUME NEW N \in Nat, NEW f \in [0 .. N -> Int]
  PROVE  \E m \in 0 .. N : \A n \in 0 .. N : f[m] >= f[n]
<1> DEFINE g == [n \in 0 .. N |-> -f[n]]
<1>1. g \in [0 .. N -> Int]
  OBVIOUS
<1>2. \A n \in 0 .. N : f[n] \in Int /\ g[n] = -f[n]
  OBVIOUS
<1> HIDE DEF g
<1>3. PICK m \in 0 .. N : \A n \in 0 .. N : g[m] <= g[n]
  BY <1>1, Lowest
<1>4. \A n \in 0 .. N : f[m] >= f[n]
  <2>1. \A n \in 0 .. N : -f[m] <= -f[n]
    BY <1>2, <1>3
  <2>2. QED
    BY <1>2, <2>1
<1>5. QED
  BY <1>4

\* The smallest of some numbers is one of them.
LEMMA Smallest ==
  ASSUME NEW S \in SUBSET Nat, S # {}
  PROVE  SmallestOf(S) \in S /\ \A x \in S : SmallestOf(S) <= x
<1> DEFINE Less == {ss \in Nat \X Nat : ss[1] < ss[2]}
<1>1. IsWellFoundedOn(Less, Nat)
  BY NatLessThanWellFounded DEF OpToRel
<1>2. \A k, n \in Nat : k < n => <<k, n>> \in Less
  OBVIOUS
<1> HIDE DEF Less
<1>3. PICK m \in S : \A k \in S : <<k, m>> \notin Less
  BY <1>1, WFMin, Zenon
<1>4. ASSUME NEW k \in S PROVE m <= k
  <2>1. ~(k < m)
    BY <1>2, <1>3, Zenon
  <2>2. QED
    BY <2>1
<1>5. \E x \in S : \A y \in S : x <= y
  BY <1>4
<1>6. QED
  BY <1>5 DEF SmallestOf

\* and so has a set of bounded numbers.
LEMMA Largest ==
  ASSUME NEW N \in Nat, NEW S \in SUBSET (0 .. N), S # {}
  PROVE  LargestOf(S) \in S
<1> DEFINE T == {N - x : x \in S}
<1>1. T \in SUBSET Nat /\ T # {}
  <2>1. ASSUME NEW x \in S PROVE N - x \in Nat
    OBVIOUS
  <2>2. QED
    BY <2>1, Zenon
<1>2. SmallestOf(T) \in T /\ \A x \in T : SmallestOf(T) <= x
  <2> HIDE DEF T
  <2>1. QED
    BY <1>1, Smallest
<1>3. PICK m \in S : SmallestOf(T) = N - m
  BY <1>2
<1>4. ASSUME NEW x \in S PROVE m >= x
  <2>1. N - m <= N - x
    BY <1>2, <1>3, Zenon
  <2>2. QED
    BY <2>1
<1>5. \E x \in S : \A y \in S : x >= y
  BY <1>4
<1>6. QED
  BY <1>5 DEF LargestOf

\* Prefix sums.
LEMMA PrefixSumsIs ==
  ASSUME NEW s, s \in Seq(Int)
  PROVE  /\ PrefixSums(s) \in [0 .. Len(s) -> Int]
         /\ PrefixSums(s)[0] = 0
         /\ \A n \in 1 .. Len(s) : PrefixSums(s)[n] = PrefixSums(s)[n - 1] + s[n]
<1> DEFINE N == Len(s)
           Z == Int
           zero == 0
           F == [n \in 1 .. N |-> [x \in Z |-> x + s[n]]]
           Is(f) == f = [n \in 0 .. N |-> IF n = 0 THEN 0 ELSE f[n - 1] + s[n]]
<1>1. N \in Nat /\ zero \in Z /\ F \in [1 .. N -> [Z -> Z]]
  OBVIOUS
<1>2. \A n \in 1 .. N : n - 1 \in 0 .. N
  BY <1>1
<1>3. \A n \in 1 .. N, x \in Z : F[n][x] = x + s[n]
  OBVIOUS
<1> HIDE DEF F, N, Z, Is, zero
<1>4. PICK f \in [0 .. N -> Z] : f[0] = zero /\ \A n \in 1 .. N : f[n] = F[n][f[n - 1]]
  BY ONLY <1>1, Iteration
<1>5. Is(f)
  <2>1. \A n \in 1 .. N : f[n] = f[n - 1] + s[n]
    BY <1>2, <1>3, <1>4
  <2>2. QED
    BY <1>4, <2>1 DEF Is, N, Z, zero
<1> DEFINE sum == CHOOSE g : Is(g)
<1>6. Is(sum)
  BY <1>5
<1>7. PrefixSums(s) = sum
  BY DEF PrefixSums, Is, N
<1> HIDE DEF sum
<1>8. sum[0] = 0 /\ \A n \in 1 .. N : sum[n] = sum[n - 1] + s[n]
  BY <1>1, <1>6 DEF Is
<1>9. \A n \in 0 .. N : sum[n] \in Z
  <2>1. \A n \in 1 .. N : sum[n - 1] \in Z => sum[n] = F[n][sum[n - 1]]
    BY <1>3, <1>8
  <2>2. QED
    BY <1>1, <1>8, <2>1, IterationIs DEF zero
<1>10. sum \in [0 .. N -> Z]
  BY <1>6, <1>9 DEF Is
<1>11. QED
  BY <1>7, <1>8, <1>10 DEF N, Z

\* Prefix sums of natural numbers exist and do not fall.
LEMMA SumsRise ==
  ASSUME NEW s \in Seq(Nat)
  PROVE  /\ PrefixSums(s) \in [0 .. Len(s) -> Nat]
         /\ PrefixSums(s)[0] = 0
         /\ \A n \in 1 .. Len(s) : PrefixSums(s)[n] = PrefixSums(s)[n - 1] + s[n]
         /\ \A n \in 0 .. Len(s) : \A m \in 0 .. n : PrefixSums(s)[m] <= PrefixSums(s)[n]
<1> DEFINE N == Len(s)
           sum == PrefixSums(s)
<1>0. s \in Seq(Int) /\ N \in Nat /\ \A n \in 1 .. N : s[n] \in Nat
  OBVIOUS
<1>1. sum \in [0 .. N -> Int] /\ sum[0] = 0 /\ \A n \in 1 .. N : sum[n] = sum[n - 1] + s[n]
  BY <1>0, PrefixSumsIs
<1> HIDE DEF sum, N
<1> DEFINE Up(n) == sum[n] \in Nat /\ \A m \in 0 .. n : sum[m] <= sum[n]
           P == {n \in 0 .. N : Up(n)}
<1>2. 0 \in P
  BY <1>0, <1>1
<1>3. ASSUME NEW n \in 1 .. N, n - 1 \in P PROVE n \in P
  <2>1. sum[n] = sum[n - 1] + s[n] /\ s[n] \in Nat /\ sum[n - 1] \in Nat
    BY <1>0, <1>1, <1>3
  <2>2. ASSUME NEW m \in 0 .. n PROVE sum[m] <= sum[n]
    <3>1. CASE m = n
      BY <2>1, <3>1
    <3>2. CASE m # n
      <4>1. m \in 0 .. n - 1 /\ m \in 0 .. N
        BY <1>0, <3>2
      <4>2. sum[m] <= sum[n - 1] /\ sum[m] \in Int
        BY <1>1, <1>3, <4>1
      <4>3. QED
        BY <2>1, <4>2
    <3>3. QED
      BY <3>1, <3>2
  <2>3. QED
    BY <2>1, <2>2
<1>4. P = 0 .. N
  <2> HIDE DEF P
  <2>1. P \in SUBSET (0 .. N)
    BY DEF P
  <2>2. QED
    BY <1>0, <1>2, <1>3, <2>1, UpTo
<1>5. \A n \in 0 .. N : Up(n)
  <2> HIDE DEF Up
  <2>1. QED
    BY <1>4
<1>6. QED
  BY <1>1, <1>5 DEF sum, N

\* Rows of counts and values stand for as many values as they count.
LEMMA ExpandedType ==
  ASSUME NEW V, NEW rows \in Seq(Nat \X V)
  PROVE  LET counts == [r \in DOMAIN rows |-> rows[r][1]]
         IN  /\ Expanded(rows) \in Seq(V) /\ Len(Expanded(rows)) = TotalOf(counts)
             /\ TotalOf(counts) \in Nat
<1> DEFINE counts == [r \in DOMAIN rows |-> rows[r][1]]
           N == Len(rows)
           before == PrefixSums(counts)
           row(i) == SmallestOf({r \in DOMAIN rows : i <= before[r]})
<1>1. N \in Nat /\ DOMAIN rows = 1 .. N /\ \A r \in 1 .. N : rows[r][1] \in Nat /\ rows[r][2] \in V
  OBVIOUS
<1>2. counts \in Seq(Nat) /\ Len(counts) = N
  <2>1. counts \in [1 .. N -> Nat]
    BY <1>1
  <2> HIDE DEF counts, N
  <2>2. QED
    BY <1>1, <2>1
<1>3. before \in [0 .. N -> Nat] /\ before[0] = 0
  BY <1>2, SumsRise
<1>4. TotalOf(counts) = before[N] /\ before[N] \in Nat
  BY <1>1, <1>2, <1>3 DEF TotalOf
<1>5. ASSUME NEW i \in 1 .. before[N] PROVE rows[row(i)][2] \in V
  <2> DEFINE S == {r \in DOMAIN rows : i <= before[r]}
  <2>1. S \in SUBSET Nat /\ S \subseteq 1 .. N
    BY <1>1
  <2>2. N \in S
    <3>1. N # 0
      BY <1>3, <1>4
    <3>2. QED
      BY <1>1, <1>4, <3>1
  <2>3. SmallestOf(S) \in S
    <3> HIDE DEF S
    <3>1. QED
      BY <2>1, <2>2, Smallest
  <2>4. QED
    BY <1>1, <2>1, <2>3
<1>6. Expanded(rows) = [i \in 1 .. before[N] |-> rows[row(i)][2]]
  BY DEF Expanded
<1> HIDE DEF before, row, counts
<1>7. Expanded(rows) \in [1 .. before[N] -> V]
  BY <1>5, <1>6
<1>8. Expanded(rows) \in Seq(V) /\ Len(Expanded(rows)) = before[N]
  BY <1>4, <1>7
<1>9. QED
  BY <1>4, <1>8 DEF counts

TableType(n) ==
  [sizes : [1 .. n -> Nat], durations : [1 .. n -> Nat], offsets : [1 .. n -> Int],
   keys : [1 .. n -> BOOLEAN], chunkOffsets : Seq(Nat),
   perChunk : Seq([first : Nat, samples : Nat]) \ {<<>>}]

\* A table of well-formed boxes has all of it for every sample.
LEMMA TableTyped ==
  ASSUME NEW boxes \in BoxesType, WellFormed(boxes)
  PROVE  Len(boxes.stsz) \in Nat /\ TableOf(boxes) \in TableType(Len(boxes.stsz))
<1> DEFINE n == Len(boxes.stsz)
           T == TableOf(boxes)
<1>1. /\ boxes.stsz \in Seq(Nat) /\ boxes.stts \in Seq(Nat \X Nat)
      /\ boxes.ctts \in {NoBox} \cup Seq(Nat \X Int) /\ boxes.stco \in {NoBox} \cup Seq(Nat)
      /\ boxes.stsc \in Seq([first : Nat, samples : Nat])
  BY DEF BoxesType
<1>2. /\ TotalOf([r \in DOMAIN boxes.stts |-> boxes.stts[r][1]]) = n
      /\ boxes.ctts # NoBox => TotalOf([r \in DOMAIN boxes.ctts |-> boxes.ctts[r][1]]) = n
      /\ boxes.stco # NoBox /\ Len(boxes.stsc) \in 1 .. MaxTableEntries
  BY DEF WellFormed, CoversSamples
<1>3. n \in Nat /\ DOMAIN boxes.stsz = 1 .. n /\ boxes.stsz \in [1 .. n -> Nat]
  BY <1>1
<1>4. Expanded(boxes.stts) \in Seq(Nat) /\ Len(Expanded(boxes.stts)) = n
  BY <1>1, <1>2, ExpandedType
<1>5. Expanded(boxes.stts) \in [1 .. n -> Nat]
  BY <1>4
<1>6. T.offsets \in [1 .. n -> Int]
  <2>1. CASE boxes.ctts = NoBox
    BY <1>3, <2>1 DEF TableOf
  <2>2. CASE boxes.ctts # NoBox
    <3>1. boxes.ctts \in Seq(Nat \X Int)
      BY <1>1, <2>2
    <3>2. Expanded(boxes.ctts) \in Seq(Int) /\ Len(Expanded(boxes.ctts)) = n
      BY <1>2, <2>2, <3>1, ExpandedType
    <3>3. Expanded(boxes.ctts) \in [1 .. n -> Int]
      BY <3>2
    <3>4. QED
      BY <2>2, <3>3 DEF TableOf
  <2>3. QED
    BY <2>1, <2>2
<1>7. T.keys \in [1 .. n -> BOOLEAN]
  <2> DEFINE key(i) == boxes.stss = NoBox \/ \E k \in DOMAIN boxes.stss : boxes.stss[k] = i
  <2>1. T.keys = [i \in 1 .. n |-> key(i)]
    BY <1>3 DEF TableOf
  <2>2. \A i \in 1 .. n : key(i) \in BOOLEAN
    OBVIOUS
  <2> HIDE DEF key
  <2>3. QED
    BY <2>1, <2>2
<1>8. T.perChunk \in Seq([first : Nat, samples : Nat]) /\ T.perChunk # <<>>
  BY <1>1, <1>2 DEF TableOf
<1>9. T.chunkOffsets \in Seq(Nat)
  BY <1>1, <1>2 DEF TableOf
<1>10. T.sizes \in [1 .. n -> Nat] /\ T.durations \in [1 .. n -> Nat]
  BY <1>3, <1>5 DEF TableOf
<1>11. T = [sizes |-> T.sizes, durations |-> T.durations, offsets |-> T.offsets,
            keys |-> T.keys, chunkOffsets |-> T.chunkOffsets, perChunk |-> T.perChunk]
  BY DEF TableOf
<1> HIDE DEF T
<1>12. T \in TableType(n)
  BY <1>6, <1>7, <1>8, <1>9, <1>10, <1>11 DEF TableType
<1>13. QED
  BY <1>3, <1>12 DEF T

\* The fields of an accepted table fit together.
LEMMA TableFields ==
  ASSUME NEW n \in Nat, NEW T \in TableType(n)
  PROVE  /\ T.sizes \in Seq(Nat) /\ Len(T.sizes) = n /\ DOMAIN T.sizes = 1 .. n
         /\ T.durations \in Seq(Nat) /\ Len(T.durations) = n
         /\ T.offsets \in [1 .. n -> Int] /\ T.keys \in [1 .. n -> BOOLEAN]
         /\ T.chunkOffsets \in Seq(Nat)
         /\ T.perChunk \in Seq([first : Nat, samples : Nat]) /\ T.perChunk # <<>>
<1>1. T.sizes \in [1 .. n -> Nat] /\ T.durations \in [1 .. n -> Nat]
  BY DEF TableType
<1>2. T.sizes \in Seq(Nat) /\ Len(T.sizes) = n /\ T.durations \in Seq(Nat) /\ Len(T.durations) = n
  BY <1>1
<1>3. QED
  BY <1>1, <1>2 DEF TableType

\* Decode times run on by the durations.
LEMMA DecodeTimesType ==
  ASSUME NEW n \in Nat, NEW T \in TableType(n)
  PROVE  /\ DecodeTimes(T) \in [1 .. n -> Nat]
         /\ \A i \in 1 .. n - 1 : DecodeTimes(T)[i + 1] = DecodeTimes(T)[i] + T.durations[i]
<1> DEFINE sum == PrefixSums(T.durations)
<1>1. /\ sum \in [0 .. n -> Nat] /\ \A i \in 1 .. n : sum[i] = sum[i - 1] + T.durations[i]
  BY TableFields, SumsRise
<1>2. DecodeTimes(T) = [i \in 1 .. n |-> sum[i - 1]]
  BY TableFields DEF DecodeTimes
<1> HIDE DEF sum
<1>3. \A i \in 1 .. n : i - 1 \in 0 .. n
  OBVIOUS
<1>4. DecodeTimes(T) \in [1 .. n -> Nat]
  BY <1>1, <1>2, <1>3
<1>5. ASSUME NEW i \in 1 .. n - 1
      PROVE  DecodeTimes(T)[i + 1] = DecodeTimes(T)[i] + T.durations[i]
  <2>1. i + 1 \in 1 .. n /\ i \in 1 .. n /\ (i + 1) - 1 = i
    OBVIOUS
  <2>2. QED
    BY <1>1, <1>2, <2>1
<1>6. QED
  BY <1>4, <1>5

\* The shift makes every time non-negative.
LEMMA ShiftSuffices ==
  ASSUME NEW n \in Nat, NEW T \in TableType(n)
  PROVE  /\ Shift(T) \in Nat
         /\ \A i \in 1 .. n : DecodeTimes(T)[i] + T.offsets[i] + Shift(T) \in Nat
<1> DEFINE dts == DecodeTimes(T)
           times == {0} \cup {dts[i] : i \in DOMAIN dts}
                        \cup {dts[i] + T.offsets[i] : i \in DOMAIN dts}
           h == [k \in 0 .. 2 * n |-> IF k = 0 THEN 0 ELSE IF k <= n THEN dts[k]
                                      ELSE dts[k - n] + T.offsets[k - n]]
<1>1. dts \in [1 .. n -> Nat] /\ T.offsets \in [1 .. n -> Int]
  BY DecodeTimesType, TableFields
<1> HIDE DEF dts
<1>2. h \in [0 .. 2 * n -> Int]
  <2>1. ASSUME NEW k \in 0 .. 2 * n
        PROVE  (IF k = 0 THEN 0 ELSE IF k <= n THEN dts[k]
                ELSE dts[k - n] + T.offsets[k - n]) \in Int
    <3>1. CASE k = 0
      BY <3>1
    <3>2. CASE k # 0 /\ k <= n
      <4>1. k \in 1 .. n
        BY <3>2
      <4>2. QED
        BY <1>1, <3>2, <4>1
    <3>3. CASE k > n
      <4>1. k - n \in 1 .. n
        BY <3>3
      <4>2. QED
        BY <1>1, <3>3, <4>1
    <3>4. QED
      BY <3>1, <3>2, <3>3
  <2>2. QED
    BY <2>1
<1>3. ASSUME NEW x \in times PROVE \E k \in 0 .. 2 * n : h[k] = x
  <2>1. CASE x = 0
    <3>1. 0 \in 0 .. 2 * n /\ h[0] = 0
      OBVIOUS
    <3>2. QED
      BY <2>1, <3>1
  <2>2. ASSUME NEW i \in 1 .. n, x = dts[i] PROVE \E k \in 0 .. 2 * n : h[k] = x
    <3>1. i \in 0 .. 2 * n /\ h[i] = dts[i]
      OBVIOUS
    <3>2. QED
      BY <2>2, <3>1
  <2>3. ASSUME NEW i \in 1 .. n, x = dts[i] + T.offsets[i] PROVE \E k \in 0 .. 2 * n : h[k] = x
    <3>1. /\ n + i \in 0 .. 2 * n /\ n + i # 0 /\ ~(n + i <= n) /\ (n + i) - n = i
      OBVIOUS
    <3>2. h[n + i] = dts[i] + T.offsets[i]
      BY <3>1
    <3>3. QED
      BY <2>3, <3>1, <3>2
  <2>4. QED
    BY <1>1, <2>1, <2>2, <2>3
<1>4. ASSUME NEW k \in 0 .. 2 * n PROVE h[k] \in times
  <2>1. CASE k = 0
    BY <2>1
  <2>2. CASE k # 0 /\ k <= n
    <3>1. k \in DOMAIN dts /\ h[k] = dts[k]
      BY <1>1, <2>2
    <3>2. QED
      BY <3>1
  <2>3. CASE k > n
    <3>1. k - n \in DOMAIN dts /\ h[k] = dts[k - n] + T.offsets[k - n]
      BY <1>1, <2>3
    <3>2. QED
      BY <3>1
  <2>4. QED
    BY <2>1, <2>2, <2>3
<1>4a. 0 \in times /\ \A i \in 1 .. n : dts[i] + T.offsets[i] \in times
  BY <1>1
<1>5. Shift(T) = -SmallestOf(times)
  BY DEF Shift, dts
<1> HIDE DEF h, times
<1>6. 2 * n \in Nat
  OBVIOUS
<1>7. PICK m \in 0 .. 2 * n : \A k \in 0 .. 2 * n : h[m] <= h[k]
  BY <1>2, <1>6, Lowest
<1>8. h[m] \in times /\ \A y \in times : h[m] <= y
  BY <1>3, <1>4, <1>7
<1>9. SmallestOf(times) \in times /\ \A y \in times : SmallestOf(times) <= y
  BY <1>8 DEF SmallestOf
<1>10. \A y \in times : y \in Int
  BY <1>2, <1>3
<1>11. QED
  <2> DEFINE low == SmallestOf(times)
  <2>1. low \in Int /\ low <= 0 /\ \A i \in 1 .. n : low <= dts[i] + T.offsets[i]
    BY <1>4a, <1>9, <1>10
  <2>2. \A i \in 1 .. n : dts[i] + T.offsets[i] \in Int
    BY <1>1
  <2> HIDE DEF low
  <2>3. -low \in Nat /\ \A i \in 1 .. n : dts[i] + T.offsets[i] + (-low) \in Nat
    BY <2>1, <2>2
  <2>4. QED
    BY <1>5, <2>3 DEF low, dts

\* Every chunk has a row.
LEMMA ChunkRooms ==
  ASSUME NEW n \in Nat, NEW T \in TableType(n)
  PROVE  SamplesInChunk(T) \in Seq(Nat) /\ Len(SamplesInChunk(T)) = Len(T.chunkOffsets)
<1> DEFINE C == Len(T.chunkOffsets)
           R == Len(T.perChunk)
<1>1. /\ C \in Nat /\ DOMAIN T.chunkOffsets = 1 .. C
      /\ R \in Nat \ {0} /\ DOMAIN T.perChunk = 1 .. R
      /\ \A r \in 1 .. R : T.perChunk[r] \in [first : Nat, samples : Nat]
  <2>1. T.chunkOffsets \in Seq(Nat)
    BY TableFields
  <2> DEFINE rows == T.perChunk
             Row == [first : Nat, samples : Nat]
  <2>2. rows \in Seq(Row) /\ rows # <<>>
    BY TableFields
  <2> HIDE DEF rows, Row
  <2>3. /\ Len(rows) \in Nat \ {0} /\ DOMAIN rows = 1 .. Len(rows)
        /\ \A r \in 1 .. Len(rows) : rows[r] \in Row
    BY <2>2
  <2>4. C \in Nat /\ DOMAIN T.chunkOffsets = 1 .. C
    BY <2>1
  <2>5. QED
    BY <2>3, <2>4 DEF rows, Row
<1> HIDE DEF C, R
<1>2. ASSUME NEW c \in 1 .. C PROVE T.perChunk[RowOfChunk(T, c)].samples \in Nat
  <2> DEFINE S == {r \in DOMAIN T.perChunk : \A q \in 2 .. r : T.perChunk[q].first <= c}
  <2>1. 1 \in S /\ S \in SUBSET (0 .. R) /\ S \subseteq 1 .. R
    BY <1>1
  <2>2. RowOfChunk(T, c) = LargestOf(S)
    BY DEF RowOfChunk
  <2> HIDE DEF S
  <2>3. S # {} /\ R \in Nat
    BY <1>1, <2>1
  <2>4. LargestOf(S) \in 1 .. R
    BY <2>1, <2>3, Largest
  <2>5. T.perChunk[RowOfChunk(T, c)] \in [first : Nat, samples : Nat]
    BY <1>1, <2>2, <2>4
  <2>6. QED
    BY <2>5
<1>3. SamplesInChunk(T) = [c \in 1 .. C |-> T.perChunk[RowOfChunk(T, c)].samples]
  BY <1>1 DEF SamplesInChunk
<1>4. SamplesInChunk(T) \in [1 .. C -> Nat]
  BY <1>2, <1>3
<1>5. SamplesInChunk(T) \in Seq(Nat) /\ Len(SamplesInChunk(T)) = C
  BY <1>1, <1>4
<1>6. QED
  BY <1>5 DEF C

\* A sample that has room in the chunks lies at an offset of the file.
LEMMA SourceOffsetType ==
  ASSUME NEW n \in Nat, NEW T \in TableType(n)
  PROVE  /\ Placed(T) \in Nat /\ Placed(T) <= n
         /\ \A i \in 1 .. Placed(T) : SourceOffset(T, i) \in Nat
<1> DEFINE rooms == SamplesInChunk(T)
           C == Len(T.chunkOffsets)
           room == PrefixSums(rooms)
           bytes == PrefixSums(T.sizes)
<1>1. rooms \in Seq(Nat) /\ Len(rooms) = C /\ C \in Nat /\ DOMAIN T.chunkOffsets = 1 .. C
      /\ \A c \in 1 .. C : T.chunkOffsets[c] \in Nat
  <2>1. T.chunkOffsets \in Seq(Nat)
    BY TableFields
  <2>2. rooms \in Seq(Nat) /\ Len(rooms) = C
    BY ChunkRooms
  <2>3. QED
    BY ONLY <2>1, <2>2, C = Len(T.chunkOffsets)
<1>2. /\ room \in [0 .. C -> Nat] /\ room[0] = 0
      /\ \A k \in 0 .. C : \A m \in 0 .. k : room[m] <= room[k]
  <2> HIDE DEF rooms, C
  <2>1. QED
    BY <1>1, SumsRise
<1>3. /\ bytes \in [0 .. n -> Nat] /\ \A k \in 0 .. n : \A m \in 0 .. k : bytes[m] <= bytes[k]
  BY TableFields, SumsRise
<1>4. Placed(T) = Smaller(n, room[C]) /\ room[C] \in Nat
  <2>1. TotalOf(rooms) = room[C]
    BY <1>1 DEF TotalOf
  <2>2. Len(T.sizes) = n
    BY TableFields
  <2>3. Placed(T) = Smaller(n, room[C])
    BY <2>1, <2>2 DEF Placed
  <2>4. C \in 0 .. C
    BY <1>1
  <2>5. room[C] \in Nat
    BY <1>2, <2>4
  <2>6. QED
    BY <2>3, <2>5
<1>5. Placed(T) \in Nat /\ Placed(T) <= n /\ Placed(T) <= room[C]
  BY <1>4 DEF Smaller
<1>6. ASSUME NEW i \in 1 .. Placed(T) PROVE SourceOffset(T, i) \in Nat
  <2> DEFINE S == {k \in DOMAIN T.chunkOffsets : i <= room[k]}
             c == SmallestOf(S)
  <2>1. i <= room[C] /\ i \in 1 .. n /\ i - 1 \in 0 .. n
    BY <1>4, <1>5
  <2>2. C \in S /\ S \in SUBSET Nat /\ S \subseteq 1 .. C
    <3>1. C # 0
      BY <1>2, <2>1
    <3>2. QED
      BY <1>1, <2>1, <3>1
  <2>3. c \in S /\ \A x \in S : c <= x
    <3> HIDE DEF S
    <3>1. QED
      BY <2>2, Smallest
  <2> HIDE DEF c
  <2>4. c \in 1 .. C /\ c - 1 \in 0 .. C /\ c - 1 \notin S
    BY <1>1, <2>2, <2>3
  <2>5. room[c - 1] < i /\ room[c - 1] \in Nat
    <3>1. room[c - 1] \in Nat
      BY <1>2, <2>4
    <3>2. CASE c - 1 = 0
      BY <1>2, <2>1, <3>1, <3>2
    <3>3. CASE c - 1 # 0
      <4>1. c - 1 \in DOMAIN T.chunkOffsets
        BY <1>1, <2>4, <3>3
      <4>2. ~(i <= room[c - 1])
        BY <2>4, <4>1
      <4>3. QED
        BY <2>1, <3>1, <4>2
    <3>4. QED
      BY <3>2, <3>3
  <2>6. room[c - 1] \in 0 .. i - 1
    BY <2>1, <2>5
  <2>7. bytes[room[c - 1]] <= bytes[i - 1] /\ bytes[i - 1] \in Nat /\ bytes[room[c - 1]] \in Nat
    <3>1. room[c - 1] \in 0 .. n
      BY <2>1, <2>6
    <3>2. QED
      BY <1>3, <2>1, <2>6, <3>1
  <2>8. SourceOffset(T, i) = T.chunkOffsets[c] + bytes[i - 1] - bytes[room[c - 1]]
    BY DEF SourceOffset, c
  <2>9. T.chunkOffsets[c] \in Nat
    BY <1>1, <2>4
  <2> HIDE DEF bytes, room
  <2>10. QED
    BY <2>7, <2>8, <2>9
<1>7. QED
  BY <1>5, <1>6

\* The packets of a table that parses are packets: no time is negative, every
\* sample has its place in the file, and each is decoded when the one before it ends.
THEOREM TablePackets ==
  ASSUME NEW boxes \in BoxesType, WellFormed(boxes), NEW scale \in Nat
  PROVE  LET packets == IntoPackets(TableOf(boxes), scale)
         IN  /\ packets \in Seq(PacketType) /\ Len(packets) <= Len(boxes.stsz)
             /\ \A i \in DOMAIN packets : packets[i].scale = scale
             /\ \A i \in 1 .. Len(packets) - 1 :
                  packets[i + 1].dts = packets[i].dts + packets[i].duration
<1> DEFINE n == Len(boxes.stsz)
           T == TableOf(boxes)
           dts == DecodeTimes(T)
           shift == Shift(T)
           packets == IntoPackets(T, scale)
           N == Placed(T)
<1>1. n \in Nat /\ T \in TableType(n)
  BY TableTyped
<1> HIDE DEF n, T
<1>2. /\ dts \in [1 .. n -> Nat] /\ \A i \in 1 .. n - 1 : dts[i + 1] = dts[i] + T.durations[i]
  BY <1>1, DecodeTimesType
<1>3. shift \in Nat /\ \A i \in 1 .. n : dts[i] + T.offsets[i] + shift \in Nat
  BY <1>1, ShiftSuffices
<1>4. N \in Nat /\ N <= n /\ \A i \in 1 .. N : SourceOffset(T, i) \in Nat
  BY <1>1, SourceOffsetType
<1>5. /\ T.durations \in [1 .. n -> Nat] /\ T.sizes \in [1 .. n -> Nat]
      /\ T.keys \in [1 .. n -> BOOLEAN]
  BY <1>1 DEF TableType
<1>6. packets = [i \in 1 .. N |->
        Packet(scale, SourceOffset(T, i), T.sizes[i],
                dts[i] + T.offsets[i] + shift, dts[i] + shift,
                T.durations[i], T.keys[i])]
  BY DEF IntoPackets
<1> HIDE DEF N, dts, shift, packets
<1>7. ASSUME NEW i \in 1 .. N
      PROVE  /\ packets[i] \in PacketType /\ packets[i].scale = scale
             /\ packets[i].dts = dts[i] + shift /\ packets[i].duration = T.durations[i]
             /\ i \in 1 .. n
  <2>1. i \in 1 .. n
    BY <1>1, <1>4
  <2>2. /\ SourceOffset(T, i) \in Nat /\ T.sizes[i] \in Nat /\ dts[i] + T.offsets[i] + shift \in Nat
        /\ dts[i] + shift \in Nat /\ T.durations[i] \in Nat /\ T.keys[i] \in BOOLEAN
    <3>1. SourceOffset(T, i) \in Nat /\ dts[i] + T.offsets[i] + shift \in Nat
      BY <1>3, <1>4, <2>1
    <3>2. dts[i] \in Nat
      BY <1>2, <2>1
    <3>3. dts[i] + shift \in Nat
      BY <1>3, <3>2
    <3>4. T.sizes[i] \in Nat /\ T.durations[i] \in Nat /\ T.keys[i] \in BOOLEAN
      BY <1>5, <2>1
    <3>5. QED
      BY <3>1, <3>3, <3>4
  <2>3. packets[i] = Packet(scale, SourceOffset(T, i), T.sizes[i],
                dts[i] + T.offsets[i] + shift, dts[i] + shift,
                T.durations[i], T.keys[i])
    BY <1>6
  <2>4. QED
    BY <2>1, <2>2, <2>3 DEF Packet, PacketType
<1>8. packets \in [1 .. N -> PacketType]
  BY <1>6, <1>7
<1>9. packets \in Seq(PacketType) /\ Len(packets) = N /\ DOMAIN packets = 1 .. N
  BY <1>4, <1>8
<1>10. ASSUME NEW i \in 1 .. N - 1
       PROVE  packets[i + 1].dts = packets[i].dts + packets[i].duration
  <2>1. i \in 1 .. N /\ i + 1 \in 1 .. N /\ i \in 1 .. n - 1 /\ i \in 1 .. n /\ i + 1 \in 1 .. n
    BY <1>1, <1>4
  <2>2. dts[i + 1] = dts[i] + T.durations[i]
    BY <1>2, <2>1
  <2>3. dts[i] \in Nat /\ T.durations[i] \in Nat
    BY <1>2, <1>5, <2>1
  <2>4. packets[i + 1].dts = dts[i + 1] + shift
    BY <1>7, <2>1
  <2>5. packets[i].dts = dts[i] + shift /\ packets[i].duration = T.durations[i]
    BY <1>7, <2>1
  <2>6. QED
    BY <1>3, <2>2, <2>3, <2>4, <2>5
<1>11. QED
  BY <1>4, <1>7, <1>9, <1>10 DEF packets, T, n

=============================================================================
