----------------------------- MODULE SqlTextProofs -----------------------------
(***************************************************************************)
(* The rewriters of SqlText are right for texts of every length.  The      *)
(* induction over the text goes through a least counterexample, which      *)
(* exists because the subsets of a finite set are well founded.            *)
(***************************************************************************)
EXTENDS SqlText, FiniteSetTheorems, SequenceTheorems, TLAPS

-------------------------------------------------------------------------------
(* Induction *)

\* A set of naturals that is not empty has a least element.
LEMMA LeastElement ==
    ASSUME NEW S \in SUBSET Nat, S # {}
    PROVE  \E n \in S : \A m \in S : n <= m
<1>1. PICK n \in S : TRUE
  OBVIOUS
<1> DEFINE U == 0..n
           T == {0..(k - 1) : k \in {j \in S : j <= n}}
<1>2. IsFiniteSet(U)
  BY FS_Interval
<1>3. IsWellFoundedOn(StrictSubsetOrdering(U), FiniteSubsetsOf(U))
  BY <1>2, FS_StrictSubsetOrderingWellFounded
<1>4. T \subseteq FiniteSubsetsOf(U) /\ T # {}
  <2>1. T \subseteq SUBSET U /\ T # {}
    OBVIOUS
  <2>2. FiniteSubsetsOf(U) = SUBSET U
    BY <1>2, FS_FiniteSubsetsOfFinite
  <2>. QED  BY <2>1, <2>2
<1>5. PICK x \in T : \A y \in T : ~ (<<y, x>> \in StrictSubsetOrdering(U))
  <2>. HIDE DEF T, U
  <2>. QED  BY <1>3, <1>4, WFMin
<1>6. PICK k \in S : k <= n /\ x = 0..(k - 1)
  BY <1>5
<1>7. ASSUME NEW m \in S, m < k  PROVE FALSE
  <2>1. 0..(m - 1) \in T
    BY <1>6, <1>7
  <2>2. 0..(m - 1) \in SUBSET U /\ x \in SUBSET U
    BY <1>6, <1>7
  <2>3. 0..(m - 1) \subseteq x /\ 0..(m - 1) # x
    <3>1. (k - 1) \in x /\ (k - 1) \notin 0..(m - 1)
      BY <1>6, <1>7
    <3>. QED  BY <3>1, <1>6, <1>7
  <2>. QED  BY <2>1, <2>2, <2>3, <1>5 DEF StrictSubsetOrdering
<1>. QED  BY <1>6, <1>7

\* Induction over the natural numbers, for the elements of a set.
LEMMA SetInduction ==
    ASSUME NEW S, 0 \in S, \A n \in Nat : n \in S => n + 1 \in S
    PROVE  Nat \subseteq S
<1> DEFINE B == Nat \ S
<1> SUFFICES ASSUME B # {}  PROVE FALSE
  OBVIOUS
<1>1. PICK n \in B : \A m \in B : n <= m
  BY LeastElement
<1>2. n # 0 /\ n - 1 \in Nat /\ n - 1 \notin B
  BY <1>1
<1>. QED  BY <1>1, <1>2

-------------------------------------------------------------------------------
(* Positions *)

\* Ranks are naturals, from 0 to the number of positions.
LEMMA RankType ==
    ASSUME NEW n \in Nat, NEW at \in SUBSET (1..n)
    PROVE  /\ IsFiniteSet(at) /\ Cardinality(at) \in Nat
           /\ \A p \in 0..n : Rank(at, p) \in Nat
           /\ Rank(at, 0) = 0 /\ Rank(at, n) = Cardinality(at)
<1>1. IsFiniteSet(1..n)
  BY FS_Interval
<1>2. IsFiniteSet(at) /\ Cardinality(at) \in Nat
  BY <1>1, FS_Subset, FS_CardinalityType
<1>3. ASSUME NEW p \in 0..n  PROVE Rank(at, p) \in Nat
  <2>1. {q \in at : q <= p} \subseteq at
    OBVIOUS
  <2>. QED  BY <2>1, <1>2, FS_Subset, FS_CardinalityType DEF Rank
<1>4. \A q \in at : ~(q <= 0) /\ q <= n
  OBVIOUS
<1>5. {q \in at : q <= 0} = {}
  BY <1>4
<1>6. {q \in at : q <= n} = at
  BY <1>4
<1>. QED  BY <1>2, <1>3, <1>5, <1>6, FS_EmptySet DEF Rank

\* The rank grows by one at each of the positions.
LEMMA RankNext ==
    ASSUME NEW n \in Nat, NEW at \in SUBSET (1..n), NEW p \in 1..n
    PROVE  Rank(at, p) = Rank(at, p - 1) + (IF p \in at THEN 1 ELSE 0)
<1> DEFINE below == {q \in at : q <= p - 1}
           upto == {q \in at : q <= p}
<1>1. IsFiniteSet(below) /\ p \notin below
  <2>1. IsFiniteSet(at)
    BY RankType
  <2>. QED  BY <2>1, FS_Subset
<1>2. \A q \in at : (q <= p <=> (q <= p - 1 \/ q = p))
  OBVIOUS
<1>3. CASE p \in at
  <2>1. upto = below \cup {p}
    BY <1>2, <1>3
  <2>2. Cardinality(upto) = Cardinality(below) + 1
    <3>. HIDE DEF below, upto
    <3>. QED  BY <1>1, <2>1, FS_AddElement
  <2>. QED  BY <1>3, <2>2 DEF Rank
<1>4. CASE p \notin at
  <2>1. upto = below
    BY <1>2, <1>4
  <2>2. Rank(at, p) = Rank(at, p - 1)
    BY <2>1 DEF Rank
  <2>3. Rank(at, p) \in Nat
    BY RankType
  <2>. QED  BY <1>4, <2>2, <2>3
<1>. QED  BY <1>3, <1>4

\* Positions have different ranks, in their order.
LEMMA RankGrows ==
    ASSUME NEW n \in Nat, NEW at \in SUBSET (1..n), NEW p \in 0..n, NEW q \in at, p < q
    PROVE  Rank(at, p) < Rank(at, q)
<1> DEFINE low == {x \in at : x <= p}
           high == {x \in at : x <= q - 1}
<1>0. p \in Nat /\ q \in 1..n /\ q - 1 \in 0..n
  OBVIOUS
<1>1. low \subseteq high
  <2>1. \A x \in at : x <= p => x <= q - 1
    BY <1>0
  <2>. QED  BY <2>1
<1>2. IsFiniteSet(high)
  <2>1. IsFiniteSet(at)
    BY RankType
  <2>. QED  BY <2>1, FS_Subset
<1>3. Cardinality(low) <= Cardinality(high)
  <2>. HIDE DEF low, high
  <2>. QED  BY <1>1, <1>2, FS_Subset
<1>4. Rank(at, p) <= Rank(at, q - 1)
  BY <1>3 DEF Rank
<1>5. Rank(at, q) = Rank(at, q - 1) + 1
  BY <1>0, RankNext
<1>6. Rank(at, p) \in Nat /\ Rank(at, q - 1) \in Nat
  BY <1>0, RankType
<1>. QED  BY <1>4, <1>5, <1>6

\* The n-th position is a position, and every one is the n-th for its rank.
LEMMA NthPosition ==
    ASSUME NEW n \in Nat, NEW at \in SUBSET (1..n), NEW k \in 1..Cardinality(at)
    PROVE  Nth(at, k) \in at /\ Rank(at, Nth(at, k)) = k
<1> DEFINE S == {p \in 0..n : Rank(at, p) >= k}
<1>0. Cardinality(at) \in Nat /\ Rank(at, n) = Cardinality(at) /\ Rank(at, 0) = 0
  BY RankType
<1>1. n \in S
  BY <1>0
<1>2. PICK p \in S : \A m \in S : p <= m
  <2>1. S \in SUBSET Nat
    OBVIOUS
  <2>. QED  BY <1>1, <2>1, LeastElement
<1>3. p # 0
  BY <1>0, <1>2
<1>4. p - 1 \in 0..n /\ p - 1 \notin S
  BY <1>2, <1>3
<1>5. Rank(at, p) = Rank(at, p - 1) + (IF p \in at THEN 1 ELSE 0)
  BY <1>3, RankNext
<1>6. Rank(at, p) \in Nat /\ Rank(at, p - 1) \in Nat
  BY <1>4, RankType
<1>7. p \in at /\ Rank(at, p) = k
  BY <1>2, <1>4, <1>5, <1>6
<1>. QED  BY <1>7 DEF Nth

\* Nth is the inverse of Rank.
LEMMA PositionRanked ==
    ASSUME NEW n \in Nat, NEW at \in SUBSET (1..n), NEW p \in at
    PROVE  Rank(at, p) \in 1..Cardinality(at) /\ Nth(at, Rank(at, p)) = p
<1>0. p \in 1..n /\ \A q \in at : q \in 1..n
  OBVIOUS
<1>1. Rank(at, p) \in Nat /\ Rank(at, 0) \in Nat /\ Rank(at, 0) < Rank(at, p)
  BY <1>0, RankType, RankGrows
<1>2. Rank(at, p) <= Cardinality(at)
  <2>1. {q \in at : q <= p} \subseteq at /\ IsFiniteSet(at)
    BY RankType
  <2>. QED  BY <2>1, FS_Subset DEF Rank
<1>3. Rank(at, p) \in 1..Cardinality(at)
  <2>1. Cardinality(at) \in Nat
    BY RankType
  <2>. QED  BY <1>1, <1>2, <2>1
<1>4. ASSUME NEW q \in at, Rank(at, q) = Rank(at, p)  PROVE q = p
  <2>1. p \in 0..n /\ q \in 0..n
    BY <1>0
  <2>2. ~(q < p) /\ ~(p < q)
    BY <2>1, <1>1, <1>4, RankGrows
  <2>. QED  BY <2>1, <2>2
<1>5. Nth(at, Rank(at, p)) \in at /\ Rank(at, Nth(at, Rank(at, p))) = Rank(at, p)
  BY <1>3, NthPosition
<1>. QED  BY <1>3, <1>4, <1>5

\* Positions are numbered in their order.
LEMMA NthGrows ==
    ASSUME NEW n \in Nat, NEW at \in SUBSET (1..n),
           NEW k \in 1..Cardinality(at), NEW l \in 1..Cardinality(at), k < l
    PROVE  Nth(at, k) < Nth(at, l)
<1> DEFINE p == Nth(at, k)
           q == Nth(at, l)
<1>1. p \in at /\ q \in at /\ Rank(at, p) = k /\ Rank(at, q) = l
  BY NthPosition
<1>. HIDE DEF p, q
<1>2. p \in 0..n /\ q \in 0..n
  BY <1>1
<1>3. k \in Nat /\ l \in Nat
  BY RankType
<1>4. ~(q < p) /\ q # p
  BY <1>1, <1>2, <1>3, RankGrows
<1>5. p < q
  BY <1>2, <1>4
<1>. QED  BY <1>5 DEF p, q

LEMMA SequenceDomain ==
    ASSUME NEW s, IsSeq(s)
    PROVE  Len(s) \in Nat /\ DOMAIN s = 1..Len(s)
BY LenProperties DEF IsSeq

\* A function on 1..n is a sequence of length n.
LEMMA IntervalIsSequence ==
    ASSUME NEW n \in Nat, NEW s, s = [i \in 1..n |-> s[i]]
    PROVE  IsSeq(s) /\ Len(s) = n
<1> DEFINE R == {s[i] : i \in DOMAIN s}
<1>1. s \in [1..n -> R]
  OBVIOUS
<1>2. s \in Seq(R)
  <2>. HIDE DEF R
  <2>. QED  BY <1>1
<1>3. Len(s) = n
  <2>1. Len(s) \in Nat /\ DOMAIN s = 1..Len(s)
    <3>. HIDE DEF R
    <3>. QED  BY <1>2, LenProperties
  <2>2. 1..n = 1..Len(s)
    BY <1>1, <2>1
  <2>3. n <= Len(s) /\ Len(s) <= n
    <3>1. \A i \in Nat \ {0} : i <= n <=> i <= Len(s)
      BY <2>1, <2>2
    <3>. QED  BY <3>1, <2>1
  <2>. QED  BY <2>1, <2>3
<1>. QED  BY <1>2, <1>3 DEF IsSeq

LEMMA ElementsOfSequence ==
    ASSUME NEW R, NEW s \in Seq(R)
    PROVE  IsSeq(s) /\ Len(s) \in Nat /\ DOMAIN s = 1..Len(s)
<1>1. Len(s) \in Nat /\ s \in [1..Len(s) -> R]
  BY LenProperties
<1>2. s = [i \in 1..Len(s) |-> s[i]]
  BY <1>1
<1>. QED  BY <1>1, <1>2, IntervalIsSequence

\* What is kept of a list is a list of the elements at the positions, in their order.
LEMMA KeptElements ==
    ASSUME NEW s, IsSeq(s), NEW at \in SUBSET (DOMAIN s)
    PROVE  /\ IsSeq(Kept(s, at)) /\ Len(Kept(s, at)) = Cardinality(at)
           /\ DOMAIN Kept(s, at) = 1..Cardinality(at)
           /\ \A k \in 1..Cardinality(at) :
                 Nth(at, k) \in at /\ Kept(s, at)[k] = s[Nth(at, k)]
           /\ \A p \in at :
                 Rank(at, p) \in 1..Cardinality(at) /\ Kept(s, at)[Rank(at, p)] = s[p]
<1> DEFINE n == Len(s)
<1>0. n \in Nat /\ at \in SUBSET (1..n)
  BY SequenceDomain
<1>. HIDE DEF n
<1>1. Cardinality(at) \in Nat
  BY <1>0, RankType
<1>2. IsSeq(Kept(s, at)) /\ Len(Kept(s, at)) = Cardinality(at)
  <2>1. Kept(s, at) = [k \in 1..Cardinality(at) |-> Kept(s, at)[k]]
    BY DEF Kept
  <2>. QED  BY <1>1, <2>1, IntervalIsSequence
<1>3. \A k \in 1..Cardinality(at) : Nth(at, k) \in at /\ Kept(s, at)[k] = s[Nth(at, k)]
  BY <1>0, NthPosition DEF Kept
<1>4. \A p \in at : Rank(at, p) \in 1..Cardinality(at) /\ Kept(s, at)[Rank(at, p)] = s[p]
  BY <1>0, PositionRanked DEF Kept
<1>. QED  BY <1>2, <1>3, <1>4 DEF Kept

-------------------------------------------------------------------------------
(* Counting before a place *)

Placeholders(sql) == {i \in DOMAIN sql : IsPlaceholder(sql[i])}
Quotes(sql) == {i \in DOMAIN sql : sql[i].is = "quote"}

\* What comes before a place, counted as a rank.
LEMMA BeforeRank ==
    ASSUME NEW sql, IsSeq(sql), NEW i \in DOMAIN sql
    PROVE  /\ Cardinality(Before(sql, i, "placeholder")) = Rank(Placeholders(sql), i - 1)
           /\ Cardinality(Before(sql, i, "quote")) = Rank(Quotes(sql), i - 1)
<1>1. i \in 1..Len(sql) /\ DOMAIN sql = 1..Len(sql) /\ Len(sql) \in Nat
  BY SequenceDomain
<1>2. \A j : j \in 1..(i - 1) <=> j \in DOMAIN sql /\ j <= i - 1
  BY <1>1
<1>3. Before(sql, i, "placeholder") = {q \in Placeholders(sql) : q <= i - 1}
  BY <1>2 DEF Before, Placeholders, IsPlaceholder
<1>4. Before(sql, i, "quote") = {q \in Quotes(sql) : q <= i - 1}
  BY <1>2 DEF Before, Quotes
<1>. QED  BY <1>3, <1>4 DEF Rank

\* The i-th name is that of the i-th placeholder.
LEMMA NamesInOrder ==
    ASSUME NEW sql, IsSeq(sql)
    PROVE  /\ IsSeq(Names(sql)) /\ Len(Names(sql)) = Cardinality(Placeholders(sql))
           /\ DOMAIN Names(sql) = 1..Cardinality(Placeholders(sql))
           /\ \A j \in Placeholders(sql) :
                 LET nth == Cardinality(Before(sql, j, "placeholder")) + 1
                 IN  nth \in DOMAIN Names(sql) /\ Names(sql)[nth] = sql[j].n
<1> DEFINE at == Placeholders(sql)
           kept == Kept(sql, at)
<1>1. Len(sql) \in Nat /\ DOMAIN sql = 1..Len(sql) /\ at \in SUBSET (1..Len(sql))
  BY SequenceDomain DEF Placeholders
<1>2. /\ DOMAIN kept = 1..Cardinality(at) /\ Cardinality(at) \in Nat
      /\ \A p \in at : Rank(at, p) \in 1..Cardinality(at) /\ kept[Rank(at, p)] = sql[p]
  <2>1. Cardinality(at) \in Nat
    BY <1>1, RankType
  <2>2. at \in SUBSET (DOMAIN sql)
    BY <1>1
  <2>. HIDE DEF at
  <2>. QED  BY <2>1, <2>2, KeptElements
<1>3. Names(sql) = [i \in 1..Cardinality(at) |-> kept[i].n]
  BY <1>2 DEF Names, NamesAt, Placeholders
<1>4. IsSeq(Names(sql)) /\ Len(Names(sql)) = Cardinality(at)
  <2>1. Names(sql) = [i \in 1..Cardinality(at) |-> Names(sql)[i]]
    BY <1>3
  <2>. QED  BY <1>2, <2>1, IntervalIsSequence
<1>5. ASSUME NEW j \in at
      PROVE  Cardinality(Before(sql, j, "placeholder")) + 1 = Rank(at, j)
  <2>1. j \in 1..Len(sql) /\ j \in DOMAIN sql
    BY <1>1
  <2>2. Rank(at, j) = Rank(at, j - 1) + 1
    <3>. HIDE DEF at
    <3>. QED  BY <1>1, <1>5, <2>1, RankNext
  <2>. QED  BY <2>1, <2>2, BeforeRank
<1>. QED  BY <1>2, <1>3, <1>4, <1>5

-------------------------------------------------------------------------------
(* The scan *)

\* The states of the loop over a text, as the recursive function in Scan has them.
Scanned(sql, limit) ==
    CHOOSE f : f = [i \in 0..Len(sql) |->
        IF i = 0 THEN ScanStart ELSE ScanStep(sql, limit, f[i - 1], i)]

\* The text Scan returns is the last of the states it goes through.
LEMMA ScanIsScanned ==
    ASSUME NEW sql, NEW limit
    PROVE  Scan(sql, limit) = Scanned(sql, limit)[Len(sql)].out
BY DEF Scan, Scanned

\* The states of the scan follow each other by ScanStep.
LEMMA ScannedStates ==
    ASSUME NEW sql, IsSeq(sql), NEW limit
    PROVE  Scanned(sql, limit) = [i \in 0..Len(sql) |->
               IF i = 0 THEN ScanStart
               ELSE ScanStep(sql, limit, Scanned(sql, limit)[i - 1], i)]
<1> DEFINE States(g, n) ==
               [i \in 0..n |-> IF i = 0 THEN ScanStart ELSE ScanStep(sql, limit, g[i - 1], i)]
           K == {n \in Nat : \E g : g = States(g, n)}
<1>1. 0 \in K
  <2>1. [i \in 0..0 |-> ScanStart] = States([i \in 0..0 |-> ScanStart], 0)
    OBVIOUS
  <2>. QED  BY <2>1
<1>2. ASSUME NEW n \in Nat, n \in K  PROVE n + 1 \in K
  <2>1. PICK g : g = States(g, n)
    BY <1>2
  <2> DEFINE h == [i \in 0..(n + 1) |->
                     IF i <= n THEN g[i] ELSE ScanStep(sql, limit, g[n], n + 1)]
  <2>2. ASSUME NEW i \in 0..(n + 1)
        PROVE  h[i] = IF i = 0 THEN ScanStart ELSE ScanStep(sql, limit, h[i - 1], i)
    <3>1. CASE i = 0
      BY <2>1, <3>1
    <3>2. CASE i \in 1..n
      BY <2>1, <3>2
    <3>3. CASE i = n + 1
      BY <2>1, <3>3
    <3>. QED  BY <3>1, <3>2, <3>3
  <2>3. h = States(h, n + 1)
    BY <2>2
  <2>. HIDE DEF h
  <2>. QED  BY <2>3
<1>3. Nat \subseteq K
  <2>. HIDE DEF K
  <2>. QED  BY <1>1, <1>2, SetInduction
<1>4. \E g : g = States(g, Len(sql))
  BY <1>3, SequenceDomain
<1>. QED  BY <1>4 DEF Scanned

-------------------------------------------------------------------------------
(* What the scan makes of a regular text *)

\* The kinds of pieces are different.
LEMMA PieceKinds ==
    ASSUME NEW sql, IsText(sql), NEW i \in DOMAIN sql
    PROVE  /\ IsPlaceholder(sql[i]) => sql[i] # Quote /\ sql[i] # Mark
           /\ sql[i] = Quote <=> sql[i].is = "quote"
           /\ Quote # Mark /\ Other # Quote /\ Other # Mark
           /\ ~IsPlaceholder(sql[i]) => sql[i] \in {Quote, Mark, Other}
           /\ ~IsPlaceholder(Quote) /\ ~IsPlaceholder(Mark) /\ ~IsPlaceholder(Other)
<1>1. sql[i] \in {Quote, Mark, Other} \/ sql[i] = Placeholder(sql[i].n)
  BY DEF IsText
<1>2. Quote.is = "quote" /\ Mark.is = "mark" /\ Other.is = "other"
  BY DEF Quote, Mark, Other
<1>3. sql[i] = Placeholder(sql[i].n) => sql[i].is = "placeholder"
  BY DEF Placeholder
<1>. QED  BY <1>1, <1>2, <1>3 DEF IsPlaceholder

\* What the client sends has the length of the text in the file, and its quotes.
LEMMA RenderedText ==
    ASSUME NEW sql, IsText(sql)
    PROVE  /\ IsSeq(Rendered(sql)) /\ Len(Rendered(sql)) = Len(sql)
           /\ \A i \in DOMAIN sql :
                 /\ IsPlaceholder(sql[i]) => Rendered(sql)[i] = Mark
                 /\ ~IsPlaceholder(sql[i]) => Rendered(sql)[i] = sql[i]
                 /\ Rendered(sql)[i] = Quote <=> sql[i] = Quote
<1>1. Len(sql) \in Nat /\ DOMAIN sql = 1..Len(sql)
  BY SequenceDomain DEF IsText
<1>2. Rendered(sql) = [i \in 1..Len(sql) |-> Rendered(sql)[i]]
  BY <1>1 DEF Rendered
<1>3. IsSeq(Rendered(sql)) /\ Len(Rendered(sql)) = Len(sql)
  BY <1>1, <1>2, IntervalIsSequence
<1>4. ASSUME NEW i \in DOMAIN sql
      PROVE  /\ IsPlaceholder(sql[i]) => Rendered(sql)[i] = Mark
             /\ ~IsPlaceholder(sql[i]) => Rendered(sql)[i] = sql[i]
             /\ Rendered(sql)[i] = Quote <=> sql[i] = Quote
  BY PieceKinds DEF Rendered
<1>. QED  BY <1>3, <1>4

\* After i pieces: how many binds there are, whether a literal is open, unless the
\* second quote of an escaped pair is still to come, and what has been written.
ScanCorrect(style, sql, i, s) ==
    /\ s \in [inStr : BOOLEAN, skip : BOOLEAN, n : Nat,
              out : Seq({Numbered(style, sql)[j] : j \in DOMAIN sql})]
    /\ s.n = Rank(Placeholders(sql), i)
    /\ Rank(Quotes(sql), i) % 2 = 1 <=> s.inStr /\ ~s.skip
    /\ s.skip => s.inStr /\ i < Len(sql) /\ sql[i + 1] = Quote
    /\ Len(s.out) = i
    /\ \A j \in 1..i : s.out[j] = Numbered(style, sql)[j]

LEMMA NumberedPieces ==
    ASSUME NEW style \in {"oracle", "number"}, NEW sql, NEW i \in DOMAIN sql
    PROVE  /\ ~IsPlaceholder(sql[i]) => Numbered(style, sql)[i] = sql[i]
           /\ IsPlaceholder(sql[i]) =>
                 Numbered(style, sql)[i] = Bind(Cardinality(Before(sql, i, "placeholder")) + 1)
BY DEF Numbered

\* One more piece of N is written behind those already there.
LEMMA WriteNext ==
    ASSUME NEW P, NEW out \in Seq(P), NEW i \in Nat \ {0}, Len(out) = i - 1,
           NEW N, \A j \in 1..(i - 1) : out[j] = N[j], NEW x \in P, x = N[i]
    PROVE  /\ Append(out, x) \in Seq(P) /\ Len(Append(out, x)) = i
           /\ \A j \in 1..i : Append(out, x)[j] = N[j]
<1>1. Append(out, x) \in Seq(P) /\ Len(Append(out, x)) = i
  OBVIOUS
<1>2. ASSUME NEW j \in 1..i  PROVE Append(out, x)[j] = N[j]
  <2>1. CASE j = i
    BY <2>1
  <2>2. CASE j \in 1..(i - 1)
    BY <2>2
  <2>. QED  BY <2>1, <2>2
<1>. QED  BY <1>1, <1>2

LEMMA Parity ==
    ASSUME NEW k \in Nat
    PROVE  (k + 1) % 2 = 1 <=> ~(k % 2 = 1)
OBVIOUS

\* One more piece keeps the scan correct.
LEMMA ScanStepCorrect ==
    ASSUME NEW style \in {"oracle", "number"}, NEW sql, IsText(sql), Regular(sql),
           NEW limit \in Nat, Cardinality(Placeholders(sql)) <= limit,
           NEW i \in 1..Len(sql), NEW s, ScanCorrect(style, sql, i - 1, s)
    PROVE  ScanCorrect(style, sql, i, ScanStep(Rendered(sql), limit, s, i))
<1> DEFINE r == Rendered(sql)
           N == Numbered(style, sql)
           P == {N[j] : j \in DOMAIN sql}
           State == [inStr : BOOLEAN, skip : BOOLEAN, n : Nat, out : Seq(P)]
           places == Rank(Placeholders(sql), i - 1)
           quotes == Rank(Quotes(sql), i - 1)
<1>1. Len(sql) \in Nat /\ DOMAIN sql = 1..Len(sql) /\ i \in DOMAIN sql /\ Len(r) = Len(sql)
  BY SequenceDomain, RenderedText DEF IsText
<1>2. Placeholders(sql) \in SUBSET (1..Len(sql)) /\ Quotes(sql) \in SUBSET (1..Len(sql))
  BY <1>1 DEF Placeholders, Quotes
<1>3. places \in Nat /\ quotes \in Nat
  <2>1. i - 1 \in 0..Len(sql)
    BY <1>1
  <2>. QED  BY <2>1, <1>1, <1>2, RankType
<1>4. Rank(Placeholders(sql), i) = places + (IF IsPlaceholder(sql[i]) THEN 1 ELSE 0)
  BY <1>1, <1>2, RankNext DEF Placeholders
<1>5. Rank(Quotes(sql), i) = quotes + (IF sql[i] = Quote THEN 1 ELSE 0)
  <2>1. i \in Quotes(sql) <=> sql[i] = Quote
    BY <1>1, PieceKinds DEF Quotes
  <2>. QED  BY <2>1, <1>1, <1>2, RankNext
<1>6. /\ Cardinality(Before(sql, i, "placeholder")) = places
      /\ InLiteral(sql, i) <=> quotes % 2 = 1
  BY <1>1, BeforeRank DEF IsText, InLiteral
<1>7. /\ s \in State /\ s.n = places /\ (quotes % 2 = 1 <=> s.inStr /\ ~s.skip)
      /\ s.skip => s.inStr /\ i - 1 < Len(sql) /\ sql[i] = Quote
      /\ Len(s.out) = i - 1 /\ \A j \in 1..(i - 1) : s.out[j] = N[j]
  BY <1>1 DEF ScanCorrect
<1>8. N[i] \in P
  BY <1>1
<1>9. /\ Append(s.out, N[i]) \in Seq(P) /\ Len(Append(s.out, N[i])) = i
      /\ \A j \in 1..i : Append(s.out, N[i])[j] = N[j]
  <2>. HIDE DEF N, P
  <2>. QED  BY <1>7, <1>8, WriteNext
<1>10. (quotes + 1) % 2 = 1 <=> ~(quotes % 2 = 1)
  BY <1>3, Parity
<1>. HIDE DEF N, P, r, places, quotes
<1>11. ASSUME NEW t \in State, t.out = Append(s.out, N[i]),
              t.n = Rank(Placeholders(sql), i),
              Rank(Quotes(sql), i) % 2 = 1 <=> t.inStr /\ ~t.skip,
              t.skip => t.inStr /\ i < Len(sql) /\ sql[i + 1] = Quote
       PROVE  ScanCorrect(style, sql, i, t)
  BY <1>9, <1>11 DEF ScanCorrect, N, P
<1> DEFINE t == ScanStep(r, limit, s, i)
<1> SUFFICES ScanCorrect(style, sql, i, t)
  BY DEF r
<1>12. CASE s.skip
  <2>1. sql[i] = Quote /\ ~IsPlaceholder(sql[i]) /\ r[i] = Quote /\ N[i] = Quote
    BY <1>1, <1>7, <1>12, PieceKinds, RenderedText, NumberedPieces DEF r, N
  <2>2. t = [s EXCEPT !.skip = FALSE, !.out = Append(s.out, N[i])]
    BY <1>12, <2>1 DEF ScanStep
  <2>3. t \in State /\ t.out = Append(s.out, N[i])
    BY <1>7, <1>9, <2>2
  <2>4. t.n = s.n /\ t.inStr /\ ~t.skip
    BY <1>7, <1>12, <2>2
  <2>5. Rank(Quotes(sql), i) % 2 = 1
    BY <1>5, <1>7, <1>10, <1>12, <2>1
  <2>6. t.n = Rank(Placeholders(sql), i)
    BY <1>3, <1>4, <1>7, <2>1, <2>4
  <2>. HIDE DEF t, State
  <2>. QED  BY <1>11, <2>3, <2>4, <2>5, <2>6
<1>13. CASE ~s.skip /\ sql[i] = Quote
  <2>1. ~IsPlaceholder(sql[i]) /\ r[i] = Quote /\ N[i] = Quote
    BY <1>1, <1>13, PieceKinds, RenderedText, NumberedPieces DEF r, N
  <2>2. t = ScanQuote(r, s, i)
    BY <1>13, <2>1 DEF ScanStep
  <2>3. s.n = Rank(Placeholders(sql), i)
    BY <1>3, <1>4, <1>7, <2>1
  <2>4. Rank(Quotes(sql), i) % 2 = 1 <=> ~s.inStr
    BY <1>5, <1>7, <1>10, <1>13
  <2>5. CASE s.inStr /\ i < Len(r) /\ r[i + 1] = Quote
    <3>1. t = [s EXCEPT !.skip = TRUE, !.out = Append(s.out, N[i])]
      BY <2>1, <2>2, <2>5 DEF ScanQuote
    <3>2. t \in State /\ t.out = Append(s.out, N[i])
      BY <1>7, <1>9, <3>1
    <3>3. t.n = s.n /\ t.inStr /\ t.skip
      BY <1>7, <2>5, <3>1
    <3>4. i < Len(sql) /\ sql[i + 1] = Quote
      <4>1. i + 1 \in DOMAIN sql
        BY <1>1, <2>5
      <4>. QED  BY <4>1, <1>1, <2>5, RenderedText DEF r
    <3>. HIDE DEF t, State
    <3>. QED  BY <1>11, <2>3, <2>4, <2>5, <3>2, <3>3, <3>4
  <2>6. CASE ~(s.inStr /\ i < Len(r) /\ r[i + 1] = Quote)
    <3>1. t = [s EXCEPT !.inStr = ~s.inStr, !.out = Append(s.out, N[i])]
      BY <2>1, <2>2, <2>6 DEF ScanQuote
    <3>2. t \in State /\ t.out = Append(s.out, N[i])
      BY <1>7, <1>9, <3>1
    <3>3. t.n = s.n /\ t.inStr = ~s.inStr /\ ~t.skip
      BY <1>7, <1>13, <3>1
    <3>. HIDE DEF t, State
    <3>. QED  BY <1>11, <2>3, <2>4, <3>2, <3>3
  <2>. QED  BY <2>5, <2>6
<1>14. CASE ~s.skip /\ IsPlaceholder(sql[i])
  <2>1. sql[i] # Quote /\ r[i] = Mark /\ r[i] # Quote /\ N[i] = Bind(places + 1)
    BY <1>1, <1>6, <1>14, PieceKinds, RenderedText, NumberedPieces DEF r, N
  <2>2. ~(quotes % 2 = 1) /\ ~s.inStr
    BY <1>1, <1>6, <1>7, <1>14 DEF Regular
  <2>3. places < limit
    <3>1. i \in Placeholders(sql)
      BY <1>1, <1>14 DEF Placeholders
    <3>2. Rank(Placeholders(sql), i) \in 1..Cardinality(Placeholders(sql))
      BY <3>1, <1>1, <1>2, PositionRanked
    <3>3. Cardinality(Placeholders(sql)) \in Nat
      BY <1>1, <1>2, RankType
    <3>. QED  BY <3>2, <3>3, <1>3, <1>4, <1>14
  <2>4. t = [s EXCEPT !.n = s.n + 1, !.out = Append(s.out, N[i])]
    BY <1>7, <1>14, <2>1, <2>2, <2>3 DEF ScanStep
  <2>5. t \in State /\ t.out = Append(s.out, N[i])
    <3>1. s.n + 1 \in Nat
      BY <1>7
    <3>. HIDE DEF t
    <3>. QED  BY <1>7, <1>9, <2>4, <3>1
  <2>6. t.n = s.n + 1 /\ ~t.inStr /\ ~t.skip
    BY <1>7, <1>14, <2>2, <2>4
  <2>7. t.n = Rank(Placeholders(sql), i)
    BY <1>4, <1>7, <1>14, <2>6
  <2>8. Rank(Quotes(sql), i) = quotes
    BY <1>3, <1>5, <2>1
  <2>. HIDE DEF t, State
  <2>. QED  BY <1>11, <2>2, <2>5, <2>6, <2>7, <2>8
<1>15. CASE ~s.skip /\ sql[i] # Quote /\ ~IsPlaceholder(sql[i])
  <2>1. r[i] = sql[i] /\ N[i] = sql[i]
    BY <1>1, <1>15, RenderedText, NumberedPieces DEF r, N
  <2>2. sql[i] = Mark => s.inStr
    BY <1>1, <1>6, <1>7, <1>15 DEF Regular
  <2>3. t = [s EXCEPT !.out = Append(s.out, N[i])]
    BY <1>7, <1>15, <2>1, <2>2 DEF ScanStep
  <2>4. t \in State /\ t.out = Append(s.out, N[i])
    BY <1>7, <1>9, <2>3
  <2>5. t.n = s.n /\ t.inStr = s.inStr /\ t.skip = s.skip
    BY <1>7, <2>3
  <2>6. s.n = Rank(Placeholders(sql), i) /\ Rank(Quotes(sql), i) = quotes
    BY <1>3, <1>4, <1>5, <1>7, <1>15
  <2>. HIDE DEF t, State
  <2>. QED  BY <1>7, <1>11, <1>15, <2>4, <2>5, <2>6
<1>. QED  BY <1>12, <1>13, <1>14, <1>15

\* Behind the last piece the scan has written the numbered text.
LEMMA ScanCorrectAtEnd ==
    ASSUME NEW style \in {"oracle", "number"}, NEW sql, IsText(sql), Regular(sql),
           NEW limit \in Nat, Cardinality(Placeholders(sql)) <= limit
    PROVE  Scan(Rendered(sql), limit) = Numbered(style, sql)
<1> DEFINE r == Rendered(sql)
           after == Scanned(r, limit)
           K == {i \in Nat : i <= Len(sql) => ScanCorrect(style, sql, i, after[i])}
<1>1. Len(sql) \in Nat /\ DOMAIN sql = 1..Len(sql) /\ IsSeq(r) /\ Len(r) = Len(sql)
  BY SequenceDomain, RenderedText DEF IsText
<1>2. \A i \in 0..Len(sql) :
          after[i] = IF i = 0 THEN ScanStart ELSE ScanStep(r, limit, after[i - 1], i)
  <2>. HIDE DEF r
  <2>. QED  BY <1>1, ScannedStates
<1>. HIDE DEF after
<1>3. 0 \in K
  <2>1. after[0] = ScanStart
    BY <1>1, <1>2
  <2>2. Rank(Placeholders(sql), 0) = 0 /\ Rank(Quotes(sql), 0) = 0
    <3>1. Placeholders(sql) \in SUBSET (1..Len(sql)) /\ Quotes(sql) \in SUBSET (1..Len(sql))
      BY <1>1 DEF Placeholders, Quotes
    <3>. QED  BY <3>1, <1>1, RankType
  <2>3. ScanCorrect(style, sql, 0, ScanStart)
    BY <2>2 DEF ScanCorrect, ScanStart
  <2>. QED  BY <2>1, <2>3
<1>4. ASSUME NEW i \in Nat, i \in K  PROVE i + 1 \in K
  <2> SUFFICES ASSUME i + 1 <= Len(sql)  PROVE ScanCorrect(style, sql, i + 1, after[i + 1])
    OBVIOUS
  <2>1. ScanCorrect(style, sql, i, after[i]) /\ i + 1 \in 1..Len(sql)
    BY <1>1, <1>4
  <2>2. after[i + 1] = ScanStep(r, limit, after[i], i + 1)
    BY <1>1, <1>2, <2>1
  <2>3. (i + 1) - 1 = i
    OBVIOUS
  <2>. QED  BY <2>1, <2>2, <2>3, ScanStepCorrect
<1>5. Nat \subseteq K
  <2>. HIDE DEF K
  <2>. QED  BY <1>3, <1>4, SetInduction
<1>6. ScanCorrect(style, sql, Len(sql), after[Len(sql)])
  BY <1>1, <1>5
<1> DEFINE out == after[Len(sql)].out
           N == Numbered(style, sql)
<1>7. Len(out) = Len(sql) /\ \A j \in 1..Len(sql) : out[j] = N[j]
  BY <1>6 DEF ScanCorrect
<1>8. out \in Seq({N[j] : j \in DOMAIN sql})
  BY <1>6 DEF ScanCorrect
<1>9. out = [j \in 1..Len(sql) |-> N[j]]
  <2>. HIDE DEF out, N
  <2>1. DOMAIN out = 1..Len(sql) /\ out = [j \in DOMAIN out |-> out[j]]
    BY <1>7, <1>8
  <2>. QED  BY <1>7, <2>1
<1>10. N = [j \in 1..Len(sql) |-> N[j]]
  BY <1>1 DEF Numbered
<1>11. Scan(r, limit) = out
  BY <1>1, ScanIsScanned DEF after
<1>. QED  BY <1>9, <1>10, <1>11

\* A text that is not scanned needs no scan.
LEMMA UnscannedText ==
    ASSUME NEW style \in Styles, NEW sql, IsText(sql),
           style = "question" \/ Placeholders(sql) = {}
    PROVE  Rendered(sql) = Numbered(style, sql)
<1>1. \A i \in DOMAIN sql : IsPlaceholder(sql[i]) => style = "question"
  BY DEF Placeholders
<1>. QED  BY <1>1 DEF Rendered, Numbered

\* Whichever the driver, the text it is given for a regular text of any length, with as
\* many values as the client sends, has the i-th placeholder as the i-th bind and is
\* otherwise as it was: neither question marks in literals nor escaped quotes lead the
\* scan astray (parser.py:174-178, pagination.go:11-40, placeholders.go:73-102).
THEOREM RewritersCount ==
    ASSUME NEW style \in Styles, NEW sql, IsText(sql), Regular(sql)
    PROVE  FinalSql(style, Rendered(sql), Len(Names(sql))) = Numbered(style, sql)
<1> DEFINE count == Cardinality(Placeholders(sql))
<1>1. Len(sql) \in Nat /\ Placeholders(sql) \in SUBSET (1..Len(sql)) /\ Len(Rendered(sql)) = Len(sql)
  BY SequenceDomain, RenderedText DEF IsText, Placeholders
<1>2. Len(Names(sql)) = count /\ IsFiniteSet(Placeholders(sql)) /\ count \in Nat
  BY <1>1, NamesInOrder, RankType DEF IsText
<1>3. count <= Len(sql)
  <2>1. \A n \in Nat : IsFiniteSet(1..n) /\ Cardinality(1..n) = n
    <3> SUFFICES ASSUME NEW n \in Nat  PROVE IsFiniteSet(1..n) /\ Cardinality(1..n) = n
      OBVIOUS
    <3>1. IsFiniteSet(1..n) /\ Cardinality(1..n) = IF 1 > n THEN 0 ELSE n - 1 + 1
      BY FS_Interval
    <3>. QED  BY <3>1
  <2>2. IsFiniteSet(1..Len(sql)) /\ Cardinality(1..Len(sql)) = Len(sql)
    BY <1>1, <2>1
  <2>. QED  BY <2>2, <1>1, FS_Subset
<1>4. CASE style = "oracle" /\ count > 0
  <2>1. Scan(Rendered(sql), count) = Numbered(style, sql)
    BY <1>2, <1>4, ScanCorrectAtEnd
  <2>. QED  BY <1>2, <1>4, <2>1 DEF FinalSql, RewritePositional
<1>5. CASE style = "number" /\ count > 0
  <2>1. Scan(Rendered(sql), Len(sql)) = Numbered(style, sql)
    BY <1>1, <1>3, <1>5, ScanCorrectAtEnd
  <2>. QED  BY <1>1, <1>2, <1>5, <2>1 DEF FinalSql, NumberPlaceholders
<1>6. CASE style = "question" \/ ~(count > 0)
  <2>1. style = "question" \/ Placeholders(sql) = {}
    BY <1>2, <1>6, FS_EmptySet
  <2>2. Rendered(sql) = Numbered(style, sql)
    BY <2>1, UnscannedText
  <2>. QED  BY <1>2, <1>6, <2>2 DEF FinalSql
<1>. QED  BY <1>4, <1>5, <1>6 DEF Styles
===============================================================================
