------------------------------- MODULE Csv_proofs ------------------------------
(***************************************************************************)
(* Lemmas about Csv: which piece of a sequence a stretch between two       *)
(* separators is, and what the fields of a line are once the commas that   *)
(* end them are known.  The proofs about the scanner and about the program *)
(* that reads its table cite them.                                         *)
(***************************************************************************)
EXTENDS Csv, SequenceTheorems, FiniteSetTheorems, WellFoundedInduction, TLAPS

\* The positions of c in s up to position i, and how many there are.
UpTo(s, c, i)   == {j \in Positions(s, c) : j <= i}
Before(s, c, i) == Cardinality(UpTo(s, c, i))

\* Every set of naturals has a least element.
LEMMA LeastNat ==
  ASSUME NEW T \in SUBSET Nat, T # {}
  PROVE  \E n \in T : \A m \in T : n <= m
<1>1. PICK n \in T : \A m \in T : <<m, n>> \notin OpToRel(<, Nat)
  BY NatLessThanWellFounded, WFMin
<1>2. \A m \in T : ~(m < n)
  BY <1>1 DEF OpToRel
<1>3. QED
  BY <1>2

--------------------------------------------------------------------------------
LEMMA BeforeType ==
  ASSUME NEW S, NEW s \in Seq(S), NEW c, NEW i
  PROVE  /\ IsFiniteSet(UpTo(s, c, i))
         /\ Before(s, c, i) \in Nat
<1>1. IsFiniteSet(1..Len(s))
  BY LenProperties, FS_Interval
<1>2. UpTo(s, c, i) \in SUBSET (1..Len(s))
  BY DEF Positions, UpTo
<1>3. QED
  BY <1>1, <1>2, FS_Subset, FS_CardinalityType DEF Before

\* The count stays where there is no separator, and steps where there is one.
LEMMA BeforeSame ==
  ASSUME NEW S, NEW s \in Seq(S), NEW c, NEW i \in Int, NEW k \in Int, i <= k,
         \A j \in i+1..k : j \in 1..Len(s) => s[j] # c
  PROVE  Before(s, c, k) = Before(s, c, i)
<1>1. Len(s) \in Nat
  BY LenProperties
<1>2. UpTo(s, c, k) = UpTo(s, c, i)
  BY <1>1 DEF Positions, UpTo
<1>3. QED
  BY <1>2 DEF Before

LEMMA BeforeStep ==
  ASSUME NEW S, NEW s \in Seq(S), NEW c, NEW i \in 1..Len(s), s[i] = c
  PROVE  Before(s, c, i) = Before(s, c, i - 1) + 1
<1>1. Len(s) \in Nat
  BY LenProperties
<1>2. UpTo(s, c, i) = UpTo(s, c, i - 1) \cup {i}
  BY <1>1 DEF Positions, UpTo
<1>3. i \notin UpTo(s, c, i - 1)
  BY <1>1 DEF UpTo
<1>4. IsFiniteSet(UpTo(s, c, i - 1))
  BY BeforeType
<1>5. QED
  BY <1>2, <1>3, <1>4, FS_AddElement DEF Before

LEMMA BeforeGrows ==
  ASSUME NEW S, NEW s \in Seq(S), NEW c, NEW i \in Int, NEW k \in Int, i <= k
  PROVE  Before(s, c, i) <= Before(s, c, k)
<1>1. UpTo(s, c, i) \in SUBSET UpTo(s, c, k)
  BY LenProperties DEF Positions, UpTo
<1>2. QED
  BY <1>1, BeforeType, FS_Subset DEF Before

LEMMA BeforeEnds ==
  ASSUME NEW S, NEW s \in Seq(S), NEW c
  PROVE  /\ Before(s, c, 0) = 0
         /\ Before(s, c, Len(s)) = Count(s, c)
         /\ Count(s, c) \in Nat
<1>1. Len(s) \in Nat
  BY LenProperties
<1>2. UpTo(s, c, 0) = {}
  BY <1>1 DEF Positions, UpTo
<1>3. UpTo(s, c, Len(s)) = Positions(s, c)
  BY <1>1 DEF Positions, UpTo
<1>4. QED
  BY <1>2, <1>3, BeforeType, FS_EmptySet DEF Before, Count

--------------------------------------------------------------------------------
\* A separator is the one its count says, and there is one for each count.
LEMMA NthIs ==
  ASSUME NEW S, NEW s \in Seq(S), NEW c, NEW i \in 1..Len(s), s[i] = c
  PROVE  Nth(s, c, Before(s, c, i)) = i
<1>1. Len(s) \in Nat
  BY LenProperties
<1>2. ASSUME NEW a \in Positions(s, c), NEW b \in Positions(s, c), a < b
      PROVE  Before(s, c, a) < Before(s, c, b)
  <2>1. a \in 1..Len(s) /\ b \in 1..Len(s) /\ s[b] = c
    BY DEF Positions
  <2>2. Before(s, c, b) = Before(s, c, b - 1) + 1
    BY <2>1, BeforeStep
  <2>3. Before(s, c, a) <= Before(s, c, b - 1)
    BY <1>1, <1>2, <2>1, BeforeGrows
  <2>4. Before(s, c, a) \in Nat /\ Before(s, c, b - 1) \in Nat
    BY BeforeType
  <2>5. QED
    BY ONLY <2>2, <2>3, <2>4
<1>3. i \in Positions(s, c)
  BY DEF Positions
<1>4. ASSUME NEW a \in Positions(s, c), Before(s, c, a) = Before(s, c, i)
      PROVE  a = i
  <2>1. a \in Int /\ i \in Int
    BY <1>1 DEF Positions
  <2>2. Before(s, c, a) \in Nat
    BY BeforeType
  <2>3. ~(a < i) /\ ~(i < a)
    BY <1>2, <1>3, <1>4, <2>2
  <2>4. QED
    BY ONLY <2>1, <2>3
<1>5. QED
  BY <1>3, <1>4, Zenon DEF Nth, Before, UpTo

LEMMA NthExists ==
  ASSUME NEW S, NEW s \in Seq(S), NEW c, NEW k \in 1..Count(s, c)
  PROVE  /\ Nth(s, c, k) \in 1..Len(s)
         /\ s[Nth(s, c, k)] = c
         /\ Before(s, c, Nth(s, c, k)) = k
<1>1. Len(s) \in Nat /\ Count(s, c) \in Nat /\ k \in Nat /\ k > 0
  BY LenProperties, BeforeEnds
<1> DEFINE T == {i \in 0..Len(s) : Before(s, c, i) >= k}
<1>2. Len(s) \in T /\ T \in SUBSET Nat
  BY <1>1, BeforeEnds
<1>3. \E i \in T : \A m \in T : i <= m
  <2> HIDE DEF T
  <2>1. QED
    BY <1>2, LeastNat
<1>4. PICK i \in T : \A m \in T : i <= m
  BY <1>3
<1>5. i \in 1..Len(s) /\ ~(Before(s, c, i - 1) >= k)
  <2>1. i # 0
    BY <1>1, <1>4, BeforeEnds
  <2>2. i - 1 \in 0..Len(s) /\ ~(i <= i - 1)
    BY <1>1, <2>1
  <2>3. QED
    BY <1>1, <1>4, <2>1, <2>2
<1>6. s[i] = c
  <2>1. SUFFICES ASSUME s[i] # c PROVE FALSE
    OBVIOUS
  <2>2. Before(s, c, i) = Before(s, c, i - 1)
    BY <1>5, <2>1, BeforeSame
  <2>3. QED
    BY <1>4, <1>5, <2>2
<1>7. Before(s, c, i) = k
  BY <1>1, <1>4, <1>5, <1>6, BeforeStep, BeforeType
<1>8. Nth(s, c, k) = i
  BY <1>5, <1>6, <1>7, NthIs
<1>9. QED
  BY <1>5, <1>6, <1>7, <1>8

\* A stretch between two separators, or an end, is the piece the count says.
LEMMA PieceIs ==
  ASSUME NEW S, NEW s \in Seq(S), NEW c,
         NEW a \in 1..Len(s) + 1, a = 1 \/ s[a - 1] = c,
         NEW e \in a-1..Len(s), e = Len(s) \/ s[e + 1] = c,
         \A j \in a..e : s[j] # c
  PROVE  LET k == Before(s, c, a - 1) + 1
         IN  /\ k \in Nat /\ k > 0
             /\ PieceStart(s, c, k) = a
             /\ Piece(s, c, k) = SubSeq(s, a, e)
             /\ IF e = Len(s) THEN Count(s, c) = k - 1
                ELSE k <= Count(s, c) /\ Before(s, c, e + 1) = k
<1> DEFINE k == Before(s, c, a - 1) + 1
<1>1. /\ Len(s) \in Nat /\ a \in Int /\ e \in Int
      /\ Before(s, c, a - 1) \in Nat /\ Count(s, c) \in Nat
  BY LenProperties, BeforeType, BeforeEnds
<1>2. PieceStart(s, c, k) = a
  <2>1. CASE a = 1
    BY <2>1, BeforeEnds DEF PieceStart
  <2>2. CASE a # 1
    <3>1. a - 1 \in 1..Len(s) /\ s[a - 1] = c
      BY <1>1, <2>2
    <3>2. Before(s, c, a - 1) > 0
      BY <3>1, BeforeStep, BeforeType
    <3>3. Nth(s, c, k - 1) = a - 1
      BY <1>1, <3>1, NthIs
    <3>4. QED
      BY <1>1, <3>2, <3>3 DEF PieceStart
  <2>3. QED
    BY <2>1, <2>2
<1>3. Before(s, c, e) = k - 1
  BY <1>1, BeforeSame
<1>4. CASE e = Len(s)
  <2>1. Count(s, c) = k - 1
    BY <1>3, <1>4, BeforeEnds
  <2>2. k > Count(s, c)
    BY <1>1, <2>1
  <2>3. Piece(s, c, k) = SubSeq(s, a, e)
    BY <1>2, <1>4, <2>2 DEF Piece
  <2>4. QED
    BY <1>1, <1>2, <1>4, <2>1, <2>3
<1>5. CASE e # Len(s)
  <2>1. e + 1 \in 1..Len(s) /\ s[e + 1] = c
    BY <1>1, <1>5
  <2>2. Before(s, c, e + 1) = k
    BY <1>1, <1>3, <2>1, BeforeStep
  <2>3. k <= Count(s, c)
    BY <1>1, <2>1, <2>2, BeforeGrows, BeforeEnds
  <2>4. Nth(s, c, k) = e + 1
    BY <2>1, <2>2, NthIs
  <2>5. Piece(s, c, k) = SubSeq(s, a, e)
    BY <1>1, <1>2, <2>3, <2>4 DEF Piece
  <2>6. QED
    BY <1>1, <1>2, <1>5, <2>2, <2>3, <2>5
<1>6. QED
  BY <1>4, <1>5
--------------------------------------------------------------------------------
\* n commas, at d[1] to d[n], end the first n fields of a line s; all others, if
\* there are fewer than four, are missing, and the rest begins behind the last.
Commas(s, n, d) ==
    /\ d[0] = 0
    /\ \A j \in 1..n : /\ d[j] \in d[j-1]+1..Len(s)
                       /\ s[d[j]] = COMMA
                       /\ \A k \in d[j-1]+1..d[j]-1 : s[k] # COMMA
    /\ n < 4 => \A k \in d[n]+1..Len(s) : s[k] # COMMA

LEMMA CommasCounted ==
  ASSUME NEW S, NEW s \in Seq(S), NEW n \in 0..4, NEW d, Commas(s, n, d)
  PROVE  \A j \in 0..n : d[j] \in 0..Len(s) /\ Before(s, COMMA, d[j]) = j
<1>1. Len(s) \in Nat
  BY LenProperties
<1>2. d[0] \in 0..Len(s) /\ Before(s, COMMA, d[0]) = 0
  BY <1>1, BeforeEnds DEF Commas
<1>3. ASSUME NEW j \in 1..n, d[j-1] \in 0..Len(s), Before(s, COMMA, d[j-1]) = j - 1
      PROVE  d[j] \in 0..Len(s) /\ Before(s, COMMA, d[j]) = j
  <2>1. /\ d[j] \in d[j-1]+1..Len(s) /\ s[d[j]] = COMMA
        /\ \A k \in d[j-1]+1..d[j]-1 : s[k] # COMMA
    BY DEF Commas
  <2>2. d[j] \in 1..Len(s) /\ d[j-1] \in Int /\ d[j] - 1 \in Int /\ d[j-1] <= d[j] - 1
    BY <1>1, <1>3, <2>1
  <2>3. Before(s, COMMA, d[j] - 1) = j - 1
    BY <1>3, <2>1, <2>2, BeforeSame
  <2>4. Before(s, COMMA, d[j]) = j - 1 + 1
    BY <2>1, <2>2, <2>3, BeforeStep
  <2>5. QED
    BY <2>2, <2>4
<1> DEFINE P(j) == d[j] \in 0..Len(s) /\ Before(s, COMMA, d[j]) = j
<1>4. P(0)
  BY <1>2
<1>5. /\ n >= 1 /\ P(0) => P(1)
      /\ n >= 2 /\ P(1) => P(2)
      /\ n >= 3 /\ P(2) => P(3)
      /\ n >= 4 /\ P(3) => P(4)
  BY <1>3
<1> HIDE DEF P
<1>6. \A j \in 0..n : P(j)
  <2>1. \A j \in 0..n : /\ j <= n
                        /\ j = 0 \/ j = 1 \/ j = 2 \/ j = 3 \/ j = 4
    OBVIOUS
  <2>2. /\ n >= 1 => P(1)
        /\ n >= 2 => P(2)
        /\ n >= 3 => P(3)
        /\ n >= 4 => P(4)
    BY <1>4, <1>5
  <2>3. QED
    BY <1>4, <2>1, <2>2
<1>7. QED
  BY <1>6 DEF P

LEMMA FieldsOfLine ==
  ASSUME NEW S, NEW s \in Seq(S), NEW n \in 0..4, NEW d, Commas(s, n, d)
  PROVE  /\ \A j \in 1..n : Field(s, j) = SubSeq(s, d[j-1] + 1, d[j] - 1)
         /\ \A j \in n+1..4 : Field(s, j) = NONE
         /\ Rest(s) = SubSeq(s, d[n] + 1, Len(s))
<1>1. Len(s) \in Nat /\ Count(s, COMMA) \in Nat
  BY LenProperties, BeforeEnds
<1>2. \A j \in 0..n : d[j] \in 0..Len(s) /\ Before(s, COMMA, d[j]) = j
  BY CommasCounted
<1>3. ASSUME NEW j \in 1..n
      PROVE  j <= Count(s, COMMA) /\ Field(s, j) = SubSeq(s, d[j-1] + 1, d[j] - 1)
  <2> DEFINE a == d[j-1] + 1
             e == d[j] - 1
  <2>1. j - 1 \in 0..n /\ j \in 0..n
    OBVIOUS
  <2>2. /\ d[j] \in d[j-1]+1..Len(s) /\ s[d[j]] = COMMA
        /\ \A k \in d[j-1]+1..d[j]-1 : s[k] # COMMA
        /\ d[0] = 0
    BY DEF Commas
  <2>3. d[j-1] \in 0..Len(s) /\ Before(s, COMMA, d[j-1]) = j - 1
    BY <1>2, <2>1
  <2>4. d[j-1] = 0 \/ s[d[j-1]] = COMMA
    <3>1. CASE j = 1
      BY <2>2, <3>1
    <3>2. CASE j # 1
      <4>1. j - 1 \in 1..n
        BY <3>2
      <4>2. QED
        BY <4>1 DEF Commas
    <3>3. QED
      BY <3>1, <3>2
  <2>5. /\ a \in 1..Len(s) + 1 /\ e \in a-1..Len(s) /\ e # Len(s)
        /\ a - 1 = d[j-1] /\ e + 1 = d[j]
    BY <1>1, <2>2, <2>3
  <2>6. a = 1 \/ s[a - 1] = COMMA
    BY <2>3, <2>4, <2>5
  <2> HIDE DEF a, e
  <2>7. LET k == Before(s, COMMA, a - 1) + 1
        IN  Piece(s, COMMA, k) = SubSeq(s, a, e) /\ k <= Count(s, COMMA)
    <3>1. s[e + 1] = COMMA
      BY <2>2, <2>5
    <3>2. \A k \in a..e : s[k] # COMMA
      BY <2>2 DEF a, e
    <3>3. QED
      BY <2>5, <2>6, <3>1, <3>2, PieceIs
  <2>8. Before(s, COMMA, a - 1) + 1 = j
    BY <2>3, <2>5
  <2>9. QED
    BY <2>7, <2>8 DEF Field, a, e
<1>4. n = 0 \/ s[d[n]] = COMMA
  BY DEF Commas
<1>5. d[n] \in 0..Len(s) /\ Before(s, COMMA, d[n]) = n
  BY <1>2
<1>6. CASE n < 4
  <2> DEFINE a == d[n] + 1
             e == Len(s)
  <2>1. /\ a \in 1..Len(s) + 1 /\ e \in a-1..Len(s) /\ a - 1 = d[n]
        /\ a = 1 \/ s[a - 1] = COMMA
    BY <1>1, <1>4, <1>5 DEF Commas
  <2>2. \A k \in a..e : s[k] # COMMA
    BY <1>6 DEF Commas
  <2>3. e = Len(s)
    OBVIOUS
  <2> HIDE DEF a, e
  <2>4. LET k == Before(s, COMMA, a - 1) + 1
        IN  PieceStart(s, COMMA, k) = a /\ Count(s, COMMA) = k - 1
    BY <2>1, <2>2, <2>3, PieceIs
  <2>5. Before(s, COMMA, a - 1) = n
    BY <1>5, <2>1
  <2>6. PieceStart(s, COMMA, n + 1) = a /\ Count(s, COMMA) = n
    BY <2>4, <2>5
  <2>7. \A j \in n+1..4 : Field(s, j) = NONE
    BY <2>6 DEF Field
  <2>8. Rest(s) = SubSeq(s, a, Len(s))
    BY <1>6, <2>6 DEF Rest
  <2>9. QED
    BY <1>3, <2>7, <2>8 DEF a
<1>7. CASE n = 4
  <2>1. Nth(s, COMMA, 4) = d[4]
    <3>1. d[4] \in 1..Len(s) /\ s[d[4]] = COMMA
      <4>1. 3 \in 0..n /\ 4 \in 1..n /\ 4 - 1 = 3
        BY <1>7
      <4>2. d[3] \in 0..Len(s) /\ d[4] \in d[3]+1..Len(s) /\ s[d[4]] = COMMA
        BY <1>2, <4>1 DEF Commas
      <4>3. QED
        BY <1>1, <4>2
    <3>2. Before(s, COMMA, d[4]) = 4
      BY <1>5, <1>7
    <3>3. QED
      BY <3>1, <3>2, NthIs
  <2>2. Count(s, COMMA) >= 4
    BY <1>1, <1>3, <1>7
  <2>3. Rest(s) = SubSeq(s, d[n] + 1, Len(s))
    <3>1. PieceStart(s, COMMA, 5) = d[4] + 1
      BY <2>1 DEF PieceStart
    <3>2. ~(Count(s, COMMA) < 4)
      BY <1>1, <2>2
    <3>3. QED
      BY <1>7, <3>1, <3>2 DEF Rest
  <2>4. n+1..4 = {}
    BY <1>7
  <2>5. QED
    BY <1>3, <2>3, <2>4
<1>8. QED
  BY <1>6, <1>7
--------------------------------------------------------------------------------
\* Two stretches with the same elements are the same sequence.
LEMMA SameStretch ==
  ASSUME NEW s, NEW t, NEW m \in Int, NEW n \in Int, NEW i \in Int, NEW j \in Int,
         n - m = j - i, \A k \in m..n : s[k] = t[k - m + i]
  PROVE  SubSeq(s, m, n) = SubSeq(t, i, j)
<1> DEFINE S == {s[k] : k \in m..n}
           u == SubSeq(s, m, n)
           v == SubSeq(t, i, j)
<1>1. \A k \in m..n : s[k] \in S
  OBVIOUS
<1>2. \A k \in i..j : t[k] \in S
  <2>1. SUFFICES ASSUME NEW k \in i..j PROVE t[k] \in S
    OBVIOUS
  <2>2. k - i + m \in m..n /\ (k - i + m) - m + i = k
    OBVIOUS
  <2>3. t[k] = s[k - i + m]
    BY <2>2
  <2> HIDE DEF S
  <2>4. QED
    BY <1>1, <2>2, <2>3
<1> HIDE DEF S
<1>3. /\ u \in Seq(S) /\ Len(u) = IF m <= n THEN n - m + 1 ELSE 0
      /\ \A k \in 1..n-m+1 : u[k] = s[m+k-1]
  BY <1>1, SubSeqProperties
<1>4. /\ v \in Seq(S) /\ Len(v) = IF i <= j THEN j - i + 1 ELSE 0
      /\ \A k \in 1..j-i+1 : v[k] = t[i+k-1]
  BY <1>2, SubSeqProperties
<1> HIDE DEF u, v
<1>5. Len(u) = Len(v)
  BY ONLY <1>3, <1>4, m \in Int, n \in Int, i \in Int, j \in Int, n - m = j - i
<1>6. \A k \in 1..Len(u) : u[k] = v[k]
  <2>1. SUFFICES ASSUME NEW k \in 1..Len(u) PROVE u[k] = v[k]
    OBVIOUS
  <2>2. k \in 1..n-m+1 /\ k \in 1..j-i+1 /\ m+k-1 \in m..n
    BY ONLY <1>3, k \in 1..Len(u), m \in Int, n \in Int, i \in Int, j \in Int, n - m = j - i
  <2>3. s[m+k-1] = t[m+k-1 - m + i]
    BY <2>2
  <2>4. m+k-1 - m + i = i+k-1
    BY <2>2
  <2>5. QED
    BY ONLY <1>3, <1>4, <2>2, <2>3, <2>4
<1>7. u = v
  BY ONLY <1>3, <1>4, <1>5, <1>6, SeqEqual
<1>8. QED
  BY <1>7 DEF u, v

\* The same within a file f: n commas, at c[1] to c[n], end the first fields of
\* the line that begins behind c[0] and ends with e.
LineCommas(f, n, c, e) ==
    /\ c[0] \in 0..Len(f) /\ e \in c[0]..Len(f)
    /\ \A j \in 1..n : /\ c[j] \in c[j-1]+1..e
                       /\ f[c[j]] = COMMA
                       /\ \A k \in c[j-1]+1..c[j]-1 : f[k] # COMMA
    /\ n < 4 => \A k \in c[n]+1..e : f[k] # COMMA

LEMMA FieldsInFile ==
  ASSUME NEW S, NEW f \in Seq(S), NEW n \in 0..4, NEW c, NEW e, LineCommas(f, n, c, e)
  PROVE  LET line == SubSeq(f, c[0] + 1, e)
         IN  /\ \A j \in 1..n : Field(line, j) = SubSeq(f, c[j-1] + 1, c[j] - 1)
             /\ \A j \in n+1..4 : Field(line, j) = NONE
             /\ Rest(line) = SubSeq(f, c[n] + 1, e)
<1> DEFINE line == SubSeq(f, c[0] + 1, e)
           d == [j \in 0..n |-> c[j] - c[0]]
<1>1. Len(f) \in Nat /\ c[0] \in 0..Len(f) /\ e \in c[0]..Len(f) /\ n \in Int
  BY LenProperties DEF LineCommas
<1>2. /\ line \in Seq(S) /\ Len(line) = e - c[0]
      /\ \A k \in 1..e-c[0] : line[k] = f[c[0] + k]
  <2>1. \A k \in c[0]+1..e : f[k] \in S
    <3>1. \A k \in c[0]+1..e : k \in 1..Len(f)
      BY <1>1
    <3>2. QED
      BY <3>1, ElementOfSeq
  <2>2. /\ line \in Seq(S)
        /\ Len(line) = IF c[0] + 1 <= e THEN e - (c[0] + 1) + 1 ELSE 0
        /\ \A k \in 1..e-(c[0]+1)+1 : line[k] = f[(c[0]+1)+k-1]
    BY <1>1, <2>1, SubSeqProperties
  <2> HIDE DEF line
  <2>3. Len(line) = e - c[0]
    BY ONLY <1>1, <2>2
  <2>4. ASSUME NEW k \in 1..e-c[0] PROVE line[k] = f[c[0] + k]
    <3>1. k \in 1..e-(c[0]+1)+1 /\ (c[0]+1)+k-1 = c[0] + k
      BY ONLY <1>1, k \in 1..e-c[0]
    <3>2. QED
      BY ONLY <2>2, <3>1
  <2>5. QED
    BY ONLY <2>2, <2>3, <2>4
<1>3. \A j \in 0..n : c[j] \in c[0]..e
  <2>1. \A j \in 1..n : c[j-1] \in c[0]..e => c[j] \in c[0]..e
    BY <1>1 DEF LineCommas
  <2>2. c[0] \in c[0]..e
    BY <1>1
  <2> DEFINE P(j) == c[j] \in c[0]..e
  <2>3. /\ n >= 1 /\ P(0) => P(1)
        /\ n >= 2 /\ P(1) => P(2)
        /\ n >= 3 /\ P(2) => P(3)
        /\ n >= 4 /\ P(3) => P(4)
    BY <2>1
  <2>4. P(0)
    BY <2>2
  <2> HIDE DEF P
  <2>5. \A j \in 0..n : P(j)
    <3>1. \A j \in 0..n : /\ j <= n
                          /\ j = 0 \/ j = 1 \/ j = 2 \/ j = 3 \/ j = 4
      OBVIOUS
    <3>2. (n >= 1 => P(1)) /\ (n >= 2 => P(2)) /\ (n >= 3 => P(3)) /\ (n >= 4 => P(4))
      BY <2>3, <2>4
    <3>3. QED
      BY <2>4, <3>1, <3>2
  <2>6. QED
    BY <2>5 DEF P
<1>4. \A j \in 0..n : d[j] = c[j] - c[0] /\ d[j] \in 0..e-c[0]
  BY <1>1, <1>3
<1> HIDE DEF line, d
<1>5. Commas(line, n, d)
  <2>1. d[0] = 0
    BY ONLY <1>1, <1>4, n \in 0..4
  <2>2. ASSUME NEW j \in 1..n
        PROVE  /\ d[j] \in d[j-1]+1..Len(line)
               /\ line[d[j]] = COMMA
               /\ \A k \in d[j-1]+1..d[j]-1 : line[k] # COMMA
    <3>1. /\ c[j] \in c[j-1]+1..e /\ f[c[j]] = COMMA
          /\ \A k \in c[j-1]+1..c[j]-1 : f[k] # COMMA
      BY DEF LineCommas
    <3>2. /\ j \in 0..n /\ j - 1 \in 0..n
          /\ d[j] = c[j] - c[0] /\ d[j-1] = c[j-1] - c[0]
          /\ c[j] \in c[0]..e /\ c[j-1] \in c[0]..e
      BY <1>3, <1>4
    <3>0. /\ e \in Int /\ c[0] \in Int /\ c[j] \in Int /\ c[j-1] \in Int
          /\ c[0] <= c[j-1] /\ c[j-1] < c[j] /\ c[j] <= e
          /\ Len(line) = e - c[0] /\ d[j] = c[j] - c[0] /\ d[j-1] = c[j-1] - c[0]
      BY <1>1, <1>2, <3>1, <3>2
    <3>3. d[j] \in d[j-1]+1..Len(line) /\ d[j] \in 1..e-c[0] /\ c[0] + d[j] = c[j]
      BY ONLY <3>0
    <3>4. line[d[j]] = COMMA
      BY ONLY <1>2, <3>1, <3>3
    <3>5. ASSUME NEW k \in d[j-1]+1..d[j]-1 PROVE line[k] # COMMA
      <4>1. k \in 1..e-c[0] /\ c[0] + k \in c[j-1]+1..c[j]-1
        <5>1. k \in Int /\ d[j-1] + 1 <= k /\ k <= d[j] - 1
          BY <3>0
        <5>2. \A x, y, z, t \in Int :
                 x <= y /\ (y - x) + 1 <= k /\ k <= (z - x) - 1 /\ z <= t =>
                    k \in 1..t-x /\ x + k \in y+1..z-1
          BY ONLY <5>1
        <5>3. QED
          BY ONLY <3>0, <5>1, <5>2
      <4>2. QED
        BY ONLY <1>2, <3>1, <4>1
    <3>6. QED
      BY ONLY <3>3, <3>4, <3>5
  <2>3. ASSUME n < 4, NEW k \in d[n]+1..Len(line) PROVE line[k] # COMMA
    <3>1. d[n] = c[n] - c[0] /\ c[n] \in c[0]..e
      BY <1>3, <1>4
    <3>2. k \in 1..e-c[0] /\ c[0] + k \in c[n]+1..e
      BY ONLY <1>1, <1>2, <3>1, k \in d[n]+1..Len(line)
    <3>3. f[c[0] + k] # COMMA
      BY <2>3, <3>2 DEF LineCommas
    <3>4. QED
      BY ONLY <1>2, <3>2, <3>3
  <2>4. QED
    BY ONLY <2>1, <2>2, <2>3 DEF Commas
<1>6. /\ \A j \in 1..n : Field(line, j) = SubSeq(line, d[j-1] + 1, d[j] - 1)
      /\ \A j \in n+1..4 : Field(line, j) = NONE
      /\ Rest(line) = SubSeq(line, d[n] + 1, Len(line))
  BY ONLY <1>2, <1>5, n \in 0..4, FieldsOfLine
<1>7. ASSUME NEW a \in c[0]..e, NEW b \in c[0]..e+1
      PROVE  SubSeq(line, a - c[0] + 1, b - c[0] - 1) = SubSeq(f, a + 1, b - 1)
  <2> DEFINE m == a - c[0] + 1
             o == b - c[0] - 1
             i == a + 1
             j == b - 1
  <2>1. m \in Int /\ o \in Int /\ i \in Int /\ j \in Int /\ o - m = j - i
    BY ONLY <1>1, <1>7
  <2>2. \A k \in m..o : line[k] = f[k - m + i]
    <3>1. \A k \in m..o : k \in 1..e-c[0] /\ k - m + i = c[0] + k
      BY ONLY <1>1, <1>7
    <3>2. QED
      BY ONLY <1>2, <3>1
  <2> HIDE DEF m, o, i, j
  <2>3. SubSeq(line, m, o) = SubSeq(f, i, j)
    BY ONLY <2>1, <2>2, SameStretch
  <2>4. QED
    BY ONLY <2>3 DEF m, o, i, j
<1>8. ASSUME NEW j \in 1..n PROVE Field(line, j) = SubSeq(f, c[j-1] + 1, c[j] - 1)
  <2>1. j \in 0..n /\ j - 1 \in 0..n
    OBVIOUS
  <2>2. /\ d[j] = c[j] - c[0] /\ d[j-1] = c[j-1] - c[0]
        /\ c[j] \in c[0]..e+1 /\ c[j-1] \in c[0]..e
    BY <1>1, <1>3, <1>4, <2>1
  <2>3. Field(line, j) = SubSeq(line, c[j-1] - c[0] + 1, c[j] - c[0] - 1)
    BY ONLY <1>6, <2>2, j \in 1..n
  <2>4. QED
    BY ONLY <1>7, <2>2, <2>3
<1>9. Rest(line) = SubSeq(f, c[n] + 1, e)
  <2>1. d[n] = c[n] - c[0] /\ c[n] \in c[0]..e /\ e + 1 \in c[0]..e+1
    BY <1>1, <1>3, <1>4
  <2>2. Len(line) = (e + 1) - c[0] - 1 /\ (e + 1) - 1 = e
    <3>1. e \in Int /\ c[0] \in Int /\ Len(line) = e - c[0]
      BY <1>1, <1>2
    <3>2. QED
      BY ONLY <3>1
  <2>3. Rest(line) = SubSeq(line, c[n] - c[0] + 1, (e + 1) - c[0] - 1)
    BY ONLY <1>6, <2>1, <2>2
  <2>4. SubSeq(line, c[n] - c[0] + 1, (e + 1) - c[0] - 1) = SubSeq(f, c[n] + 1, (e + 1) - 1)
    BY ONLY <1>7, <2>1
  <2>5. QED
    BY ONLY <2>2, <2>3, <2>4
<1>10. QED
  BY ONLY <1>6, <1>8, <1>9 DEF line

\* A piece that lies within a common beginning, its separator included, is the
\* same piece of both sequences.
LEMMA PiecesOfBeginning ==
  ASSUME NEW S, NEW s \in Seq(S), NEW t \in Seq(S), NEW c, NEW n \in 0..Len(s), n <= Len(t),
         \A i \in 1..n : t[i] = s[i],
         \A i \in n+1..Len(t) : t[i] # c,
         NEW k \in 1..Count(t, c)
  PROVE  k \in 1..Count(s, c) /\ Piece(t, c, k) = Piece(s, c, k)
<1>1. /\ Len(s) \in Nat /\ Len(t) \in Nat /\ Count(s, c) \in Nat /\ Count(t, c) \in Nat
      /\ k \in Nat /\ k > 0 /\ n \in Nat /\ n <= Len(s) /\ k <= Count(t, c)
  BY LenProperties, BeforeEnds
<1>2. ASSUME NEW j \in 1..Count(t, c)
      PROVE  /\ Nth(t, c, j) \in 1..n
             /\ s[Nth(t, c, j)] = c
             /\ j <= Count(s, c)
             /\ Nth(s, c, j) = Nth(t, c, j)
  <2> DEFINE e == Nth(t, c, j)
  <2>1. e \in 1..Len(t) /\ t[e] = c /\ Before(t, c, e) = j
    BY NthExists
  <2> HIDE DEF e
  <2>2. e \in 1..n /\ e \in 1..Len(s)
    BY ONLY <1>1, <2>1, \A i \in n+1..Len(t) : t[i] # c
  <2>3. s[e] = c
    BY <2>1, <2>2
  <2>4. UpTo(s, c, e) = UpTo(t, c, e)
    <3>1. ASSUME NEW i PROVE i \in UpTo(s, c, e) <=> i \in UpTo(t, c, e)
      <4>1. i \in UpTo(s, c, e) <=> i \in 1..Len(s) /\ s[i] = c /\ i <= e
        BY DEF UpTo, Positions
      <4>2. i \in UpTo(t, c, e) <=> i \in 1..Len(t) /\ t[i] = c /\ i <= e
        BY DEF UpTo, Positions
      <4>3. i \in 1..Len(s) /\ i <= e <=> i \in 1..n /\ i <= e
        BY ONLY <1>1, <2>2
      <4>4. i \in 1..Len(t) /\ i <= e <=> i \in 1..n /\ i <= e
        BY ONLY <1>1, <2>2, n <= Len(t)
      <4>5. i \in 1..n => t[i] = s[i]
        OBVIOUS
      <4>6. QED
        BY ONLY <4>1, <4>2, <4>3, <4>4, <4>5
    <3>2. QED
      BY ONLY <3>1
  <2>5. Before(s, c, e) = j
    BY <2>1, <2>4 DEF Before
  <2>6. Nth(s, c, j) = e
    BY <2>2, <2>3, <2>5, NthIs
  <2>7. j <= Count(s, c)
    <3>1. e <= Len(s) /\ e \in Int /\ Len(s) \in Int
      BY ONLY <1>1, <2>2
    <3>2. Before(s, c, e) <= Before(s, c, Len(s))
      BY <3>1, BeforeGrows
    <3>3. QED
      BY <2>5, <3>2, BeforeEnds
  <2>8. QED
    BY <2>2, <2>3, <2>6, <2>7 DEF e
<1> DEFINE e == Nth(t, c, k)
           a == PieceStart(t, c, k)
<1>3. e \in 1..n /\ k <= Count(s, c) /\ Nth(s, c, k) = e
  BY <1>2
<1>4. a \in Nat /\ a > 0 /\ PieceStart(s, c, k) = a
  <2>1. CASE k = 1
    BY <2>1 DEF PieceStart
  <2>2. CASE k # 1
    <3>1. k - 1 \in 1..Count(t, c)
      BY ONLY <1>1, <2>2
    <3>2. Nth(t, c, k - 1) \in 1..n /\ Nth(s, c, k - 1) = Nth(t, c, k - 1)
      BY <1>2, <3>1
    <3>3. a = Nth(t, c, k - 1) + 1 /\ PieceStart(s, c, k) = Nth(s, c, k - 1) + 1
      BY <2>2 DEF PieceStart
    <3>4. QED
      BY ONLY <1>1, <3>2, <3>3
  <2>3. QED
    BY <2>1, <2>2
<1> HIDE DEF e, a
<1>5. SubSeq(t, a, e - 1) = SubSeq(s, a, e - 1)
  <2>1. \A i \in a..e-1 : i \in 1..n /\ i - a + a = i
    BY ONLY <1>1, <1>3, <1>4
  <2>2. \A i \in a..e-1 : t[i] = s[i - a + a]
    BY <2>1
  <2>3. a \in Int /\ e - 1 \in Int /\ (e - 1) - a = (e - 1) - a
    BY ONLY <1>1, <1>3, <1>4
  <2>4. QED
    BY ONLY <2>2, <2>3, SameStretch
<1>6. ~(k > Count(t, c)) /\ ~(k > Count(s, c))
  BY ONLY <1>1, <1>3
<1>7. Piece(t, c, k) = SubSeq(t, a, e - 1)
  BY <1>6 DEF Piece, a, e
<1>8. Piece(s, c, k) = SubSeq(s, a, e - 1)
  BY <1>3, <1>4, <1>6 DEF Piece
<1>9. k \in 1..Count(s, c)
  BY ONLY <1>1, <1>3
<1>10. QED
  BY <1>5, <1>7, <1>8, <1>9

--------------------------------------------------------------------------------
\* Where a piece starts, and that there is no separator in it.
LEMMA StartType ==
  ASSUME NEW S, NEW s \in Seq(S), NEW c, NEW k \in 1..Count(s, c) + 1
  PROVE  /\ PieceStart(s, c, k) \in 1..Len(s) + 1
         /\ Before(s, c, PieceStart(s, c, k) - 1) = k - 1
<1>1. Len(s) \in Nat /\ Count(s, c) \in Nat /\ k \in Nat /\ k > 0
  BY LenProperties, BeforeEnds
<1>2. CASE k = 1
  <2>1. PieceStart(s, c, k) = 1 /\ Before(s, c, 0) = 0
    BY <1>2, BeforeEnds DEF PieceStart
  <2>2. QED
    BY <1>1, <1>2, <2>1
<1>3. CASE k # 1
  <2> DEFINE p == Nth(s, c, k - 1)
  <2>1. k - 1 \in 1..Count(s, c)
    BY <1>1, <1>3
  <2>2. p \in 1..Len(s) /\ Before(s, c, p) = k - 1
    BY <2>1, NthExists
  <2>3. PieceStart(s, c, k) = p + 1
    BY <1>3 DEF PieceStart
  <2> HIDE DEF p
  <2>4. p + 1 \in 1..Len(s) + 1 /\ (p + 1) - 1 = p
    BY ONLY <1>1, <2>2
  <2>5. QED
    BY ONLY <2>2, <2>3, <2>4
<1>4. QED
  BY <1>2, <1>3

LEMMA PieceType ==
  ASSUME NEW S, NEW s \in Seq(S), NEW c, NEW k \in 1..Count(s, c) + 1
  PROVE  Piece(s, c, k) \in Seq(S \ {c})
<1> DEFINE a == PieceStart(s, c, k)
           e == IF k > Count(s, c) THEN Len(s) ELSE Nth(s, c, k) - 1
<1>1. Len(s) \in Nat /\ Count(s, c) \in Nat /\ k \in Nat /\ k > 0 /\ k <= Count(s, c) + 1
  BY LenProperties, BeforeEnds
<1>2. a \in 1..Len(s) + 1 /\ Before(s, c, a - 1) = k - 1
  BY StartType
<1>3. e \in 0..Len(s) /\ Before(s, c, e) = k - 1
  <2>1. CASE k > Count(s, c)
    BY <1>1, <2>1, BeforeEnds
  <2>2. CASE ~(k > Count(s, c))
    <3> DEFINE p == Nth(s, c, k)
    <3>1. k \in 1..Count(s, c)
      BY <1>1, <2>2
    <3>2. p \in 1..Len(s) /\ s[p] = c /\ Before(s, c, p) = k
      BY <3>1, NthExists
    <3>3. e = p - 1
      BY <2>2
    <3> HIDE DEF p, e
    <3>4. Before(s, c, p) = Before(s, c, p - 1) + 1
      BY <3>2, BeforeStep
    <3>5. Before(s, c, p - 1) \in Nat
      BY BeforeType
    <3>6. p - 1 \in 0..Len(s)
      BY ONLY <1>1, <3>2
    <3>7. Before(s, c, p - 1) = k - 1
      BY ONLY <1>1, <3>2, <3>4, <3>5
    <3>8. QED
      BY ONLY <3>3, <3>6, <3>7
  <2>3. QED
    BY <2>1, <2>2
<1>4. Piece(s, c, k) = SubSeq(s, a, e)
  BY DEF Piece
<1> HIDE DEF a, e
<1>5. ASSUME NEW i \in a..e PROVE s[i] \in S \ {c}
  <2>1. i \in 1..Len(s) /\ a - 1 \in Int /\ i - 1 \in Int /\ a - 1 <= i - 1 /\ i <= e
        /\ i \in Int /\ e \in Int
    BY ONLY <1>1, <1>2, <1>3, i \in a..e
  <2>2. s[i] \in S
    BY <2>1, ElementOfSeq
  <2>3. s[i] # c
    <3>1. SUFFICES ASSUME s[i] = c PROVE FALSE
      OBVIOUS
    <3>2. Before(s, c, i) = Before(s, c, i - 1) + 1
      BY <2>1, <3>1, BeforeStep
    <3>3. Before(s, c, a - 1) <= Before(s, c, i - 1)
      BY <2>1, BeforeGrows
    <3>4. Before(s, c, i) <= Before(s, c, e)
      BY <2>1, BeforeGrows
    <3>5. Before(s, c, i) \in Nat /\ Before(s, c, i - 1) \in Nat
      BY BeforeType
    <3>6. QED
      BY ONLY <1>1, <1>2, <1>3, <3>2, <3>3, <3>4, <3>5
  <2>4. QED
    BY <2>2, <2>3
<1>6. a \in Int /\ e \in Int
  BY ONLY <1>1, <1>2, <1>3
<1>7. SubSeq(s, a, e) \in Seq(S \ {c})
  BY ONLY <1>5, <1>6, SubSeqProperties
<1>8. QED
  BY <1>4, <1>7

\* The entry of a line that is not refused has fields that are sequences of words,
\* or are not there, and a length.
LEMMA EntryType ==
  ASSUME NEW line \in Seq(Word \cup {COMMA})
  PROVE  /\ \A k \in 1..4 : Field(line, k) \in Seq(Word) \cup {NONE}
         /\ Rest(line) \in Seq(Word \cup {COMMA})
         /\ ~Refused(line) => Length(line) \in Nat
<1> DEFINE n == Count(line, COMMA)
<1>1. n \in Nat /\ Len(line) \in Nat
  BY LenProperties, BeforeEnds
<1>2. ASSUME NEW k \in 1..4 PROVE Field(line, k) \in Seq(Word) \cup {NONE}
  <2>1. CASE k <= n
    <3>1. k \in 1..n + 1
      BY <1>1, <2>1
    <3>2. Piece(line, COMMA, k) \in Seq((Word \cup {COMMA}) \ {COMMA})
      BY <3>1, PieceType
    <3>3. (Word \cup {COMMA}) \ {COMMA} = Word
      BY TokenAssumption
    <3>4. QED
      BY <2>1, <3>2, <3>3 DEF Field
  <2>2. CASE ~(k <= n)
    BY <2>2 DEF Field
  <2>3. QED
    BY <2>1, <2>2
<1>3. Rest(line) \in Seq(Word \cup {COMMA})
  <2> DEFINE m == IF n < 4 THEN n + 1 ELSE 5
             a == PieceStart(line, COMMA, m)
  <2>1. m \in 1..n + 1
    <3> HIDE DEF n
    <3>1. QED
      BY <1>1
  <2> HIDE DEF m
  <2>2. a \in 1..Len(line) + 1
    BY <2>1, StartType
  <2>3. Rest(line) = SubSeq(line, a, Len(line))
    BY DEF Rest, m
  <2> HIDE DEF a
  <2>4. a \in Int /\ Len(line) \in Int
    BY ONLY <1>1, <2>2
  <2>5. \A i \in a..Len(line) : line[i] \in Word \cup {COMMA}
    <3>1. \A i \in a..Len(line) : i \in 1..Len(line)
      BY ONLY <1>1, <2>2
    <3>2. QED
      BY <3>1, ElementOfSeq
  <2>6. SubSeq(line, a, Len(line)) \in Seq(Word \cup {COMMA})
    BY ONLY <2>4, <2>5, SubSeqProperties
  <2>7. QED
    BY <2>3, <2>6
<1>4. ASSUME ~Refused(line) PROVE Length(line) \in Nat
  <2>1. CASE Field(line, 4) = NONE
    BY <2>1 DEF Length
  <2>2. CASE Field(line, 4) # NONE
    <3> DEFINE f == Field(line, 4)
    <3>1. f \in Seq(Word)
      BY <1>2, <2>2
    <3>2. Length(line) = atoi(f)
      BY <2>2 DEF Length
    <3> HIDE DEF f
    <3>3. atoi(f) \in Int
      <4>1. CASE f = <<>>
        BY <4>1 DEF atoi
      <4>2. CASE f # <<>>
        <5>1. Len(f) \in Nat /\ Len(f) # 0
          BY <3>1, <4>2, EmptySeq, LenProperties
        <5>2. 1 \in 1..Len(f)
          BY ONLY <5>1
        <5>3. f[1] \in Word
          BY <3>1, <5>2, ElementOfSeq
        <5>4. QED
          BY <4>2, <5>3, TokenAssumption DEF atoi
      <4>3. QED
        BY <4>1, <4>2
    <3>4. ~(atoi(f) <= 0)
      BY <1>4, <2>2, <3>2 DEF Refused
    <3>5. QED
      BY ONLY <3>2, <3>3, <3>4
  <2>3. QED
    BY <2>1, <2>2
<1>5. QED
  BY <1>2, <1>3, <1>4
================================================================================
