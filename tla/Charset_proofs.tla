---------------------------- MODULE Charset_proofs -----------------------------
(***************************************************************************)
(* Proofs about Charset for every size of the array and every list.  The   *)
(* array is bounded because every store goes through push_char, and it is  *)
(* terminated when it is copied because nothing else leads to the copy.    *)
(* What is stored and what is still to be read are together what the list  *)
(* denotes, which gives the string a call returns and the lists it         *)
(* refuses; the lists of the classes denote the classes.                   *)
(***************************************************************************)
EXTENDS Charset, SequenceTheorems, WellFoundedInduction, TLAPS

\* Every set of naturals has a least element.
LEMMA LeastNat ==
  ASSUME NEW T \in SUBSET Nat, T # {}
  PROVE  \E n \in T : \A m \in T : n <= m
<1>1. PICK n \in T : \A m \in T : <<m, n>> \notin OpToRel(<, Nat)
  BY NatLessThanWellFounded, WFMin
<1>2. \A m \in T : ~(m < n)
  BY <1>1 DEF OpToRel
<1>3. QED
  BY <1>2

Output == [chars : Seq(Char), full : BOOLEAN]

Fitting(o) == o \in Output /\ Len(o.chars) <= CAPACITY

\* What push_char preserves: the array's bound; and what it adds, while it can.
LEMMA PushCharFits ==
  ASSUME NEW o, Fitting(o), NEW c \in Char
  PROVE  /\ Fitting(PushChar(o, c))
         /\ ~PushChar(o, c).full => /\ PushChar(o, c).chars # <<>>
                                    /\ PushChar(o, c).chars[Len(PushChar(o, c).chars)] = c
<1> USE CapacityAssumption DEF CapacityAssumption, Fitting, Output
<1>1. CASE ~o.full /\ Len(o.chars) < CAPACITY
  <2>1. PushChar(o, c) = [o EXCEPT !.chars = Append(o.chars, c)]
    BY <1>1 DEF PushChar
  <2>2. /\ Append(o.chars, c) \in Seq(Char)
        /\ Len(Append(o.chars, c)) = Len(o.chars) + 1
        /\ Append(o.chars, c)[Len(o.chars) + 1] = c
    BY AppendProperties
  <2>3. PushChar(o, c).chars = Append(o.chars, c) /\ PushChar(o, c).full = o.full
    BY <2>1
  <2>4. PushChar(o, c) \in Output
    BY <2>1, <2>2
  <2>5. Len(PushChar(o, c).chars) <= CAPACITY
    BY <1>1, <2>2, <2>3, LenProperties
  <2>6. /\ PushChar(o, c).chars # <<>>
        /\ PushChar(o, c).chars[Len(PushChar(o, c).chars)] = c
    BY <2>2, <2>3, LenProperties
  <2>7. QED
    BY <2>4, <2>5, <2>6
<1>2. CASE ~(~o.full /\ Len(o.chars) < CAPACITY)
  <2>1. PushChar(o, c) = [o EXCEPT !.full = TRUE]
    BY <1>2 DEF PushChar
  <2>2. QED
    BY <2>1
<1>3. QED
  BY <1>1, <1>2

\* The lists that stand for the classes are lists without a NUL.
LEMMA ClassSpecIsList == \A c \in ClassName : ClassSpec[c] \in Seq(Char \ {NUL})
<1> DEFINE Lists == Seq(Char \ {NUL})
<1>1. /\ \A a, b \in Char \ {NUL} : To(a, b) \in Lists
      /\ <<95>> \in Lists
  BY DEF To, Char, NUL, Dash
<1>2. \A s, t \in Lists : s \o t \in Lists
  BY ConcatProperties
<1>3. {97, 122, 65, 90, 48, 57, 33, 47, 58, 64, 91, 96, 123, 126, 70, 102}
        \subseteq Char \ {NUL}
  BY DEF Char, NUL
<1> HIDE DEF Lists
<1>4. /\ To(97, 122) \in Lists /\ To(65, 90) \in Lists /\ To(48, 57) \in Lists
      /\ To(33, 47) \in Lists /\ To(58, 64) \in Lists /\ To(91, 96) \in Lists
      /\ To(123, 126) \in Lists /\ To(65, 70) \in Lists /\ To(97, 102) \in Lists
      /\ To(33, 126) \in Lists /\ <<95>> \in Lists
  BY <1>1, <1>3
<1>5. \A c \in ClassName : ClassSpec[c] \in Lists
  <2>1. /\ To(97, 122) \o To(65, 90) \in Lists
        /\ To(97, 122) \o To(65, 90) \o To(48, 57) \in Lists
        /\ To(65, 90) \o To(97, 122) \o To(48, 57) \o <<95>> \in Lists
        /\ To(65, 70) \o To(97, 102) \o To(48, 57) \in Lists
        /\ To(33, 47) \o To(58, 64) \o To(91, 96) \o To(123, 126) \in Lists
    BY ONLY <1>2, <1>4
  <2>2. QED
    BY ONLY <1>4, <2>1 DEF ClassSpec
<1>6. QED
  BY <1>5 DEF Lists

\* A C string is a string of the characters of its array.
LEMMA CStringType ==
  ASSUME NEW s \in Seq(Char)
  PROVE  CString(s) \in Seq(Char)
<1> DEFINE ends == {i \in 1..Len(s) : s[i] = NUL}
<1>1. CASE ends = {}
  BY <1>1 DEF CString
<1>2. CASE ends # {}
  <2>1. \E n \in ends : \A m \in ends : n <= m
    <3>1. ends \subseteq Nat
      OBVIOUS
    <3> HIDE DEF ends
    <3>2. QED
      BY <1>2, <3>1, LeastNat
  <2>2. PICK k \in ends : CString(s) = SubSeq(s, 1, k - 1)
    BY <1>2, <2>1 DEF CString
  <2>3. \A i \in 1..k-1 : s[i] \in Char
    BY <2>2, ElementOfSeq
  <2>4. QED
    BY <2>2, <2>3, SubSeqProperties
<1>3. QED
  BY <1>1, <1>2

\* The inductive invariant: while ranges are expanded there is a character to
\* compare with, and what is copied ends in a NUL.
IInv == /\ TypeOK
        /\ Fitting(out)
        /\ pc = "range" => spec # <<>>
        /\ pc = "copy" => out.chars # <<>> /\ out.chars[Len(out.chars)] = NUL

LEMMA InitIInv == Init => IInv
  BY RequestsAssumption, CapacityAssumption
     DEF RequestsAssumption, CapacityAssumption, Init, IInv, TypeOK, Fitting, Output, Char, NUL

LEMMA NextIInv == IInv /\ [Next]_vars => IInv'
<1> SUFFICES ASSUME IInv, [Next]_vars PROVE IInv'
  OBVIOUS
<1> USE DEF IInv, TypeOK
<1>0. /\ Char \subseteq Int
      /\ NUL \in Char /\ Dash \in Char
      /\ \A c \in Char : c # 127 => c + 1 \in Char
      /\ -128 \in Char
  BY DEF Char, NUL, Dash
<1>a. spec # <<>> => Head(spec) \in Char \ {NUL} /\ Tail(spec) \in Seq(Char \ {NUL})
  BY HeadTailProperties
<1>1. CASE RejectNull
  BY <1>1 DEF RejectNull, Return
<1>2. CASE Resolve
  <2>1. Resolved \in Seq(Char \ {NUL})
    BY <1>2, ClassSpecIsList DEF Resolve, Resolved, Request
  <2>2. QED
    BY <1>2, <2>1 DEF Resolve
<1>3. CASE SkipSpace
  BY <1>3 DEF SkipSpace, vars
<1>4. CASE LeadingDash
  BY <1>0, <1>a, <1>4, PushCharFits DEF LeadingDash, Scanning, Fitting, Output
<1>5. CASE TakeLeft
  BY <1>0, <1>a, <1>5 DEF TakeLeft, Scanning
<1>6. CASE SeeDash
  BY <1>0, <1>a, <1>6 DEF SeeDash, Scanning
<1>7. CASE BeginRange
  BY <1>7 DEF BeginRange, Scanning
<1>8. CASE RangePush
  <2>1. Fitting(out')
    BY <1>8, PushCharFits DEF RangePush
  <2>2. l' \in Char
    BY <1>0, <1>8 DEF RangePush
  <2>3. QED
    BY <1>8, <2>1, <2>2 DEF RangePush, Fitting, Output
<1>9. CASE EndRange
  BY <1>0, <1>a, <1>9 DEF EndRange
<1>10. CASE PushLiteral
  <2>1. Fitting(out')
    BY <1>10, PushCharFits DEF PushLiteral
  <2>2. QED
    BY <1>0, <1>a, <1>10, <2>1 DEF PushLiteral, Scanning, Fitting, Output
<1>11. CASE Finish
  <2> DEFINE literal == IF l # NUL THEN PushChar(out, l) ELSE out
             dash    == IF op = 1 THEN PushChar(literal, Dash) ELSE literal
  <2>1. Fitting(literal)
    BY PushCharFits
  <2>2. Fitting(dash)
    BY <1>0, <2>1, PushCharFits
  <2>3. /\ Fitting(PushChar(dash, NUL))
        /\ ~PushChar(dash, NUL).full =>
              /\ PushChar(dash, NUL).chars # <<>>
              /\ PushChar(dash, NUL).chars[Len(PushChar(dash, NUL).chars)] = NUL
    BY <1>0, <2>2, PushCharFits
  <2>4. out' = PushChar(dash, NUL)
    BY <1>11 DEF Finish
  <2>5. Fitting(out') /\ (~out'.full => out'.chars # <<>> /\ out'.chars[Len(out'.chars)] = NUL)
    BY <2>3, <2>4
  <2>6. CASE out'.full
    BY <1>11, <2>5, <2>6 DEF Finish, Return, Fitting, Output
  <2>7. CASE ~out'.full
    BY <1>11, <2>5, <2>7 DEF Finish, Fitting, Output
  <2>8. QED
    BY <2>6, <2>7
<1>12. CASE Copy
  <2>1. CString(out.chars) \in Seq(Char)
    BY CStringType
  <2>2. QED
    BY <1>12, <2>1 DEF Copy, Return, Fitting, Output
<1>13. CASE AllocationFails
  BY <1>13 DEF AllocationFails, Return, Fitting, Output
<1>14. CASE UNCHANGED vars
  BY <1>14 DEF vars, Fitting, Output
<1>15. QED
  BY <1>1, <1>2, <1>3, <1>4, <1>5, <1>6, <1>7, <1>8, <1>9, <1>10, <1>11, <1>12,
     <1>13, <1>14 DEF Next

LEMMA Invariance == Spec => []IInv
  BY InitIInv, NextIInv, PTL DEF Spec

\* The variables have their types.
THEOREM TypeCorrect == Spec => []TypeOK
<1>1. IInv => TypeOK
  BY DEF IInv
<1>2. QED
  BY Invariance, <1>1, PTL

\* No list, however long, makes a store behind the array, and strlen and memcpy
\* find the terminator in it.
THEOREM WritesStayInBounds == Spec => []WritesInBounds
<1>1. IInv => WritesInBounds
  BY DEF IInv, WritesInBounds, Fitting
<1>2. QED
  BY Invariance, <1>1, PTL

--------------------------------------------------------------------------------
\* What holds of a position of a list if it holds of all positions behind it,
\* holds of all positions.
LEMMA FromTheEnd ==
  ASSUME NEW n \in Nat, NEW T,
         \A m \in 1..n+1 : (\A k \in m+1..n+1 : k \in T) => m \in T
  PROVE  \A m \in 1..n+1 : m \in T
<1> DEFINE bad == {d \in 0..n : n + 1 - d \notin T}
<1>1. SUFFICES bad = {}
  <2>1. SUFFICES ASSUME NEW m \in 1..n+1, bad = {} PROVE m \in T
    OBVIOUS
  <2>2. n + 1 - m \in 0..n /\ n + 1 - (n + 1 - m) = m
    OBVIOUS
  <2>3. QED
    BY <2>1, <2>2
<1>2. SUFFICES ASSUME bad # {} PROVE FALSE
  OBVIOUS
<1>3. bad \in SUBSET Nat
  OBVIOUS
<1>4. PICK d \in bad : \A e \in bad : d <= e
  <2> HIDE DEF bad
  <2>1. QED
    BY <1>2, <1>3, LeastNat
<1>5. \A k \in n+1-d+1..n+1 : k \in T
  <2>1. SUFFICES ASSUME NEW k \in n+1-d+1..n+1 PROVE k \in T
    OBVIOUS
  <2>2. n + 1 - k \in 0..n /\ n + 1 - k < d /\ n + 1 - (n + 1 - k) = k
    BY <1>4
  <2>3. n + 1 - k \notin bad
    <3>1. ~(d <= n + 1 - k)
      BY <1>4, <2>2
    <3> HIDE DEF bad
    <3>2. QED
      BY ONLY <1>4, <3>1
  <2>4. QED
    BY <2>2, <2>3
<1>6. n + 1 - d \in 1..n+1
  BY <1>4
<1>7. n + 1 - d \in T
  BY <1>5, <1>6
<1>8. QED
  BY <1>4, <1>7

\* One step of the reading, from position i, when f has the rest of the list.
From(list, f, i) ==
    IF i > Len(list) THEN <<>>
    ELSE IF list[i] = Dash \/ i = Len(list) \/ list[i+1] # Dash
         THEN <<list[i]>> \o f[i+1]
    ELSE IF Closing(list, i) = {} THEN <<list[i], Dash>>
    ELSE LET j == CHOOSE j \in Closing(list, i) : TRUE
         IN  Interval(list[i], list[j]) \o f[j+1]

\* It looks only at what is behind i.
LEMMA FromLooksBehind ==
  ASSUME NEW L, Len(L) \in Nat, NEW f, NEW g, NEW i \in 1..Len(L)+1,
         \A k \in i+1..Len(L)+1 : f[k] = g[k]
  PROVE  From(L, f, i) = From(L, g, i)
<1>1. CASE i > Len(L)
  BY <1>1 DEF From
<1>2. CASE ~(i > Len(L)) /\ (L[i] = Dash \/ i = Len(L) \/ L[i+1] # Dash)
  <2>1. i + 1 \in i+1..Len(L)+1
    BY <1>2
  <2>2. f[i+1] = g[i+1]
    BY <2>1
  <2>3. QED
    BY <1>2, <2>2 DEF From
<1>3. CASE ~(i > Len(L)) /\ ~(L[i] = Dash \/ i = Len(L) \/ L[i+1] # Dash)
  <2> DEFINE j == CHOOSE j \in Closing(L, i) : TRUE
  <2>1. CASE Closing(L, i) = {}
    BY <1>3, <2>1 DEF From
  <2>2. CASE Closing(L, i) # {}
    <3>1. j \in Closing(L, i)
      BY <2>2
    <3>2. j \in i+1..Len(L)
      BY <3>1 DEF Closing
    <3> HIDE DEF j
    <3>3. j + 1 \in i+1..Len(L)+1
      BY <3>2
    <3>4. f[j+1] = g[j+1]
      BY <3>3
    <3>5. From(L, f, i) = Interval(L[i], L[j]) \o f[j+1]
      BY <1>3, <2>2 DEF From, j
    <3>6. From(L, g, i) = Interval(L[i], L[j]) \o g[j+1]
      BY <1>3, <2>2 DEF From, j
    <3>7. QED
      BY <3>4, <3>5, <3>6
  <2>3. QED
    BY <2>1, <2>2
<1>4. QED
  BY <1>1, <1>2, <1>3

\* So there is a reading of every list, built from its end on, and Reading is one.
LEMMA ReadingReads ==
  ASSUME NEW L, Len(L) \in Nat
  PROVE  Reading(L) = [i \in 1..Len(L)+1 |-> From(L, Reading(L), i)]
<1> DEFINE n == Len(L)
           Reads(m, f) == f = [i \in m..n+1 |-> From(L, f, i)]
           T == {m \in 1..n+1 : \E f : Reads(m, f)}
<1>1. ASSUME NEW m \in 1..n+1, \A k \in m+1..n+1 : k \in T
      PROVE  m \in T
  <2>1. PICK f : \A k \in m+1..n+1 : f[k] = From(L, f, k)
    <3>1. CASE m = n + 1
      BY <3>1
    <3>2. CASE m # n + 1
      <4>1. m + 1 \in m+1..n+1
        BY <3>2
      <4>2. PICK f : Reads(m + 1, f)
        BY <1>1, <4>1
      <4>3. ASSUME NEW k \in m+1..n+1 PROVE f[k] = From(L, f, k)
        BY <4>2
      <4>4. QED
        BY <4>3
    <3>3. QED
      BY <3>1, <3>2
  <2> DEFINE g == [i \in m..n+1 |-> IF i = m THEN From(L, f, m) ELSE f[i]]
  <2>2. ASSUME NEW i \in m..n+1 PROVE g[i] = From(L, g, i)
    <3>1. i \in 1..n+1
      OBVIOUS
    <3>2. \A k \in i+1..n+1 : f[k] = g[k]
      OBVIOUS
    <3> HIDE DEF g
    <3>3. From(L, f, i) = From(L, g, i)
      BY <3>1, <3>2, FromLooksBehind
    <3>4. g[i] = From(L, f, i)
      <4>1. CASE i = m
        BY <4>1 DEF g
      <4>2. CASE i # m
        <5>1. i \in m+1..n+1
          BY <4>2
        <5>2. g[i] = f[i]
          BY <4>2 DEF g
        <5>3. QED
          BY <2>1, <5>1, <5>2
      <4>3. QED
        BY <4>1, <4>2
    <3>5. QED
      BY <3>3, <3>4
  <2>3. g = [i \in m..n+1 |-> g[i]]
    OBVIOUS
  <2> HIDE DEF g
  <2>4. Reads(m, g)
    BY ONLY <2>2, <2>3
  <2> HIDE DEF Reads
  <2>5. QED
    BY <2>4
<1>2. \A m \in 1..n+1 : m \in T
  <2> HIDE DEF T
  <2>1. QED
    BY <1>1, FromTheEnd
<1>3. 1 \in T
  <2>1. 1 \in 1..n+1
    OBVIOUS
  <2> HIDE DEF T
  <2>2. QED
    BY <1>2, <2>1
<1>4. PICK g : g = [i \in 1..n+1 |-> From(L, g, i)]
  BY <1>3
<1>5. QED
  BY <1>4 DEF Reading, From

LEMMA IntervalType ==
  ASSUME NEW x \in Char, NEW y \in Char
  PROVE  /\ Interval(x, y) \in Seq(Char)
         /\ Len(Interval(x, y)) = IF x <= y THEN y - x + 1 ELSE 0
         /\ \A i \in 1..Len(Interval(x, y)) : Interval(x, y)[i] = x + i - 1
<1> DEFINE k == IF x <= y THEN y - x + 1 ELSE 0
           f == [i \in 1..k |-> x + i - 1]
<1>1. x \in Int /\ y \in Int /\ k \in Nat /\ \A i \in 1..k : x + i - 1 \in Char
  BY DEF Char
<1>2. Interval(x, y) = f
  BY DEF Interval
<1> HIDE DEF k
<1>3. f \in [1..k -> Char] /\ \A i \in 1..k : f[i] = x + i - 1
  BY ONLY <1>1
<1> HIDE DEF f
<1>4. f \in Seq(Char)
  BY ONLY <1>1, <1>3, SeqDef
<1>5. DOMAIN f = 1..k /\ Len(f) \in Nat /\ DOMAIN f = 1..Len(f)
  BY <1>3, <1>4, LenProperties
<1>6. Len(f) = k
  BY ONLY <1>1, <1>5
<1>7. QED
  BY <1>2, <1>3, <1>4, <1>6 DEF k

\* The reading of a list is made of characters.
LEMMA ReadingType ==
  ASSUME NEW L \in Seq(Char)
  PROVE  \A i \in 1..Len(L)+1 : /\ Reading(L)[i] \in Seq(Char)
                                /\ Reading(L)[i] = From(L, Reading(L), i)
<1> DEFINE n == Len(L)
           f == Reading(L)
           T == {i \in 1..n+1 : f[i] \in Seq(Char)}
<1>1. n \in Nat /\ \A i \in 1..n : L[i] \in Char
  BY LenProperties, ElementOfSeq
<1>2. ASSUME NEW i \in 1..n+1 PROVE f[i] = From(L, f, i)
  BY <1>1, ReadingReads
<1> HIDE DEF f
<1>3. ASSUME NEW i \in 1..n+1, \A k \in i+1..n+1 : k \in T
      PROVE  i \in T
  <2>1. \A k \in i+1..n+1 : f[k] \in Seq(Char)
    BY <1>3
  <2>2. CASE i > n
    BY <1>2, <2>2, EmptySeq DEF From
  <2>3. CASE ~(i > n) /\ (L[i] = Dash \/ i = n \/ L[i+1] # Dash)
    <3>1. i + 1 \in i+1..n+1 /\ i \in 1..n
      BY <1>1, <2>3
    <3>2. f[i+1] \in Seq(Char) /\ L[i] \in Char
      BY <1>1, <2>1, <3>1
    <3>3. <<L[i]>> \in Seq(Char)
      BY <3>2
    <3>4. f[i] = <<L[i]>> \o f[i+1]
      BY <1>2, <2>3 DEF From
    <3>5. f[i] \in Seq(Char)
      BY <3>2, <3>3, <3>4, ConcatProperties
    <3>6. QED
      BY <3>5
  <2>4. CASE ~(i > n) /\ ~(L[i] = Dash \/ i = n \/ L[i+1] # Dash)
    <3> DEFINE j == CHOOSE j \in Closing(L, i) : TRUE
    <3>0. i \in 1..n
      BY <1>1, <2>4
    <3>1. CASE Closing(L, i) = {}
      <4>1. f[i] = <<L[i], Dash>>
        BY <1>2, <2>4, <3>1 DEF From
      <4>2. L[i] \in Char /\ Dash \in Char
        BY <1>1, <3>0 DEF Dash, Char
      <4>3. <<L[i], Dash>> \in Seq(Char)
        BY <4>2
      <4>4. QED
        BY <4>1, <4>3
    <3>2. CASE Closing(L, i) # {}
      <4>1. f[i] = Interval(L[i], L[j]) \o f[j+1]
        BY <1>2, <2>4, <3>2 DEF From
      <4>2. j \in Closing(L, i)
        BY <3>2
      <4>3. j \in i+1..n
        BY <4>2 DEF Closing
      <4> HIDE DEF j
      <4>4. j \in 1..n /\ j + 1 \in i+1..n+1
        BY <1>1, <3>0, <4>3
      <4>5. Interval(L[i], L[j]) \in Seq(Char) /\ f[j+1] \in Seq(Char)
        BY <1>1, <2>1, <3>0, <4>4, IntervalType
      <4>6. f[i] \in Seq(Char)
        BY <4>1, <4>5, ConcatProperties
      <4>7. QED
        BY <4>6
    <3>3. QED
      BY <3>1, <3>2
  <2>5. QED
    BY <2>2, <2>3, <2>4
<1>4. \A i \in 1..n+1 : i \in T
  <2> HIDE DEF T
  <2>1. QED
    BY <1>1, <1>3, FromTheEnd
<1>5. QED
  BY <1>2, <1>4 DEF f

LEMMA IntervalUnrolls ==
  ASSUME NEW x \in Char, NEW y \in Char
  PROVE  /\ x > y => Interval(x, y) = <<>>
         /\ x <= y /\ y # 127 => /\ x + 1 \in Char
                                 /\ Interval(x, y) = <<x>> \o Interval(x + 1, y)
<1>0. x \in Int /\ y \in Int
  BY DEF Char
<1>1. ASSUME x > y PROVE Interval(x, y) = <<>>
  <2>1. Len(Interval(x, y)) = 0 /\ Interval(x, y) \in Seq(Char)
    BY <1>0, <1>1, IntervalType
  <2>2. QED
    BY ONLY <2>1, EmptySeq
<1>2. ASSUME x <= y, y # 127
      PROVE  x + 1 \in Char /\ Interval(x, y) = <<x>> \o Interval(x + 1, y)
  <2>1. x + 1 \in Char
    BY <1>2 DEF Char
  <2> DEFINE s == Interval(x, y)
             t == Interval(x + 1, y)
  <2>2. /\ s \in Seq(Char) /\ Len(s) = y - x + 1
        /\ \A i \in 1..Len(s) : s[i] = x + i - 1
    BY <1>0, <1>2, IntervalType
  <2>3. t \in Seq(Char) /\ Len(t) = y - x /\ \A i \in 1..Len(t) : t[i] = x + 1 + i - 1
    <3>1. PICK z \in Char : z = x + 1
      BY ONLY <2>1
    <3>2. DEFINE u == Interval(z, y)
    <3>3. /\ u \in Seq(Char) /\ Len(u) = IF z <= y THEN y - z + 1 ELSE 0
          /\ \A i \in 1..Len(u) : u[i] = z + i - 1
      BY IntervalType
    <3>4. HIDE DEF u
    <3>5. u = t
      BY ONLY <3>1 DEF u, t
    <3>6. Len(u) = y - x
      BY ONLY <1>0, <1>2, <3>1, <3>3
    <3>7. QED
      BY ONLY <3>1, <3>3, <3>5, <3>6
  <2> HIDE DEF s, t
  <2>4. <<x>> \in Seq(Char) /\ Len(<<x>>) = 1 /\ <<x>>[1] = x
    OBVIOUS
  <2>5. /\ <<x>> \o t \in Seq(Char)
        /\ Len(<<x>> \o t) = Len(s)
        /\ \A i \in 1..Len(s) :
              (<<x>> \o t)[i] = IF i <= 1 THEN <<x>>[i] ELSE t[i - 1]
    BY ONLY <1>0, <2>2, <2>3, <2>4, ConcatProperties
  <2>6. ASSUME NEW i \in 1..Len(s) PROVE s[i] = (<<x>> \o t)[i]
    <3>1. CASE i = 1
      BY ONLY <1>0, <2>2, <2>4, <2>5, <3>1
    <3>2. CASE i # 1
      <4>1. i - 1 \in 1..Len(t) /\ ~(i <= 1)
        BY ONLY <1>0, <2>2, <2>3, <3>2
      <4>2. t[i - 1] = x + 1 + (i - 1) - 1 /\ s[i] = x + i - 1
        BY <2>2, <2>3, <4>1
      <4>3. x + 1 + (i - 1) - 1 = x + i - 1
        BY ONLY <1>0, <2>2
      <4>4. QED
        BY <2>5, <4>1, <4>2, <4>3
    <3>3. QED
      BY <3>1, <3>2
  <2>7. s = <<x>> \o t
    BY ONLY <2>2, <2>5, <2>6, SeqEqual
  <2>8. QED
    BY <2>1, <2>7 DEF s, t
<1>3. QED
  BY <1>1, <1>2

\* The cases of the reading, one by one.
LEMMA ReadingCases ==
  ASSUME NEW L \in Seq(Char)
  PROVE  /\ Reading(L)[Len(L)+1] = <<>>
         /\ \A i \in 1..Len(L) :
               L[i] = Dash \/ i = Len(L) \/ L[i+1] # Dash
                  => Reading(L)[i] = <<L[i]>> \o Reading(L)[i+1]
         /\ \A i \in 1..Len(L) : \A j \in i+2..Len(L) :
               L[i] # Dash /\ L[j] # Dash /\ (\A k \in i+1..j-1 : L[k] = Dash)
                  => Reading(L)[i] = Interval(L[i], L[j]) \o Reading(L)[j+1]
         /\ \A i \in 1..Len(L)-1 :
               L[i] # Dash /\ (\A k \in i+1..Len(L) : L[k] = Dash)
                  => Reading(L)[i] = <<L[i], Dash>>
<1> DEFINE n == Len(L)
           f == Reading(L)
<1>0. n \in Nat
  BY LenProperties
<1>1. ASSUME NEW i \in 1..n+1 PROVE f[i] = From(L, f, i)
  BY ReadingType
<1> HIDE DEF f
<1>2. f[n+1] = <<>>
  <2>1. n + 1 \in 1..n+1 /\ n + 1 > n
    BY <1>0
  <2>2. f[n+1] = From(L, f, n + 1)
    BY <1>1, <2>1
  <2>3. QED
    BY <2>1, <2>2 DEF From
<1>3. ASSUME NEW i \in 1..n, L[i] = Dash \/ i = n \/ L[i+1] # Dash
      PROVE  f[i] = <<L[i]>> \o f[i+1]
  <2>1. i \in 1..n+1 /\ ~(i > n)
    BY <1>0
  <2>2. f[i] = From(L, f, i)
    BY <1>1, <2>1
  <2>3. QED
    BY <1>3, <2>1, <2>2 DEF From
<1>4. ASSUME NEW i \in 1..n, NEW j \in i+2..n,
             L[i] # Dash, L[j] # Dash, \A k \in i+1..j-1 : L[k] = Dash
      PROVE  f[i] = Interval(L[i], L[j]) \o f[j+1]
  <2>1. Closing(L, i) = {j}
    <3>1. j \in Closing(L, i)
      BY <1>0, <1>4 DEF Closing
    <3>2. ASSUME NEW h \in Closing(L, i) PROVE h = j
      <4>1. /\ h \in i+1..n /\ L[h] # Dash /\ \A k \in i+1..h-1 : L[k] = Dash
        BY <3>2 DEF Closing
      <4>2. ~(h < j)
        BY <1>0, <1>4, <4>1
      <4>3. ~(j < h)
        BY <1>0, <1>4, <4>1
      <4>4. QED
        BY <1>0, <4>1, <4>2, <4>3
    <3>3. QED
      BY <3>1, <3>2
  <2>2. ~(i > n) /\ ~(i = n) /\ i \in 1..n+1 /\ i + 1 \in i+1..j-1
    BY <1>0
  <2>3. L[i+1] = Dash
    BY <1>4, <2>2
  <2>4. Closing(L, i) # {} /\ (CHOOSE h \in Closing(L, i) : TRUE) = j
    BY <2>1
  <2>5. f[i] = From(L, f, i)
    BY <1>1, <2>2
  <2>6. QED
    BY <1>4, <2>2, <2>3, <2>4, <2>5 DEF From
<1>5. ASSUME NEW i \in 1..n-1, L[i] # Dash, \A k \in i+1..n : L[k] = Dash
      PROVE  f[i] = <<L[i], Dash>>
  <2>1. Closing(L, i) = {}
    BY <1>0, <1>5 DEF Closing
  <2>2. ~(i > n) /\ ~(i = n) /\ i \in 1..n+1 /\ i + 1 \in i+1..n
    BY <1>0
  <2>3. L[i+1] = Dash
    BY <1>5, <2>2
  <2>4. f[i] = From(L, f, i)
    BY <1>1, <2>2
  <2>5. QED
    BY <1>5, <2>1, <2>2, <2>3, <2>4 DEF From
<1>6. QED
  BY <1>2, <1>3, <1>4, <1>5 DEF f

--------------------------------------------------------------------------------
\* What is stored, followed by what is still to come, is the whole; or it is
\* already known that the whole does not fit.
Agrees(o, rest, whole) == IF o.full THEN Len(whole) > CAPACITY ELSE whole = o.chars \o rest

\* Where the scan stands in the list.
Position == Len(Resolved) - Len(spec) + 1

Suffix == /\ given.class # "nullptr"
          /\ Len(spec) <= Len(Resolved)
          /\ \A k \in 1..Len(spec) : spec[k] = Resolved[Position + k - 1]

\* l was read at position m, and only dashes since.
HoldsLeft(m) == /\ Resolved[m] = l /\ l # Dash
                /\ \A k \in m+1..Position-1 : Resolved[k] = Dash
                /\ op = 1 <=> m < Position - 1

\* What is still to come is the reading of the list from the character that is
\* held on, from the cursor when there is none, or from within a range.  A range
\* that ends in DEL is not left, and nothing is said about it.
Scanned ==
    IF l = NUL
    THEN op = 0 /\ Agrees(out, Reading(Resolved)[Position], Denotes(Resolved))
    ELSE \E m \in 1..Position-1 :
            HoldsLeft(m) /\ Agrees(out, Reading(Resolved)[m], Denotes(Resolved))

Ranged == Head(spec) # 127 =>
            Agrees(out, Interval(l, Head(spec)) \o Reading(Resolved)[Position + 1],
                   Denotes(Resolved))

\* The inductive invariant of the denotation.
DInv == /\ pc = "enter" => out = [chars |-> <<>>, full |-> FALSE] /\ l = NUL /\ op = 0
        /\ pc \in {"scan", "range"} => Suffix
        /\ pc = "scan" => Scanned
        /\ pc = "range" => Ranged
        /\ pc = "copy" => /\ given.class # "nullptr"
                          /\ Len(Denotes(Resolved)) < CAPACITY
                          /\ out.chars = Denotes(Resolved) \o <<NUL>>
        /\ pc # "returned" => ret = "none"
        /\ ReturnsDenotation
        /\ RefusesOnlyTooLong

\* push_char moves one character from what is to come to what is stored.
LEMMA PushAgrees ==
  ASSUME NEW o, Fitting(o), NEW c \in Char, NEW rest \in Seq(Char), NEW whole,
         Agrees(o, <<c>> \o rest, whole)
  PROVE  Agrees(PushChar(o, c), rest, whole)
<1> DEFINE s == o.chars
<1>0. s \in Seq(Char) /\ o.full \in BOOLEAN /\ Len(s) <= CAPACITY /\ o \in Output /\ Len(s) \in Nat
  BY LenProperties DEF Fitting, Output
<1>1. /\ <<c>> \in Seq(Char) /\ Len(<<c>>) = 1
  OBVIOUS
<1>2. CASE o.full
  <2>1. PushChar(o, c) = [o EXCEPT !.full = TRUE]
    BY <1>2 DEF PushChar
  <2>2. PushChar(o, c).full
    BY <1>0, <2>1 DEF Output
  <2>3. QED
    BY <1>2, <2>2 DEF Agrees
<1>3. CASE ~o.full /\ Len(s) < CAPACITY
  <2>1. PushChar(o, c) = [o EXCEPT !.chars = Append(s, c)]
    BY <1>3 DEF PushChar
  <2>2. PushChar(o, c).chars = Append(s, c) /\ ~PushChar(o, c).full
    BY <1>0, <1>3, <2>1 DEF Output
  <2>3. whole = s \o (<<c>> \o rest)
    BY <1>3 DEF Agrees
  <2> HIDE DEF s
  <2>4. s \o (<<c>> \o rest) = (s \o <<c>>) \o rest
    BY <1>0, <1>1, ConcatAssociative
  <2>5. s \o <<c>> = Append(s, c)
    BY <1>0, AppendIsConcat
  <2>6. QED
    BY <2>2, <2>3, <2>4, <2>5 DEF Agrees
<1>4. CASE ~o.full /\ ~(Len(s) < CAPACITY)
  <2>1. PushChar(o, c) = [o EXCEPT !.full = TRUE]
    BY <1>4 DEF PushChar
  <2>2. PushChar(o, c).full
    BY <1>0, <2>1 DEF Output
  <2>3. whole = s \o (<<c>> \o rest)
    BY <1>4 DEF Agrees
  <2> HIDE DEF s
  <2>4. <<c>> \o rest \in Seq(Char) /\ Len(<<c>> \o rest) = 1 + Len(rest)
    BY <1>1, ConcatProperties
  <2>5. Len(whole) = Len(s) + (1 + Len(rest))
    BY <1>0, <2>3, <2>4, ConcatProperties
  <2>6. Len(whole) > CAPACITY
    BY <1>0, <1>4, <2>5, CapacityAssumption, LenProperties DEF CapacityAssumption
  <2>7. QED
    BY <2>2, <2>6 DEF Agrees
<1>5. QED
  BY <1>0, <1>2, <1>3, <1>4

\* A terminator put behind characters does not change their C string.
LEMMA CStringOfTerminated ==
  ASSUME NEW s \in Seq(Char)
  PROVE  CString(s \o <<NUL>>) = CString(s)
<1> DEFINE t == s \o <<NUL>>
           ends(q) == {i \in 1..Len(q) : q[i] = NUL}
           least(q) == CHOOSE i \in ends(q) : \A j \in ends(q) : i <= j
<1>1. NUL \in Char
  BY DEF NUL, Char
<1>2. t = Append(s, NUL)
  BY <1>1, AppendIsConcat
<1>3. /\ t \in Seq(Char) /\ Len(s) \in Nat /\ Len(t) = Len(s) + 1 /\ t[Len(s) + 1] = NUL
      /\ \A i \in 1..Len(s) : t[i] = s[i]
  BY <1>1, <1>2, AppendProperties, LenProperties
<1> HIDE DEF t
<1>4. CString(s) = (IF ends(s) = {} THEN s ELSE SubSeq(s, 1, least(s) - 1))
      /\ CString(t) = (IF ends(t) = {} THEN t ELSE SubSeq(t, 1, least(t) - 1))
  BY DEF CString
<1>5. ends(t) = ends(s) \cup {Len(s) + 1}
  BY <1>3
<1>6. ends(s) \in SUBSET (1..Len(s))
  OBVIOUS
<1> HIDE DEF ends, least
<1>7. CASE ends(s) = {}
  <2>1. ends(t) = {Len(s) + 1}
    BY <1>5, <1>7
  <2>2. least(t) = Len(s) + 1
    BY <1>3, <2>1 DEF least
  <2>3. CString(t) = SubSeq(t, 1, Len(s))
    BY <1>3, <1>4, <2>1, <2>2
  <2>4. SubSeq(t, 1, Len(s)) = s
    <3>1. /\ SubSeq(t, 1, Len(s)) \in Seq(Char)
          /\ Len(SubSeq(t, 1, Len(s))) = Len(s)
          /\ \A i \in 1..Len(s) : SubSeq(t, 1, Len(s))[i] = t[i]
      BY <1>1, <1>3
    <3>2. QED
      BY <1>3, <3>1, SeqEqual
  <2>5. QED
    BY <1>4, <1>7, <2>3, <2>4 DEF t
<1>8. CASE ends(s) # {}
  <2>1. \E k \in ends(s) : \A j \in ends(s) : k <= j
    <3>1. ends(s) \in SUBSET Nat
      BY <1>6
    <3>2. QED
      BY <1>8, <3>1, LeastNat
  <2>2. PICK k \in ends(s) : \A j \in ends(s) : k <= j
    BY <2>1
  <2>3. k \in 1..Len(s) /\ \A j \in ends(s) : j \in 1..Len(s)
    BY <1>6, <2>2
  <2>4. k \in ends(t) /\ \A j \in ends(t) : k <= j
    BY <1>3, <1>5, <2>2, <2>3
  <2>5. ASSUME NEW T \in SUBSET Nat, k \in T, \A j \in T : k <= j
        PROVE  (CHOOSE i \in T : \A j \in T : i <= j) = k
    <3>1. \A i \in T : (\A j \in T : i <= j) => i <= k /\ k <= i
      BY <2>5
    <3>2. \A i \in T : (\A j \in T : i <= j) => i = k
      BY <2>3, <3>1
    <3>3. QED
      BY <2>5, <3>2
  <2>6. ends(s) \in SUBSET Nat /\ ends(t) \in SUBSET Nat
    BY <1>3, <1>5, <1>6
  <2>7. least(s) = k /\ least(t) = k
    BY <2>2, <2>4, <2>5, <2>6 DEF least
  <2>8. SubSeq(s, 1, k - 1) = SubSeq(t, 1, k - 1)
    <3>1. /\ SubSeq(s, 1, k - 1) \in Seq(Char) /\ SubSeq(t, 1, k - 1) \in Seq(Char)
          /\ Len(SubSeq(s, 1, k - 1)) = k - 1 /\ Len(SubSeq(t, 1, k - 1)) = k - 1
          /\ \A i \in 1..k-1 : /\ SubSeq(s, 1, k - 1)[i] = s[i]
                               /\ SubSeq(t, 1, k - 1)[i] = t[i]
      BY <1>3, <2>3
    <3>2. \A i \in 1..k-1 : i \in 1..Len(s)
      BY <1>3, <2>3
    <3>3. QED
      BY <1>3, <3>1, <3>2, SeqEqual
  <2>9. QED
    BY <1>4, <1>8, <2>4, <2>7, <2>8 DEF t
<1>9. QED
  BY <1>7, <1>8

LEMMA TwoInARow ==
  ASSUME NEW a \in Char, NEW b \in Char
  PROVE  <<a>> \o <<b>> = <<a, b>>
<1>1. /\ <<a>> \in Seq(Char) /\ <<b>> \in Seq(Char) /\ <<a, b>> \in Seq(Char)
      /\ Len(<<a>>) = 1 /\ Len(<<b>>) = 1 /\ Len(<<a, b>>) = 2
      /\ <<a>>[1] = a /\ <<b>>[1] = b /\ <<a, b>>[1] = a /\ <<a, b>>[2] = b
  OBVIOUS
<1>2. /\ <<a>> \o <<b>> \in Seq(Char) /\ Len(<<a>> \o <<b>>) = 1 + 1
      /\ \A i \in 1..1+1 : (<<a>> \o <<b>>)[i] = IF i <= 1 THEN <<a>>[i] ELSE <<b>>[i - 1]
  BY <1>1, ConcatProperties
<1>3. (<<a>> \o <<b>>)[1] = a /\ (<<a>> \o <<b>>)[2] = b
  <2>1. 1 \in 1..1+1 /\ 2 \in 1..1+1 /\ ~(2 <= 1) /\ 2 - 1 = 1
    OBVIOUS
  <2>2. QED
    BY ONLY <1>1, <1>2, <2>1
<1> DEFINE s == <<a>> \o <<b>>
           t == <<a, b>>
<1>4. /\ s \in Seq(Char) /\ t \in Seq(Char) /\ Len(s) = 2 /\ Len(t) = 2
      /\ s[1] = t[1] /\ s[2] = t[2]
  BY <1>1, <1>2, <1>3
<1> HIDE DEF s, t
<1>5. \A i \in 1..Len(s) : s[i] = t[i]
  <2>1. \A i \in 1..Len(s) : i = 1 \/ i = 2
    BY ONLY <1>4
  <2>2. QED
    BY ONLY <1>4, <2>1
<1>6. s = t
  BY ONLY <1>4, <1>5, SeqEqual
<1>7. QED
  BY <1>6 DEF s, t

LEMMA InitDInv == Init => DInv
  BY DEF Init, DInv, ReturnsDenotation, RefusesOnlyTooLong

LEMMA NextDInv == IInv /\ IInv' /\ DInv /\ [Next]_vars => DInv'
<1> SUFFICES ASSUME IInv, IInv', DInv, [Next]_vars PROVE DInv'
  OBVIOUS
<1>1. PICK L : L = Resolved
  OBVIOUS
<1>2. PICK p : p = Position
  OBVIOUS
<1> DEFINE n == Len(L)
           f == Reading(L)
           D == Denotes(L)
<1>3. given' = given
  BY DEF Next, vars, RejectNull, Resolve, SkipSpace, LeadingDash, TakeLeft, SeeDash,
         BeginRange, RangePush, EndRange, PushLiteral, Finish, Copy, AllocationFails
<1>4. Resolved' = L
  BY <1>1, <1>3 DEF Resolved
<1>5. given.class # "nullptr" =>
        /\ L \in Seq(Char \ {NUL}) /\ L \in Seq(Char) /\ n \in Nat
        /\ \A i \in 1..n : L[i] \in Char \ {NUL}
  <2>1. SUFFICES ASSUME given.class # "nullptr"
                 PROVE  /\ L \in Seq(Char \ {NUL}) /\ L \in Seq(Char) /\ n \in Nat
                        /\ \A i \in 1..n : L[i] \in Char \ {NUL}
    OBVIOUS
  <2>2. L \in Seq(Char \ {NUL})
    BY <1>1, <2>1, ClassSpecIsList DEF Resolved, Request, IInv, TypeOK
  <2>3. \A i \in 1..n : L[i] \in Char \ {NUL}
    BY <2>2, ElementOfSeq
  <2>4. QED
    BY <2>2, <2>3, LenProperties
<1>6. /\ spec \in Seq(Char \ {NUL}) /\ Len(spec) \in Nat /\ l \in Char /\ op \in {0, 1}
      /\ Fitting(out) /\ out \in Output /\ NUL \in Char /\ Dash \in Char /\ Dash # NUL
      /\ Char \subseteq Int
  BY LenProperties DEF IInv, TypeOK, Fitting, Char, NUL, Dash
<1> HIDE DEF n, f, D
<1>7. pc \in {"scan", "range"} =>
        /\ given.class # "nullptr" /\ Len(spec) <= n /\ p = n - Len(spec) + 1
        /\ \A k \in 1..Len(spec) : spec[k] = L[p + k - 1]
  BY <1>1, <1>2 DEF DInv, Suffix, Position, n
<1>8. pc \in {"scan", "range"} /\ spec # <<>> =>
        p \in 1..n /\ Head(spec) = L[p] /\ p + 1 \in 1..n+1
  <2>1. SUFFICES ASSUME pc \in {"scan", "range"}, spec # <<>>
                 PROVE  p \in 1..n /\ Head(spec) = L[p] /\ p + 1 \in 1..n+1
    OBVIOUS
  <2>2. Len(spec) >= 1 /\ 1 \in 1..Len(spec) /\ Head(spec) = spec[1]
    BY <1>6, <2>1, EmptySeq, HeadTailProperties
  <2>3. n \in Nat /\ p \in Int
    BY <1>5, <1>6, <1>7, <2>1
  <2>4. spec[1] = L[p + 1 - 1] /\ p + 1 - 1 = p
    BY <1>7, <2>1, <2>2, <2>3
  <2>5. p \in 1..n /\ p + 1 \in 1..n+1
    BY <1>6, <1>7, <2>1, <2>2, <2>3
  <2>6. QED
    BY <2>2, <2>4, <2>5
<1>9. pc \in {"scan", "range"} /\ spec # <<>> /\ spec' = Tail(spec) =>
        Suffix' /\ Position' = p + 1
  <2>1. SUFFICES ASSUME pc \in {"scan", "range"}, spec # <<>>, spec' = Tail(spec)
                 PROVE  Suffix' /\ Position' = p + 1
    OBVIOUS
  <2>2. /\ Len(spec) >= 1 /\ Len(spec') = Len(spec) - 1
        /\ \A k \in 1..Len(spec') : spec'[k] = spec[k + 1]
    BY <1>6, <2>1, EmptySeq, HeadTailProperties
  <2>3. n \in Nat /\ Len(spec) <= n /\ p = n - Len(spec) + 1 /\ given.class # "nullptr"
    BY <1>5, <1>7, <2>1
  <2>4. Position' = p + 1
    <3>1. Position' = n - Len(spec') + 1
      BY <1>4 DEF Position, n
    <3>2. QED
      BY <1>6, <2>2, <2>3, <3>1
  <2>5. ASSUME NEW k \in 1..Len(spec') PROVE spec'[k] = L[Position' + k - 1]
    <3>1. k + 1 \in 1..Len(spec)
      BY <1>6, <2>2
    <3>2. spec'[k] = L[p + (k + 1) - 1]
      BY <1>7, <2>1, <2>2, <3>1
    <3>3. p + (k + 1) - 1 = Position' + k - 1
      BY <1>6, <2>3, <2>4
    <3>4. QED
      BY <3>2, <3>3
  <2>6. Len(spec') <= n
    BY <1>6, <2>2, <2>3
  <2>7. QED
    BY <1>3, <1>4, <2>3, <2>4, <2>5, <2>6 DEF Suffix, n
<1>10. pc = "scan" /\ l = NUL => op = 0 /\ Agrees(out, f[p], D)
  BY <1>1, <1>2 DEF DInv, Scanned, f, D
<1>11. pc = "scan" /\ l # NUL =>
         \E m \in 1..p-1 : /\ L[m] = l /\ l # Dash /\ \A k \in m+1..p-1 : L[k] = Dash
                           /\ op = 1 <=> m < p - 1
                           /\ Agrees(out, f[m], D)
  BY <1>1, <1>2 DEF DInv, Scanned, HoldsLeft, f, D
<1>12. pc = "range" /\ Head(spec) # 127 =>
         Agrees(out, Interval(l, Head(spec)) \o f[p+1], D)
  BY <1>1, <1>2 DEF DInv, Ranged, f, D
<1>13. given.class # "nullptr" =>
         /\ \A i \in 1..n+1 : f[i] \in Seq(Char)
         /\ f[n+1] = <<>>
         /\ \A i \in 1..n : L[i] = Dash \/ i = n \/ L[i+1] # Dash => f[i] = <<L[i]>> \o f[i+1]
         /\ \A i \in 1..n : \A j \in i+2..n :
               L[i] # Dash /\ L[j] # Dash /\ (\A k \in i+1..j-1 : L[k] = Dash)
                  => f[i] = Interval(L[i], L[j]) \o f[j+1]
         /\ \A i \in 1..n-1 : L[i] # Dash /\ (\A k \in i+1..n : L[k] = Dash)
                  => f[i] = <<L[i], Dash>>
         /\ D = f[1] /\ D \in Seq(Char)
  <2>1. SUFFICES ASSUME given.class # "nullptr"
                 PROVE  /\ \A i \in 1..n+1 : f[i] \in Seq(Char)
                        /\ D = f[1] /\ D \in Seq(Char)
    BY <1>5, ReadingCases DEF n, f
  <2>2. \A i \in 1..n+1 : f[i] \in Seq(Char)
    BY <1>5, <2>1, ReadingType DEF f, n
  <2>3. D = f[1] /\ 1 \in 1..n+1
    BY <1>5, <2>1 DEF D, f, Denotes
  <2>4. QED
    BY <2>2, <2>3
\* The call has not returned, and does not in this step.
<1>14. ASSUME pc # "returned", pc' # "returned", ret' = ret,
              pc' \in {"scan", "range"}, Suffix',
              pc' = "scan" => Scanned', pc' = "range" => Ranged'
       PROVE  DInv'
  BY <1>14 DEF DInv, ReturnsDenotation, RefusesOnlyTooLong
<1>15. ASSUME pc = "scan", spec # <<>>, spec' = Tail(spec), l' = NUL, op' = 0,
              Agrees(out', f[p+1], D)
       PROVE  Scanned'
  BY <1>4, <1>9, <1>15 DEF Scanned, f, D
\* The character at the cursor is held on to.
<1>16. ASSUME pc = "scan", spec # <<>>, spec' = Tail(spec), l' = Head(spec), l' # Dash,
              op' = 0, Agrees(out', f[p], D)
       PROVE  Scanned'
  <2>1. /\ p \in 1..n /\ l' = L[p] /\ L[p] # NUL /\ p \in Int
        /\ Position' = p + 1
    BY <1>5, <1>7, <1>8, <1>9, <1>16
  <2>2. p \in 1..Position'-1 /\ (\A k \in p+1..Position'-1 : FALSE) /\ ~(p < Position' - 1)
    BY <2>1
  <2>3. Resolved'[p] = l' /\ Agrees(out', Reading(Resolved')[p], Denotes(Resolved'))
    BY <1>4, <1>16, <2>1 DEF f, D
  <2>4. QED
    BY <1>16, <2>1, <2>2, <2>3 DEF Scanned, HoldsLeft
<1> HIDE DEF f
<1>17. CASE RejectNull
  BY <1>3, <1>17 DEF RejectNull, Return, DInv, ReturnsDenotation, RefusesOnlyTooLong
<1>18. CASE Resolve
  <2>1. pc = "enter" /\ given.class # "nullptr" /\ spec' = L /\ pc' = "scan"
    BY <1>1, <1>18 DEF Resolve
  <2>2. n \in Nat /\ D = f[1] /\ D \in Seq(Char) /\ l = NUL /\ op = 0
        /\ out = [chars |-> <<>>, full |-> FALSE]
    BY <1>5, <1>13, <2>1 DEF DInv
  <2>3. Position' = n - n + 1 /\ n - n + 1 = 1
    BY <1>4, <2>1, <2>2 DEF Position, n
  <2>4. Suffix'
    <3>1. \A k \in 1..n : 1 + k - 1 = k
      BY <2>2
    <3>2. \A k \in 1..n : L[k] = L[Position' + k - 1]
      BY <2>3, <3>1
    <3>3. QED
      BY <1>3, <1>4, <2>1, <2>2, <3>2 DEF Suffix, n
  <2>5. Agrees(out, f[1], D)
    <3>1. D = <<>> \o D
      BY <2>2, ConcatEmptySeq
    <3>2. QED
      BY <2>2, <3>1 DEF Agrees
  <2>6. out' = out /\ l' = l /\ op' = op /\ ret' = ret
    BY <1>18 DEF Resolve
  <2>7. Scanned'
    BY <1>4, <2>2, <2>3, <2>5, <2>6 DEF Scanned, f, D
  <2>8. QED
    BY <1>14, <2>1, <2>4, <2>6, <2>7
<1>19. CASE SkipSpace \/ UNCHANGED vars
  <2>1. UNCHANGED vars
    BY <1>19 DEF SkipSpace
  <2>2. QED
    BY <2>1 DEF vars, DInv, Suffix, Position, Resolved, Scanned, HoldsLeft, Ranged,
       ReturnsDenotation, RefusesOnlyTooLong
<1>20. CASE LeadingDash
  <2>1. /\ pc = "scan" /\ spec # <<>> /\ Head(spec) = Dash /\ l = NUL
        /\ spec' = Tail(spec) /\ out' = PushChar(out, Dash)
        /\ l' = l /\ op' = op /\ pc' = pc /\ ret' = ret
    BY <1>20 DEF LeadingDash, Scanning
  <2>2. /\ p \in 1..n /\ L[p] = Dash /\ op = 0 /\ Agrees(out, f[p], D)
        /\ given.class # "nullptr" /\ f[p+1] \in Seq(Char)
    BY <1>7, <1>8, <1>10, <1>13, <2>1
  <2>3. f[p] = <<Dash>> \o f[p+1]
    BY <1>13, <2>2
  <2>4. Agrees(out', f[p+1], D)
    BY <1>6, <2>1, <2>2, <2>3, PushAgrees
  <2>5. QED
    BY <1>9, <1>14, <1>15, <2>1, <2>2, <2>4
<1>21. CASE TakeLeft
  <2>1. /\ pc = "scan" /\ spec # <<>> /\ Head(spec) # Dash /\ l = NUL /\ l' = Head(spec)
        /\ spec' = Tail(spec) /\ out' = out /\ op' = op /\ pc' = pc /\ ret' = ret
    BY <1>21 DEF TakeLeft, Scanning
  <2>2. op = 0 /\ Agrees(out, f[p], D)
    BY <1>10, <2>1
  <2>3. QED
    BY <1>9, <1>14, <1>16, <2>1, <2>2
<1>22. CASE SeeDash
  <2>1. /\ pc = "scan" /\ spec # <<>> /\ Head(spec) = Dash /\ l # NUL /\ l' = l
        /\ spec' = Tail(spec) /\ out' = out /\ op' = 1 /\ pc' = pc /\ ret' = ret
    BY <1>22 DEF SeeDash, Scanning
  <2>2. PICK m \in 1..p-1 : /\ L[m] = l /\ l # Dash /\ \A k \in m+1..p-1 : L[k] = Dash
                            /\ Agrees(out, f[m], D)
    BY <1>11, <2>1
  <2>3. p \in 1..n /\ p \in Int /\ L[p] = Dash /\ Position' = p + 1 /\ Suffix' /\ n \in Nat
    <3>1. p \in 1..n /\ L[p] = Dash
      BY <1>8, <2>1
    <3>2. Position' = p + 1 /\ Suffix'
      BY <1>9, <2>1
    <3>3. n \in Nat
      BY <1>5, <1>7, <2>1
    <3>4. QED
      BY <3>1, <3>2, <3>3
  <2>4. m \in 1..Position'-1 /\ m < Position' - 1
    BY <2>2, <2>3
  <2>5. \A k \in m+1..Position'-1 : L[k] = Dash
    <3>1. \A k \in m+1..Position'-1 : k = p \/ k \in m+1..p-1
      BY <2>2, <2>3
    <3>2. QED
      BY <2>2, <2>3, <3>1
  <2>6. Resolved'[m] = l' /\ Agrees(out', Reading(Resolved')[m], Denotes(Resolved'))
    BY <1>4, <2>1, <2>2 DEF f, D
  <2>7. HoldsLeft(m)'
    BY <1>4, <2>1, <2>2, <2>4, <2>5 DEF HoldsLeft
  <2>8. Scanned'
    BY <2>1, <2>4, <2>6, <2>7 DEF Scanned
  <2>9. QED
    BY <1>14, <2>1, <2>3, <2>8
<1>23. CASE BeginRange
  <2>1. /\ pc = "scan" /\ spec # <<>> /\ Head(spec) # Dash /\ l # NUL /\ op = 1
        /\ l' = l /\ spec' = spec /\ out' = out /\ op' = op /\ pc' = "range" /\ ret' = ret
    BY <1>23 DEF BeginRange, Scanning
  <2>2. PICK m \in 1..p-1 : /\ L[m] = l /\ l # Dash /\ \A k \in m+1..p-1 : L[k] = Dash
                            /\ m < p - 1 /\ Agrees(out, f[m], D)
    BY <1>11, <2>1
  <2>3. p \in 1..n /\ Head(spec) = L[p] /\ n \in Nat /\ given.class # "nullptr"
    BY <1>5, <1>7, <1>8, <2>1
  <2>4. m \in 1..n /\ p \in m+2..n
    BY <2>2, <2>3
  <2>5. f[m] = Interval(L[m], L[p]) \o f[p+1]
    BY <1>13, <2>1, <2>2, <2>3, <2>4
  <2>6. Position' = p
    BY <1>2, <1>4, <1>1, <2>1 DEF Position
  <2>7. Suffix'
    BY <1>1, <1>2, <1>3, <1>4, <2>1, <2>6 DEF DInv, Suffix
  <2>8. Agrees(out', Interval(l', Head(spec')) \o Reading(Resolved')[Position' + 1],
               Denotes(Resolved'))
    BY <1>4, <2>1, <2>2, <2>3, <2>5, <2>6 DEF f, D
  <2>9. Ranged'
    BY <2>8 DEF Ranged
  <2>10. QED
    BY <1>14, <2>1, <2>7, <2>9
<1>24. CASE RangePush
  <2>1. /\ pc = "range" /\ l <= Head(spec) /\ l' = IF l = 127 THEN -128 ELSE l + 1
        /\ spec' = spec /\ out' = PushChar(out, l) /\ op' = op /\ pc' = pc /\ ret' = ret
    BY <1>24 DEF RangePush
  <2>2. spec # <<>>
    BY <2>1 DEF IInv
  <2>3. p \in 1..n /\ Head(spec) = L[p] /\ L[p] \in Char /\ given.class # "nullptr"
        /\ f[p+1] \in Seq(Char)
    BY <1>5, <1>7, <1>8, <1>13, <2>1, <2>2
  <2>4. Position' = p
    BY <1>2, <1>4, <1>1, <2>1 DEF Position
  <2>5. Suffix'
    BY <1>1, <1>2, <1>3, <1>4, <2>1, <2>4 DEF DInv, Suffix
  <2>6. ASSUME L[p] # 127 PROVE Agrees(out', Interval(l', L[p]) \o f[p+1], D)
    <3>1. l + 1 \in Char /\ Interval(l, L[p]) = <<l>> \o Interval(l + 1, L[p])
      BY <1>6, <2>1, <2>3, <2>6, IntervalUnrolls
    <3>2. l' = l + 1
      <4>1. L[p] <= 127 /\ L[p] \in Int /\ l \in Int
        <5>1. \A c \in Char : c <= 127 /\ c \in Int
          BY DEF Char
        <5>2. QED
          BY <1>6, <2>3, <5>1
      <4>2. l # 127
        BY <2>1, <2>3, <2>6, <4>1
      <4>3. QED
        BY <2>1, <4>2
    <3>3. Interval(l + 1, L[p]) \in Seq(Char) /\ <<l>> \in Seq(Char)
      <4>1. l + 1 \in Char /\ L[p] \in Char /\ l \in Char
        BY <1>6, <2>3, <3>1
      <4>2. QED
        BY ONLY <4>1, IntervalType
    <3>4. Interval(l, L[p]) \o f[p+1] = <<l>> \o (Interval(l + 1, L[p]) \o f[p+1])
      <4>1. /\ <<l>> \in Seq(Char) /\ Interval(l + 1, L[p]) \in Seq(Char)
            /\ f[p+1] \in Seq(Char)
        BY <2>3, <3>3
      <4>2. (<<l>> \o Interval(l + 1, L[p])) \o f[p+1]
              = <<l>> \o (Interval(l + 1, L[p]) \o f[p+1])
        <5>1. \A u, v, w \in Seq(Char) : (u \o v) \o w = u \o (v \o w)
          BY ConcatAssociative
        <5>2. QED
          BY ONLY <4>1, <5>1, Zenon
      <4>3. QED
        BY ONLY <3>1, <4>2
    <3>5. Interval(l + 1, L[p]) \o f[p+1] \in Seq(Char)
      BY <2>3, <3>3, ConcatProperties
    <3>6. Agrees(out, <<l>> \o (Interval(l + 1, L[p]) \o f[p+1]), D)
      BY <1>12, <2>1, <2>3, <2>6, <3>4
    <3>7. QED
      BY <1>6, <2>1, <3>2, <3>5, <3>6, PushAgrees
  <2>7. Ranged'
    BY <1>4, <2>1, <2>3, <2>4, <2>6 DEF Ranged, f, D
  <2>8. QED
    BY <1>14, <2>1, <2>5, <2>7
<1>25. CASE EndRange
  <2>1. /\ pc = "range" /\ l > Head(spec) /\ l' = NUL /\ op' = 0
        /\ spec' = Tail(spec) /\ out' = out /\ pc' = "scan" /\ ret' = ret
    BY <1>25 DEF EndRange
  <2>2. spec # <<>>
    BY <2>1 DEF IInv
  <2>3. p \in 1..n /\ Head(spec) = L[p] /\ L[p] \in Char /\ given.class # "nullptr"
        /\ f[p+1] \in Seq(Char)
    BY <1>5, <1>7, <1>8, <1>13, <2>1, <2>2
  <2>4. Interval(l, L[p]) = <<>>
    BY <1>6, <2>1, <2>3, IntervalUnrolls
  <2>5. L[p] # 127
    <3>1. l <= 127 /\ l \in Int
      BY <1>6 DEF Char
    <3>2. QED
      BY <2>1, <2>3, <3>1
  <2>6. Agrees(out, f[p+1], D)
    <3>1. <<>> \o f[p+1] = f[p+1]
      BY <2>3, ConcatEmptySeq
    <3>2. QED
      BY <1>12, <2>1, <2>3, <2>4, <2>5, <3>1
  <2>7. Suffix' /\ Position' = p + 1
    BY <1>9, <2>1, <2>2
  <2>8. Scanned'
    BY <1>4, <2>1, <2>6, <2>7 DEF Scanned, f, D
  <2>9. QED
    BY <1>14, <2>1, <2>7, <2>8
<1>26. CASE PushLiteral
  <2>1. /\ pc = "scan" /\ spec # <<>> /\ Head(spec) # Dash /\ l # NUL /\ op = 0
        /\ l' = Head(spec) /\ out' = PushChar(out, l) /\ spec' = Tail(spec)
        /\ op' = op /\ pc' = pc /\ ret' = ret
    BY <1>26 DEF PushLiteral, Scanning
  <2>2. PICK m \in 1..p-1 : L[m] = l /\ ~(m < p - 1) /\ Agrees(out, f[m], D)
    BY <1>11, <2>1
  <2>3. p \in 1..n /\ Head(spec) = L[p] /\ n \in Nat /\ given.class # "nullptr"
    BY <1>5, <1>7, <1>8, <2>1
  <2>4. m \in 1..n /\ m + 1 = p
    BY <2>2, <2>3
  <2>5. f[m] = <<l>> \o f[p] /\ f[p] \in Seq(Char)
    <3>1. L[m] = Dash \/ m = n \/ L[m+1] # Dash => f[m] = <<L[m]>> \o f[m+1]
      BY <1>13, <2>3, <2>4
    <3>2. p \in 1..n+1
      BY <2>3
    <3>3. f[p] \in Seq(Char)
      BY <1>13, <2>3, <3>2
    <3>4. QED
      BY <2>1, <2>2, <2>3, <2>4, <3>1, <3>3
  <2>6. Agrees(out', f[p], D)
    BY <1>6, <2>1, <2>2, <2>5, PushAgrees
  <2>7. QED
    BY <1>9, <1>14, <1>16, <2>1, <2>6
<1>27. CASE Finish
  <2> DEFINE literal == IF l # NUL THEN PushChar(out, l) ELSE out
             dash    == IF op = 1 THEN PushChar(literal, Dash) ELSE literal
  <2>1. /\ pc = "scan" /\ spec = <<>> /\ out' = PushChar(dash, NUL)
        /\ IF out'.full THEN pc' = "returned" /\ ret' = "EINVAL" /\ res' = <<>>
                        ELSE pc' = "copy" /\ ret' = ret
    BY <1>27 DEF Finish, Return
  <2>2. p = n + 1 /\ n \in Nat /\ given.class # "nullptr" /\ f[n+1] = <<>> /\ D \in Seq(Char)
    <3>1. given.class # "nullptr" /\ n \in Nat /\ Len(spec) = 0 /\ p = n - Len(spec) + 1
      BY <1>5, <1>7, <2>1, EmptySeq
    <3>2. f[n+1] = <<>> /\ D \in Seq(Char)
      BY <1>13, <3>1
    <3>3. p = n + 1
      BY ONLY <3>1
    <3>4. QED
      BY <3>1, <3>2, <3>3
  <2>3. <<>> \in Seq(Char) /\ <<Dash>> \in Seq(Char) /\ <<l>> \in Seq(Char)
        /\ <<Dash>> \o <<>> = <<Dash>> /\ <<l>> \o <<Dash>> = <<l, Dash>>
        /\ <<l>> \o <<>> = <<l>>
    <3>1. <<>> \in Seq(Char) /\ <<Dash>> \in Seq(Char) /\ <<l>> \in Seq(Char)
      BY <1>6
    <3>2. <<Dash>> \o <<>> = <<Dash>> /\ <<l>> \o <<>> = <<l>>
      BY <3>1, ConcatEmptySeq
    <3>3. <<l>> \o <<Dash>> = <<l, Dash>>
      BY <1>6, TwoInARow
    <3>4. QED
      BY <3>1, <3>2, <3>3
  <2>4. Fitting(literal)
    BY <1>6, PushCharFits
  <2>5. Fitting(dash)
    BY <1>6, <2>4, PushCharFits
  <2>6. Agrees(dash, <<>>, D)
    <3>1. CASE l = NUL
      BY <1>10, <2>1, <2>2, <3>1
    <3>2. CASE l # NUL /\ op = 0
      <4>1. PICK m \in 1..p-1 : L[m] = l /\ ~(m < p - 1) /\ Agrees(out, f[m], D)
        BY <1>11, <2>1, <3>2
      <4>2. m = n /\ n \in 1..n
        BY <2>2, <4>1
      <4>3. f[n] = <<l>> \o <<>>
        BY <1>13, <2>2, <4>1, <4>2
      <4>4. Agrees(out, <<l>> \o <<>>, D)
        BY <4>1, <4>2, <4>3
      <4>5. Agrees(PushChar(out, l), <<>>, D)
        BY <1>6, <2>3, <4>4, PushAgrees
      <4>6. dash = PushChar(out, l)
        BY <3>2
      <4>7. QED
        BY <4>5, <4>6
    <3>3. CASE l # NUL /\ op = 1
      <4>1. PICK m \in 1..p-1 : /\ L[m] = l /\ l # Dash /\ \A k \in m+1..p-1 : L[k] = Dash
                                /\ m < p - 1 /\ Agrees(out, f[m], D)
        BY <1>11, <2>1, <3>3
      <4>2. m \in 1..n-1 /\ p - 1 = n
        BY <2>2, <4>1
      <4>3. f[m] = <<l, Dash>>
        BY <1>13, <2>2, <4>1, <4>2
      <4>4. Agrees(out, <<l>> \o <<Dash>>, D)
        BY <2>3, <4>1, <4>3
      <4>5. Agrees(PushChar(out, l), <<Dash>> \o <<>>, D)
        BY <1>6, <2>3, <4>4, PushAgrees
      <4>6. literal = PushChar(out, l) /\ dash = PushChar(literal, Dash)
        BY <3>3
      <4>7. Agrees(PushChar(literal, Dash), <<>>, D)
        BY <1>6, <2>3, <2>4, <4>5, <4>6, PushAgrees
      <4>8. QED
        BY <4>6, <4>7
    <3>4. QED
      BY <1>6, <3>1, <3>2, <3>3
  <2> HIDE DEF literal, dash
  \* Behind the whole there is room for the terminator, or there is not.
  <2>7. IF out'.full THEN Len(D) >= CAPACITY
        ELSE Len(D) < CAPACITY /\ out'.chars = D \o <<NUL>>
    <3>1. dash.chars \in Seq(Char) /\ dash \in Output /\ Len(dash.chars) \in Nat
          /\ Len(dash.chars) <= CAPACITY /\ CAPACITY \in Nat
      BY <2>5, CapacityAssumption, LenProperties DEF Fitting, Output, CapacityAssumption
    <3>2. CASE dash.full
      <4>1. Len(D) > CAPACITY /\ Len(D) \in Nat
        BY <2>2, <2>6, <3>2, LenProperties DEF Agrees
      <4>2. out' = [dash EXCEPT !.full = TRUE]
        BY <2>1, <3>2 DEF PushChar
      <4>3. out'.full
        BY <3>1, <4>2 DEF Output
      <4>4. QED
        BY <3>1, <4>1, <4>3
    <3>3. CASE ~dash.full
      <4>1. D = dash.chars
        <5>1. D = dash.chars \o <<>>
          BY <2>6, <3>3 DEF Agrees
        <5>2. QED
          BY <3>1, <5>1, ConcatEmptySeq
      <4>2. CASE Len(dash.chars) < CAPACITY
        <5>1. out' = [dash EXCEPT !.chars = Append(dash.chars, NUL)]
          BY <2>1, <3>3, <4>2 DEF PushChar
        <5>2. ~out'.full /\ out'.chars = Append(dash.chars, NUL)
          BY <3>1, <3>3, <5>1 DEF Output
        <5>3. Append(dash.chars, NUL) = dash.chars \o <<NUL>>
          BY <1>6, <3>1, AppendIsConcat
        <5>4. QED
          BY <4>1, <4>2, <5>2, <5>3
      <4>3. CASE ~(Len(dash.chars) < CAPACITY)
        <5>1. out' = [dash EXCEPT !.full = TRUE]
          BY <2>1, <4>3 DEF PushChar
        <5>2. out'.full
          BY <3>1, <5>1 DEF Output
        <5>3. Len(D) >= CAPACITY
          BY <3>1, <4>1, <4>3
        <5>4. QED
          BY <5>2, <5>3
      <4>4. QED
        BY <4>2, <4>3
    <3>4. QED
      BY <3>2, <3>3
  <2>8. CASE out'.full
    BY <1>3, <1>4, <2>1, <2>2, <2>7, <2>8
       DEF DInv, ReturnsDenotation, RefusesOnlyTooLong, D
  <2>9. CASE ~out'.full
    BY <1>3, <1>4, <2>1, <2>2, <2>7, <2>9
       DEF DInv, ReturnsDenotation, RefusesOnlyTooLong, D
  <2>10. QED
    BY <2>8, <2>9
<1>28. pc = "copy" => /\ given.class # "nullptr" /\ Len(D) < CAPACITY /\ Len(D) \in Nat
                      /\ CAPACITY \in Nat /\ out.chars = D \o <<NUL>> /\ D \in Seq(Char)
  BY <1>1, <1>13, CapacityAssumption, LenProperties DEF DInv, D, CapacityAssumption
<1>29. CASE Copy
  <2>1. /\ pc = "copy" /\ pc' = "returned" /\ ret' = "ok" /\ res' = CString(out.chars)
    BY <1>29 DEF Copy, Return
  <2>2. res' = CString(D)
    BY <1>28, <2>1, CStringOfTerminated
  <2>3. ~(Len(D) >= CAPACITY)
    BY <1>28, <2>1
  <2>4. QED
    BY <1>3, <1>4, <1>28, <2>1, <2>2, <2>3 DEF DInv, ReturnsDenotation, RefusesOnlyTooLong, D
<1>30. CASE AllocationFails
  <2>1. pc = "copy" /\ pc' = "returned" /\ ret' = "ENOMEM"
    BY <1>30 DEF AllocationFails, Return
  <2>2. ~(Len(D) >= CAPACITY)
    BY <1>28, <2>1
  <2>3. QED
    BY <1>3, <1>4, <1>28, <2>1, <2>2 DEF DInv, ReturnsDenotation, RefusesOnlyTooLong, D
<1>31. QED
  BY <1>17, <1>18, <1>19, <1>20, <1>21, <1>22, <1>23, <1>24, <1>25, <1>26, <1>27, <1>29,
     <1>30 DEF Next

LEMMA DInvariance == Spec => []DInv
  BY Invariance, InitDInv, NextDInv, PTL DEF Spec

\* The string a successful call returns is the one the list denotes, for every
\* list and every size of the array: the scan, with its one character of memory,
\* reads the list as the definition does, which looks ahead.
THEOREM ReturnsWhatIsDenoted == Spec => []ReturnsDenotation
<1>1. DInv => ReturnsDenotation
  BY DEF DInv
<1>2. QED
  BY DInvariance, <1>1, PTL

\* EINVAL is the answer to the missing argument and to the lists that do not fit
\* the array together with their terminator, and to no other.
THEOREM RefusesTheTooLong == Spec => []RefusesOnlyTooLong
<1>1. DInv => RefusesOnlyTooLong
  BY DEF DInv
<1>2. QED
  BY DInvariance, <1>1, PTL

--------------------------------------------------------------------------------
(***************************************************************************)
(* What the lists of the named classes denote.  A sequence yields a set if *)
(* it has each member of it exactly once.                                  *)
(***************************************************************************)
Yields(s, S) == /\ s \in Seq(Char)
                /\ {s[i] : i \in 1..Len(s)} = S
                /\ \A i, j \in 1..Len(s) : s[i] = s[j] => i = j

LEMMA NothingYields == Yields(<<>>, {})
  BY EmptySeq DEF Yields

LEMMA OneYields ==
  ASSUME NEW c \in Char
  PROVE  Yields(<<c>>, {c})
  BY DEF Yields

LEMMA IntervalYields ==
  ASSUME NEW x \in Char, NEW y \in Char, x <= y
  PROVE  Yields(Interval(x, y), x..y)
<1>1. x \in Int /\ y \in Int
  BY DEF Char
<1>2. PICK s : s = Interval(x, y)
  OBVIOUS
<1>3. s \in Seq(Char) /\ Len(s) = y - x + 1 /\ \A i \in 1..Len(s) : s[i] = x + i - 1
  BY <1>2, IntervalType
<1>4. Len(s) = y - x + 1 /\ \A i \in 1..y - x + 1 : s[i] = x + i - 1
  BY <1>3
<1>5. ASSUME NEW c \in x..y PROVE \E i \in 1..Len(s) : s[i] = c
  <2>1. c - x + 1 \in 1..y - x + 1 /\ x + (c - x + 1) - 1 = c
    BY <1>1
  <2>2. QED
    BY <1>4, <2>1
<1>6. \A i \in 1..Len(s) : s[i] \in x..y
  BY <1>1, <1>4
<1>7. \A i, j \in 1..Len(s) : s[i] = s[j] => i = j
  BY <1>1, <1>4
<1>8. {s[i] : i \in 1..Len(s)} = x..y
  BY <1>5, <1>6
<1>9. QED
  BY <1>2, <1>3, <1>7, <1>8 DEF Yields

LEMMA TogetherYield ==
  ASSUME NEW S, NEW T, S \cap T = {}, NEW s, NEW t, Yields(s, S), Yields(t, T)
  PROVE  Yields(s \o t, S \cup T)
<1>1. PICK u : u = s \o t
  OBVIOUS
<1>2. s \in Seq(Char) /\ t \in Seq(Char)
  BY DEF Yields
<1>3. PICK m, n : m = Len(s) /\ n = Len(t)
  OBVIOUS
<1>4. /\ u \in Seq(Char) /\ m \in Nat /\ n \in Nat /\ Len(u) = m + n
      /\ \A i \in 1..m + n : u[i] = IF i <= m THEN s[i] ELSE t[i - m]
  BY <1>1, <1>2, <1>3, ConcatProperties, LenProperties
<1>5. \A i \in 1..m : i \in 1..m + n /\ u[i] = s[i]
  BY <1>4
<1>6. \A i \in 1..n : m + i \in 1..m + n /\ u[m + i] = t[i]
  <2>1. \A i \in 1..n : m + i \in 1..m + n /\ ~(m + i <= m) /\ m + i - m = i
    BY <1>4
  <2>2. QED
    BY <1>4, <2>1
<1>7. \A i \in 1..m + n : i \in 1..m \/ \E h \in 1..n : i = m + h
  <2>1. \A i \in 1..m + n : i \in 1..m \/ (i - m \in 1..n /\ i = m + (i - m))
    BY <1>4
  <2>2. QED
    BY <2>1
<1>8. \A i \in 1..m : s[i] \in S
  BY <1>3 DEF Yields
<1>9. \A i \in 1..n : t[i] \in T
  BY <1>3 DEF Yields
<1>10. \A c \in S : \E i \in 1..m : s[i] = c
  BY <1>3 DEF Yields
<1>11. \A c \in T : \E i \in 1..n : t[i] = c
  BY <1>3 DEF Yields
<1>12. {u[i] : i \in 1..m + n} = S \cup T
  <2>1. \A i \in 1..m + n : u[i] \in S \cup T
    BY <1>5, <1>6, <1>7, <1>8, <1>9
  <2>2. \A c \in S \cup T : \E i \in 1..m + n : u[i] = c
    BY <1>5, <1>6, <1>10, <1>11
  <2>3. QED
    BY <2>1, <2>2
<1>13. ASSUME NEW i \in 1..m + n, NEW j \in 1..m + n, u[i] = u[j] PROVE i = j
  <2>1. CASE i \in 1..m /\ j \in 1..m
    BY <1>3, <1>5, <1>13, <2>1 DEF Yields
  <2>2. ASSUME NEW h \in 1..n, NEW k \in 1..n, i = m + h, j = m + k PROVE i = j
    BY <1>3, <1>6, <1>13, <2>2 DEF Yields
  <2>3. ~(i \in 1..m /\ \E k \in 1..n : j = m + k)
    BY <1>5, <1>6, <1>8, <1>9, <1>13
  <2>4. ~(j \in 1..m /\ \E k \in 1..n : i = m + k)
    BY <1>5, <1>6, <1>8, <1>9, <1>13
  <2>5. QED
    BY <1>7, <2>1, <2>2, <2>3, <2>4
<1>14. {u[i] : i \in 1..Len(u)} = S \cup T
  BY <1>4, <1>12
<1>15. \A i, j \in 1..Len(u) : u[i] = u[j] => i = j
  BY <1>4, <1>13
<1>16. Yields(u, S \cup T)
  BY <1>4, <1>14, <1>15 DEF Yields
<1>17. QED
  BY <1>1, <1>16

\* The range at position i of a list, and what the rest of it denotes.
RangeAt(L, i, a, b) == L[i] = a /\ L[i+1] = Dash /\ L[i+2] = b

LEMMA RangeYields ==
  ASSUME NEW L \in Seq(Char), NEW i \in 1..Len(L) - 2, NEW k, k = i + 3,
         NEW a \in Char \ {Dash}, NEW b \in Char \ {Dash}, a <= b, RangeAt(L, i, a, b),
         NEW T, Yields(Reading(L)[k], T), a..b \cap T = {}
  PROVE  Yields(Reading(L)[i], a..b \cup T)
<1>1. PICK n, j : n = Len(L) /\ j = i + 2
  OBVIOUS
<1>2. n \in Nat /\ i \in 1..n - 2
  BY <1>1, LenProperties
<1>3. i \in 1..n /\ j \in i+2..n /\ k = j + 1 /\ \A g \in i+1..j-1 : g = i + 1
  BY <1>1, <1>2
<1>4. L[i] = a /\ L[j] = b /\ \A g \in i+1..j-1 : L[g] = Dash
  BY <1>1, <1>3 DEF RangeAt
<1>5. Reading(L)[i] = Interval(a, b) \o Reading(L)[j+1]
  BY <1>1, <1>3, <1>4, ReadingCases
<1>6. PICK s, t : s = Interval(a, b) /\ t = Reading(L)[k]
  OBVIOUS
<1>7. Yields(s, a..b) /\ Yields(t, T)
  BY <1>6, IntervalYields
<1>8. Yields(s \o t, a..b \cup T)
  BY <1>7, TogetherYield
<1>9. QED
  BY <1>3, <1>5, <1>6, <1>8

LEMMA EndYields ==
  ASSUME NEW L \in Seq(Char), NEW n, n = Len(L) + 1
  PROVE  Yields(Reading(L)[n], {})
  BY ReadingCases, NothingYields

\* Lists of ranges that have nothing in common.
LEMMA OneRange ==
  ASSUME NEW a \in Char \ {Dash}, NEW b \in Char \ {Dash}, a <= b
  PROVE  Yields(Denotes(To(a, b)), a..b)
<1>1. PICK L : L = To(a, b)
  OBVIOUS
<1>2. /\ L \in Seq(Char) /\ Len(L) = 3
      /\ RangeAt(L, 1, a, b)
  BY <1>1 DEF RangeAt, To, Dash, Char
<1>3. Yields(Reading(L)[4], {})
  <2>1. 4 = Len(L) + 1
    BY <1>2
  <2>2. QED
    BY <1>2, <2>1, EndYields
<1>4. Yields(Reading(L)[1], a..b)
  <2>1. 1 \in 1..Len(L) - 2 /\ 4 = 1 + 3 /\ a..b \cap {} = {}
        /\ a..b \cup {} = a..b
    BY <1>2
  <2>2. Yields(Reading(L)[1], a..b \cup {})
    BY <1>2, <1>3, <2>1, RangeYields
  <2>3. QED
    BY <2>1, <2>2
<1>5. QED
  BY <1>1, <1>4 DEF Denotes

LEMMA TwoRanges ==
  ASSUME NEW a \in Char \ {Dash}, NEW b \in Char \ {Dash}, a <= b,
         NEW c \in Char \ {Dash}, NEW d \in Char \ {Dash}, c <= d,
         a..b \cap c..d = {}
  PROVE  Yields(Denotes(To(a, b) \o To(c, d)), (a..b) \cup (c..d))
<1>1. PICK L : L = To(a, b) \o To(c, d)
  OBVIOUS
<1>2. /\ L \in Seq(Char) /\ Len(L) = 6
      /\ RangeAt(L, 1, a, b)
      /\ RangeAt(L, 4, c, d)
  BY <1>1 DEF RangeAt, To, Dash, Char
<1>3. Yields(Reading(L)[7], {})
  <2>1. 7 = Len(L) + 1
    BY <1>2
  <2>2. QED
    BY <1>2, <2>1, EndYields
<1>4. Yields(Reading(L)[4], c..d)
  <2>1. 4 \in 1..Len(L) - 2 /\ 7 = 4 + 3 /\ c..d \cap {} = {}
        /\ c..d \cup {} = c..d
    BY <1>2
  <2>2. Yields(Reading(L)[4], c..d \cup {})
    BY <1>2, <1>3, <2>1, RangeYields
  <2>3. QED
    BY <2>1, <2>2
<1>5. Yields(Reading(L)[1], (a..b) \cup (c..d))
  <2>1. 1 \in 1..Len(L) - 2 /\ 4 = 1 + 3
    BY <1>2
  <2>2. QED
    BY <1>2, <1>4, <2>1, RangeYields
<1>6. QED
  BY <1>1, <1>5 DEF Denotes

LEMMA ThreeRanges ==
  ASSUME NEW a \in Char \ {Dash}, NEW b \in Char \ {Dash}, a <= b,
         NEW c \in Char \ {Dash}, NEW d \in Char \ {Dash}, c <= d,
         NEW e \in Char \ {Dash}, NEW f \in Char \ {Dash}, e <= f,
         a..b \cap ((c..d) \cup (e..f)) = {},
         c..d \cap e..f = {}
  PROVE  Yields(Denotes(To(a, b) \o To(c, d) \o To(e, f)), (a..b) \cup ((c..d) \cup (e..f)))
<1>1. PICK L : L = To(a, b) \o To(c, d) \o To(e, f)
  OBVIOUS
<1>2. /\ L \in Seq(Char) /\ Len(L) = 9
      /\ RangeAt(L, 1, a, b)
      /\ RangeAt(L, 4, c, d)
      /\ RangeAt(L, 7, e, f)
  BY <1>1 DEF RangeAt, To, Dash, Char
<1>3. Yields(Reading(L)[10], {})
  <2>1. 10 = Len(L) + 1
    BY <1>2
  <2>2. QED
    BY <1>2, <2>1, EndYields
<1>4. Yields(Reading(L)[7], e..f)
  <2>1. 7 \in 1..Len(L) - 2 /\ 10 = 7 + 3 /\ e..f \cap {} = {}
        /\ e..f \cup {} = e..f
    BY <1>2
  <2>2. Yields(Reading(L)[7], e..f \cup {})
    BY <1>2, <1>3, <2>1, RangeYields
  <2>3. QED
    BY <2>1, <2>2
<1>5. Yields(Reading(L)[4], (c..d) \cup (e..f))
  <2>1. 4 \in 1..Len(L) - 2 /\ 7 = 4 + 3
    BY <1>2
  <2>2. QED
    BY <1>2, <1>4, <2>1, RangeYields
<1>6. Yields(Reading(L)[1], (a..b) \cup ((c..d) \cup (e..f)))
  <2>1. 1 \in 1..Len(L) - 2 /\ 4 = 1 + 3
    BY <1>2
  <2>2. QED
    BY <1>2, <1>5, <2>1, RangeYields
<1>7. QED
  BY <1>1, <1>6 DEF Denotes

LEMMA FourRanges ==
  ASSUME NEW a \in Char \ {Dash}, NEW b \in Char \ {Dash}, a <= b,
         NEW c \in Char \ {Dash}, NEW d \in Char \ {Dash}, c <= d,
         NEW e \in Char \ {Dash}, NEW f \in Char \ {Dash}, e <= f,
         NEW g \in Char \ {Dash}, NEW h \in Char \ {Dash}, g <= h,
         a..b \cap ((c..d) \cup ((e..f) \cup (g..h))) = {},
         c..d \cap ((e..f) \cup (g..h)) = {},
         e..f \cap g..h = {}
  PROVE  Yields(Denotes(To(a, b) \o To(c, d) \o To(e, f) \o To(g, h)),
                (a..b) \cup ((c..d) \cup ((e..f) \cup (g..h))))
<1>1. PICK L : L = To(a, b) \o To(c, d) \o To(e, f) \o To(g, h)
  OBVIOUS
<1>2. /\ L \in Seq(Char) /\ Len(L) = 12
      /\ RangeAt(L, 1, a, b)
      /\ RangeAt(L, 4, c, d)
      /\ RangeAt(L, 7, e, f)
      /\ RangeAt(L, 10, g, h)
  BY <1>1 DEF RangeAt, To, Dash, Char
<1>3. Yields(Reading(L)[13], {})
  <2>1. 13 = Len(L) + 1
    BY <1>2
  <2>2. QED
    BY <1>2, <2>1, EndYields
<1>4. Yields(Reading(L)[10], g..h)
  <2>1. 10 \in 1..Len(L) - 2 /\ 13 = 10 + 3 /\ g..h \cap {} = {}
        /\ g..h \cup {} = g..h
    BY <1>2
  <2>2. Yields(Reading(L)[10], g..h \cup {})
    BY <1>2, <1>3, <2>1, RangeYields
  <2>3. QED
    BY <2>1, <2>2
<1>5. Yields(Reading(L)[7], (e..f) \cup (g..h))
  <2>1. 7 \in 1..Len(L) - 2 /\ 10 = 7 + 3
    BY <1>2
  <2>2. QED
    BY <1>2, <1>4, <2>1, RangeYields
<1>6. Yields(Reading(L)[4], (c..d) \cup ((e..f) \cup (g..h)))
  <2>1. 4 \in 1..Len(L) - 2 /\ 7 = 4 + 3
    BY <1>2
  <2>2. QED
    BY <1>2, <1>5, <2>1, RangeYields
<1>7. Yields(Reading(L)[1], (a..b) \cup ((c..d) \cup ((e..f) \cup (g..h))))
  <2>1. 1 \in 1..Len(L) - 2 /\ 4 = 1 + 3
    BY <1>2
  <2>2. QED
    BY <1>2, <1>6, <2>1, RangeYields
<1>8. QED
  BY <1>1, <1>7 DEF Denotes

LEMMA ThreeRangesAndOne ==
  ASSUME NEW a \in Char \ {Dash}, NEW b \in Char \ {Dash}, a <= b,
         NEW d \in Char \ {Dash}, NEW e \in Char \ {Dash}, d <= e,
         NEW f \in Char \ {Dash}, NEW g \in Char \ {Dash}, f <= g, NEW h \in Char,
         (a..b) \cap ((d..e) \cup ((f..g) \cup {h})) = {},
         (d..e) \cap ((f..g) \cup {h}) = {},
         (f..g) \cap {h} = {}
  PROVE  Yields(Denotes(To(a, b) \o To(d, e) \o To(f, g) \o <<h>>),
                (a..b) \cup ((d..e) \cup ((f..g) \cup {h})))
<1>1. PICK L : L = To(a, b) \o To(d, e) \o To(f, g) \o <<h>>
  OBVIOUS
<1>2. /\ L \in Seq(Char) /\ Len(L) = 10
      /\ RangeAt(L, 1, a, b) /\ RangeAt(L, 4, d, e) /\ RangeAt(L, 7, f, g)
      /\ L[10] = h
  BY <1>1 DEF RangeAt, To, Dash, Char
<1>3. Yields(Reading(L)[10], {h})
  <2>1. PICK n : n = Len(L)
    OBVIOUS
  <2>2. n = 10 /\ n \in 1..Len(L) /\ L[n] = h
    BY <1>2, <2>1
  <2>3. Reading(L)[n] = <<h>> \o Reading(L)[n + 1] /\ Reading(L)[n + 1] = <<>>
    BY <1>2, <2>1, <2>2, ReadingCases
  <2>4. <<h>> \o <<>> = <<h>>
    BY ConcatEmptySeq
  <2>5. QED
    BY <2>2, <2>3, <2>4, OneYields
<1>4. Yields(Reading(L)[7], (f..g) \cup {h})
  <2>1. 7 \in 1..Len(L) - 2 /\ 10 = 7 + 3
    BY <1>2
  <2>2. QED
    BY <1>2, <1>3, <2>1, RangeYields
<1>5. Yields(Reading(L)[4], (d..e) \cup ((f..g) \cup {h}))
  <2>1. 4 \in 1..Len(L) - 2 /\ 7 = 4 + 3
    BY <1>2
  <2>2. QED
    BY <1>2, <1>4, <2>1, RangeYields
<1>6. Yields(Reading(L)[1], (a..b) \cup ((d..e) \cup ((f..g) \cup {h})))
  <2>1. 1 \in 1..Len(L) - 2 /\ 4 = 1 + 3
    BY <1>2
  <2>2. QED
    BY <1>2, <1>5, <2>1, RangeYields
<1>7. QED
  BY <1>1, <1>6 DEF Denotes

\* The characters of a class, as its list denotes them.
LEMMA ClassYields ==
  ASSUME NEW class \in ClassName
  PROVE  Yields(Denotes(ClassSpec[class]), Posix(class))
<1>1. CASE class = ":alnum:"
  <2>1. PICK a, b, c, d, e, f :
         /\ a = 97 /\ b = 122
         /\ c = 65 /\ d = 90
         /\ e = 48 /\ f = 57
    OBVIOUS
  <2>2. /\ a \in Char \ {Dash} /\ b \in Char \ {Dash} /\ a <= b
        /\ c \in Char \ {Dash} /\ d \in Char \ {Dash} /\ c <= d
        /\ e \in Char \ {Dash} /\ f \in Char \ {Dash} /\ e <= f
        /\ (a..b) \cap ((c..d) \cup (e..f)) = {}
        /\ (c..d) \cap (e..f) = {}
    BY <2>1 DEF Char, Dash
  <2>3. Yields(Denotes(To(a, b) \o To(c, d) \o To(e, f)), (a..b) \cup ((c..d) \cup (e..f)))
    BY <2>2, ThreeRanges
  <2>4. ClassSpec[class] = To(a, b) \o To(c, d) \o To(e, f)
    BY <1>1, <2>1 DEF ClassSpec
  <2>5. Posix(class) = (a..b) \cup ((c..d) \cup (e..f))
    BY <1>1, <2>1 DEF Posix, Upper, Lower, Digit
  <2>6. QED
    BY <2>3, <2>4, <2>5
<1>2. CASE class = ":alpha:"
  <2>1. PICK a, b, c, d : a = 97 /\ b = 122 /\ c = 65 /\ d = 90
    OBVIOUS
  <2>2. /\ a \in Char \ {Dash} /\ b \in Char \ {Dash} /\ a <= b
        /\ c \in Char \ {Dash} /\ d \in Char \ {Dash} /\ c <= d
        /\ (a..b) \cap (c..d) = {}
    BY <2>1 DEF Char, Dash
  <2>3. Yields(Denotes(To(a, b) \o To(c, d)), (a..b) \cup (c..d))
    BY <2>2, TwoRanges
  <2>4. ClassSpec[class] = To(a, b) \o To(c, d)
    BY <1>2, <2>1 DEF ClassSpec
  <2>5. Posix(class) = (a..b) \cup (c..d)
    BY <1>2, <2>1 DEF Posix, Upper, Lower
  <2>6. QED
    BY <2>3, <2>4, <2>5
<1>3. CASE class = ":digit:"
  <2>1. PICK a, b : a = 48 /\ b = 57
    OBVIOUS
  <2>2. /\ a \in Char \ {Dash} /\ b \in Char \ {Dash} /\ a <= b
    BY <2>1 DEF Char, Dash
  <2>3. Yields(Denotes(To(a, b)), a..b)
    BY <2>2, OneRange
  <2>4. ClassSpec[class] = To(a, b)
    BY <1>3, <2>1 DEF ClassSpec
  <2>5. Posix(class) = a..b
    BY <1>3, <2>1 DEF Posix, Digit
  <2>6. QED
    BY <2>3, <2>4, <2>5
<1>4. CASE class = ":lower:"
  <2>1. PICK a, b : a = 97 /\ b = 122
    OBVIOUS
  <2>2. /\ a \in Char \ {Dash} /\ b \in Char \ {Dash} /\ a <= b
    BY <2>1 DEF Char, Dash
  <2>3. Yields(Denotes(To(a, b)), a..b)
    BY <2>2, OneRange
  <2>4. ClassSpec[class] = To(a, b)
    BY <1>4, <2>1 DEF ClassSpec
  <2>5. Posix(class) = a..b
    BY <1>4, <2>1 DEF Posix, Lower
  <2>6. QED
    BY <2>3, <2>4, <2>5
<1>5. CASE class = ":punct:"
  <2>1. PICK a, b, c, d, e, f, g, h :
         /\ a = 33 /\ b = 47
         /\ c = 58 /\ d = 64
         /\ e = 91 /\ f = 96
         /\ g = 123 /\ h = 126
    OBVIOUS
  <2>2. /\ a \in Char \ {Dash} /\ b \in Char \ {Dash} /\ a <= b
        /\ c \in Char \ {Dash} /\ d \in Char \ {Dash} /\ c <= d
        /\ e \in Char \ {Dash} /\ f \in Char \ {Dash} /\ e <= f
        /\ g \in Char \ {Dash} /\ h \in Char \ {Dash} /\ g <= h
        /\ (a..b) \cap ((c..d) \cup ((e..f) \cup (g..h))) = {}
        /\ (c..d) \cap ((e..f) \cup (g..h)) = {}
        /\ (e..f) \cap (g..h) = {}
    BY <2>1 DEF Char, Dash
  <2>3. Yields(Denotes(To(a, b) \o To(c, d) \o To(e, f) \o To(g, h)),
               (a..b) \cup ((c..d) \cup ((e..f) \cup (g..h))))
    BY <2>2, FourRanges
  <2>4. ClassSpec[class] = To(a, b) \o To(c, d) \o To(e, f) \o To(g, h)
    BY <1>5, <2>1 DEF ClassSpec
  <2>5. Posix(class) = (a..b) \cup ((c..d) \cup ((e..f) \cup (g..h)))
    BY <1>5, <2>1 DEF Posix, Upper, Lower, Digit
  <2>6. QED
    BY <2>3, <2>4, <2>5
<1>6. CASE class = ":upper:"
  <2>1. PICK a, b : a = 65 /\ b = 90
    OBVIOUS
  <2>2. /\ a \in Char \ {Dash} /\ b \in Char \ {Dash} /\ a <= b
    BY <2>1 DEF Char, Dash
  <2>3. Yields(Denotes(To(a, b)), a..b)
    BY <2>2, OneRange
  <2>4. ClassSpec[class] = To(a, b)
    BY <1>6, <2>1 DEF ClassSpec
  <2>5. Posix(class) = a..b
    BY <1>6, <2>1 DEF Posix, Upper
  <2>6. QED
    BY <2>3, <2>4, <2>5
<1>7. CASE class = ":word:"
  <2>1. PICK a, b, d, e, f, g, h :
           /\ a = 65 /\ b = 90 /\ d = 97 /\ e = 122 /\ f = 48 /\ g = 57 /\ h = 95
    OBVIOUS
  <2>2. /\ a \in Char \ {Dash} /\ b \in Char \ {Dash} /\ a <= b
        /\ d \in Char \ {Dash} /\ e \in Char \ {Dash} /\ d <= e
        /\ f \in Char \ {Dash} /\ g \in Char \ {Dash} /\ f <= g /\ h \in Char
        /\ (a..b) \cap ((d..e) \cup ((f..g) \cup {h})) = {}
        /\ (d..e) \cap ((f..g) \cup {h}) = {}
        /\ (f..g) \cap {h} = {}
    BY <2>1 DEF Char, Dash
  <2>3. Yields(Denotes(To(a, b) \o To(d, e) \o To(f, g) \o <<h>>),
               (a..b) \cup ((d..e) \cup ((f..g) \cup {h})))
    BY <2>2, ThreeRangesAndOne
  <2>4. ClassSpec[class] = To(a, b) \o To(d, e) \o To(f, g) \o <<h>>
    BY <1>7, <2>1 DEF ClassSpec
  <2>5. Posix(class) = (a..b) \cup ((d..e) \cup ((f..g) \cup {h}))
    BY <1>7, <2>1 DEF Posix, Upper, Lower, Digit
  <2>6. QED
    BY <2>3, <2>4, <2>5
<1>8. CASE class = ":xdigit:"
  <2>1. PICK a, b, c, d, e, f :
         /\ a = 65 /\ b = 70
         /\ c = 97 /\ d = 102
         /\ e = 48 /\ f = 57
    OBVIOUS
  <2>2. /\ a \in Char \ {Dash} /\ b \in Char \ {Dash} /\ a <= b
        /\ c \in Char \ {Dash} /\ d \in Char \ {Dash} /\ c <= d
        /\ e \in Char \ {Dash} /\ f \in Char \ {Dash} /\ e <= f
        /\ (a..b) \cap ((c..d) \cup (e..f)) = {}
        /\ (c..d) \cap (e..f) = {}
    BY <2>1 DEF Char, Dash
  <2>3. Yields(Denotes(To(a, b) \o To(c, d) \o To(e, f)), (a..b) \cup ((c..d) \cup (e..f)))
    BY <2>2, ThreeRanges
  <2>4. ClassSpec[class] = To(a, b) \o To(c, d) \o To(e, f)
    BY <1>8, <2>1 DEF ClassSpec
  <2>5. Posix(class) = (a..b) \cup ((c..d) \cup (e..f))
    BY <1>8, <2>1 DEF Posix, Digit
  <2>6. QED
    BY <2>3, <2>4, <2>5
<1>9. CASE class \in {"", "*", ":graph:"}
  <2>1. PICK a, b : a = 33 /\ b = 126
    OBVIOUS
  <2>2. /\ a \in Char \ {Dash} /\ b \in Char \ {Dash} /\ a <= b
    BY <2>1 DEF Char, Dash
  <2>3. Yields(Denotes(To(a, b)), a..b)
    BY <2>2, OneRange
  <2>4. ClassSpec[class] = To(a, b)
    BY <1>9, <2>1 DEF ClassSpec
  <2>5. Posix(class) = a..b
    BY <1>9, <2>1 DEF Posix
  <2>6. QED
    BY <2>3, <2>4, <2>5
<1>10. QED
  BY <1>1, <1>2, <1>3, <1>4, <1>5, <1>6, <1>7, <1>8, <1>9 DEF ClassName

\* No class has the NUL, so the string in the array is all of the list's reading.
LEMMA ClassHasNoNUL ==
  ASSUME NEW c \in ClassName
  PROVE  CString(Denotes(ClassSpec[c])) = Denotes(ClassSpec[c])
<1>1. PICK s : s = Denotes(ClassSpec[c])
  OBVIOUS
<1>2. \A i \in 1..Len(s) : s[i] \in Posix(c)
  BY <1>1, ClassYields DEF Yields
<1>3. NUL \notin Posix(c)
  BY DEF Posix, Upper, Lower, Digit, NUL
<1>4. {i \in 1..Len(s) : s[i] = NUL} = {}
  BY <1>2, <1>3
<1>5. CString(s) = s
  BY <1>4 DEF CString
<1>6. QED
  BY <1>1, <1>5

\* A call for a named class returns the members of the class, each exactly once,
\* whatever the size of the array it succeeds with.
THEOREM ClassesArePosix == Spec => []ClassIsPosix
<1>1. ReturnsDenotation => ClassIsPosix
  <2> SUFFICES ASSUME ReturnsDenotation, ret = "ok", given.class \in ClassName
               PROVE  /\ {res[i] : i \in 1..Len(res)} = Posix(given.class)
                      /\ \A i, j \in 1..Len(res) : res[i] = res[j] => i = j
    BY DEF ClassIsPosix
  <2>1. res = CString(Denotes(ClassSpec[given.class]))
    BY DEF ReturnsDenotation, Resolved
  <2>2. Yields(res, Posix(given.class))
    BY <2>1, ClassYields, ClassHasNoNUL
  <2>3. QED
    BY <2>2 DEF Yields
<1>2. QED
  BY ReturnsWhatIsDenoted, <1>1, PTL
================================================================================
