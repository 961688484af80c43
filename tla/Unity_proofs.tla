------------------------------ MODULE Unity_proofs ------------------------------
(***************************************************************************)
(* Proofs about Unity for all suites, assertions and types.  The counters  *)
(* and what was printed agree at every step of a test, if the flags of the *)
(* current test count for what UnityConcludeTest has still to add.  Where  *)
(* a test stands in its scripts is what they say it should, if every       *)
(* assertion decides as its macro means: no statement that ends a script   *)
(* is behind it, and the flags tell the verdict of the one that did.       *)
(***************************************************************************)
EXTENDS Unity, SequenceTheorems, FiniteSetTheorems, WellFoundedInduction, TLAPS

Pieces(printed, what) == {i \in DOMAIN printed : printed[i].what = what}

Pending(b) == IF b THEN 1 ELSE 0
InTest     == phase \in Scripts \cup {"conclude"}

Counted ==
    /\ ~InTest => ~CurrentTestFailed /\ ~CurrentTestIgnored
    /\ phase = "begin" => NumberOfTests = 0 /\ TestFailures = 0 /\ TestIgnores = 0
    /\ Cardinality(Pieces(output, "FAIL")) = TestFailures + Pending(CurrentTestFailed)
    /\ Cardinality(Pieces(output, "IGNORE")) = TestIgnores + Pending(CurrentTestIgnored)
    /\ Cardinality(Pieces(output, "PASS"))
         = NumberOfTests - TestFailures - TestIgnores - Pending(InTest)

UnityInv == UnityTypeOK /\ Counted

--------------------------------------------------------------------------------
\* The pieces of a kind are finitely many, and one more piece is one more of its kind.
LEMMA PiecesFinite ==
  ASSUME NEW printed \in Seq(Piece), NEW what
  PROVE  /\ IsFiniteSet(Pieces(printed, what))
         /\ Cardinality(Pieces(printed, what)) \in Nat
<1>1. Len(printed) \in Nat /\ DOMAIN printed = 1 .. Len(printed)
  BY LenProperties
<1>2. IsFiniteSet(1 .. Len(printed))
  BY <1>1, FS_Interval
<1>3. Pieces(printed, what) \in SUBSET (1 .. Len(printed))
  BY <1>1 DEF Pieces
<1>4. IsFiniteSet(Pieces(printed, what))
  BY <1>2, <1>3, FS_Subset
<1>5. QED
  BY <1>4, FS_CardinalityType

LEMMA OneMorePiece ==
  ASSUME NEW printed \in Seq(Piece), NEW piece \in Piece, NEW what
  PROVE  Cardinality(Pieces(Append(printed, piece), what))
            = Cardinality(Pieces(printed, what)) + Pending(piece.what = what)
<1> DEFINE n == Len(printed)
           longer == Append(printed, piece)
<1>1. /\ n \in Nat /\ DOMAIN printed = 1 .. n
      /\ DOMAIN longer = 1 .. (n + 1)
      /\ longer[n + 1] = piece
      /\ \A i \in 1 .. n : longer[i] = printed[i]
  <2>1. n \in Nat /\ DOMAIN printed = 1 .. n
    BY LenProperties
  <2>2. /\ longer \in Seq(Piece) /\ Len(longer) = n + 1
        /\ longer[n + 1] = piece
        /\ \A i \in 1 .. n : longer[i] = printed[i]
    BY AppendProperties
  <2>3. DOMAIN longer = 1 .. (n + 1)
    BY <2>2, LenProperties
  <2>4. QED
    BY <2>1, <2>2, <2>3
<1> HIDE DEF n, longer
<1>2. IsFiniteSet(Pieces(printed, what)) /\ Cardinality(Pieces(printed, what)) \in Nat
  BY PiecesFinite
<1>3. CASE piece.what = what
  <2>1. Pieces(longer, what) = Pieces(printed, what) \cup {n + 1}
    BY <1>1, <1>3 DEF Pieces
  <2>2. n + 1 \notin Pieces(printed, what)
    BY <1>1 DEF Pieces
  <2>3. Cardinality(Pieces(longer, what)) = Cardinality(Pieces(printed, what)) + 1
    BY <1>2, <2>1, <2>2, FS_AddElement
  <2>4. QED
    BY <1>3, <2>3 DEF Pending, longer
<1>4. CASE piece.what # what
  <2>1. Pieces(longer, what) = Pieces(printed, what)
    BY <1>1, <1>4 DEF Pieces
  <2>2. QED
    BY <1>2, <1>4, <2>1 DEF Pending, longer
<1>5. QED
  BY <1>3, <1>4

--------------------------------------------------------------------------------
\* The current test is made of sequences of statements.
LEMMA TestTyped ==
  ASSUME UnityTypeOK, InTest
  PROVE  /\ Len(suite) \in Nat
         /\ NumberOfTests \in 1 .. Len(suite)
         /\ \A s \in Scripts : /\ CurrentTest[s] \in Seq(Statements)
                               /\ Len(CurrentTest[s]) \in Nat
<1>1. suite \in Seq(Test)
  BY SuitesAssumption DEF UnityTypeOK
<1>2. Len(suite) \in Nat
  BY <1>1, LenProperties
<1>3. NumberOfTests \in 1 .. Len(suite)
  BY <1>2 DEF UnityTypeOK, InTest
<1>4. CurrentTest \in Test
  BY <1>1, <1>3, ElementOfSeq DEF CurrentTest
<1>5. \A s \in Scripts : CurrentTest[s] \in Seq(Statements)
  BY <1>4 DEF Test, Scripts
<1>6. \A s \in Scripts : Len(CurrentTest[s]) \in Nat
  BY <1>5, LenProperties
<1>7. QED
  BY <1>2, <1>3, <1>5, <1>6

LEMMA StatementTyped ==
  ASSUME UnityTypeOK, NEW op, At(op)
  PROVE  /\ InTest /\ phase \in Scripts
         /\ Statement \in Statements
         /\ Statement.op = op
         /\ reached[phase] < Len(CurrentTest[phase])
<1>1. /\ phase \in Scripts /\ Statement.op = op
      /\ reached[phase] < Len(CurrentTest[phase])
  BY DEF At, Script
<1>2. InTest
  BY <1>1 DEF InTest
<1>3. /\ CurrentTest[phase] \in Seq(Statements)
      /\ Len(CurrentTest[phase]) \in Nat
  BY <1>1, <1>2, TestTyped
<1>4. reached[phase] \in Nat
  BY <1>1 DEF UnityTypeOK
<1>5. reached[phase] + 1 \in 1 .. Len(CurrentTest[phase])
  BY <1>1, <1>3, <1>4
<1>6. Statement \in Statements
  BY <1>3, <1>5, ElementOfSeq DEF Statement, Script
<1>7. QED
  BY <1>1, <1>2, <1>6

--------------------------------------------------------------------------------
(***************************************************************************)
(* A statement that began leaves the test at its next statement or, if it  *)
(* aborts, in another script; it may print a piece, and then sets the flag *)
(* that belongs to it.                                                     *)
(***************************************************************************)
Goes == /\ Begun
        /\ phase' \in Scripts \cup {"conclude"}
        /\ UNCHANGED <<suite, counters>>

Flagged == /\ CurrentTestFailed' \in BOOLEAN /\ CurrentTestIgnored' \in BOOLEAN
           /\ ~(CurrentTestFailed' /\ CurrentTestIgnored')
           /\ CurrentDetail' \in Details \cup {{}}

LEMMA ReturnOrAbortGoes ==
  ASSUME UnityTypeOK, NEW op, At(op)
  PROVE  (Return => Goes) /\ (TEST_ABORT => Goes)
<1>1. phase \in Scripts
  BY StatementTyped
<1>2. Return => Goes
  BY <1>1 DEF Return, Goes
<1>3. TEST_ABORT => Goes
  BY <1>1 DEF TEST_ABORT, Goes, Scripts
<1>4. QED
  BY <1>2, <1>3

LEMMA StepTypes ==
  ASSUME UnityTypeOK, NEW op, At(op), Goes, Flagged, output' \in Seq(Piece)
  PROVE  UnityTypeOK'
<1>1. /\ phase \in Scripts /\ InTest
      /\ reached[phase] < Len(CurrentTest[phase])
  BY StatementTyped
<1>2. /\ NumberOfTests \in 1 .. Len(suite) /\ Len(suite) \in Nat
      /\ \A s \in Scripts : Len(CurrentTest[s]) \in Nat
  BY <1>1, TestTyped
<1>3. /\ reached' = [reached EXCEPT ![phase] = @ + 1]
      /\ phase' \in Scripts \cup {"conclude"}
      /\ suite' = suite /\ NumberOfTests' = NumberOfTests
      /\ TestFailures' = TestFailures /\ TestIgnores' = TestIgnores
  BY DEF Goes, Begun, counters
<1>4. reached \in [Scripts -> Nat] /\ \A s \in Scripts : reached[s] <= Len(CurrentTest[s])
  BY <1>1 DEF UnityTypeOK, InTest
<1>5. reached' \in [Scripts -> Nat]
  BY <1>1, <1>3, <1>4
<1>6. \A s \in Scripts : reached'[s] <= Len(CurrentTest[s])
  BY <1>1, <1>2, <1>3, <1>4
<1>7. CurrentTest' = CurrentTest
  BY <1>3 DEF CurrentTest
<1>8. /\ suite' \in Suites /\ phase' \in Phases
      /\ NumberOfTests' \in 0 .. Len(suite') /\ NumberOfTests' > 0
      /\ TestFailures' \in Nat /\ TestIgnores' \in Nat
  BY <1>2, <1>3 DEF UnityTypeOK, Phases
<1>9. QED
  BY <1>5, <1>6, <1>7, <1>8 DEF UnityTypeOK, Flagged

LEMMA QuietStep ==
  ASSUME UnityInv, NEW op, At(op), Goes, UNCHANGED <<flags, output>>,
         CurrentDetail' \in Details \cup {{}}
  PROVE  UnityInv'
<1>1. /\ CurrentTestFailed' = CurrentTestFailed
      /\ CurrentTestIgnored' = CurrentTestIgnored
      /\ output' = output
  BY DEF flags
<1>2. Flagged /\ output' \in Seq(Piece)
  BY <1>1 DEF UnityInv, UnityTypeOK, Flagged
<1>3. UnityTypeOK'
  BY <1>2, StepTypes DEF UnityInv
<1>4. InTest /\ InTest' /\ phase' # "begin"
  BY StatementTyped DEF UnityInv, Goes, InTest, Scripts
<1>5. Counted'
  BY <1>1, <1>4 DEF UnityInv, Counted, Goes, counters
<1>6. QED
  BY <1>3, <1>5 DEF UnityInv

LEMMA ToldStep ==
  ASSUME UnityInv, NEW op, At(op), Goes, Flagged,
         NEW piece \in Piece, output' = Append(output, piece), piece.what # "PASS",
         Pending(CurrentTestFailed')
            = Pending(CurrentTestFailed) + Pending(piece.what = "FAIL"),
         Pending(CurrentTestIgnored')
            = Pending(CurrentTestIgnored) + Pending(piece.what = "IGNORE")
  PROVE  UnityInv'
<1>1. output \in Seq(Piece)
  BY DEF UnityInv, UnityTypeOK
<1>2. output' \in Seq(Piece)
  BY <1>1, AppendProperties
<1>3. UnityTypeOK'
  BY <1>2, StepTypes DEF UnityInv
<1>4. InTest /\ InTest' /\ phase' # "begin"
  BY StatementTyped DEF UnityInv, Goes, InTest, Scripts
<1>5. \A what : Cardinality(Pieces(output', what))
                  = Cardinality(Pieces(output, what)) + Pending(piece.what = what)
  BY <1>1, OneMorePiece
<1>6. /\ NumberOfTests' = NumberOfTests
      /\ TestFailures' = TestFailures /\ TestIgnores' = TestIgnores
      /\ NumberOfTests \in Nat /\ TestFailures \in Nat /\ TestIgnores \in Nat
  <2>1. NumberOfTests \in Nat
    BY <1>4, TestTyped DEF UnityInv
  <2>2. QED
    BY <2>1 DEF UnityInv, UnityTypeOK, Goes, counters
<1>7. Pending(CurrentTestFailed) \in Nat /\ Pending(CurrentTestIgnored) \in Nat
  BY DEF Pending
<1>8. /\ Cardinality(Pieces(output', "FAIL")) = TestFailures' + Pending(CurrentTestFailed')
      /\ Cardinality(Pieces(output', "IGNORE")) = TestIgnores' + Pending(CurrentTestIgnored')
  <2>1. /\ Cardinality(Pieces(output, "FAIL")) = TestFailures + Pending(CurrentTestFailed)
        /\ Cardinality(Pieces(output, "IGNORE")) = TestIgnores + Pending(CurrentTestIgnored)
    BY DEF UnityInv, Counted
  <2>2. Pending(piece.what = "FAIL") \in Nat /\ Pending(piece.what = "IGNORE") \in Nat
    BY DEF Pending
  <2>3. QED
    BY <1>5, <1>6, <1>7, <2>1, <2>2
<1>9. Cardinality(Pieces(output', "PASS"))
        = NumberOfTests' - TestFailures' - TestIgnores' - Pending(InTest')
  <2>1. Pending(piece.what = "PASS") = 0 /\ Pending(InTest) = 1 /\ Pending(InTest') = 1
    BY <1>4 DEF Pending
  <2>2. Cardinality(Pieces(output, "PASS"))
          = NumberOfTests - TestFailures - TestIgnores - Pending(InTest)
    BY DEF UnityInv, Counted
  <2>3. QED
    BY <1>5, <1>6, <2>1, <2>2
<1>10. Counted'
  BY <1>4, <1>8, <1>9 DEF Counted
<1>11. QED
  BY <1>3, <1>10 DEF UnityInv

--------------------------------------------------------------------------------
\* A piece that names the current test.
LEMMA PieceTyped ==
  ASSUME UnityTypeOK, NEW what \in Verdicts \cup {"INFO"},
         NEW report \in Reports, NEW detail \in Details \cup {{}},
         Prints(what, report, detail)
  PROVE  \E piece \in Piece : piece.what = what /\ output' = Append(output, piece)
<1> DEFINE p == [what |-> what, test |-> NumberOfTests, report |-> report, detail |-> detail]
<1>1. NumberOfTests \in Nat
  BY SuitesAssumption, LenProperties DEF UnityTypeOK
<1>2. p \in Piece /\ p.what = what
  BY <1>1 DEF Piece
<1>3. output' = Append(output, p)
  BY DEF Prints
<1>4. QED
  BY <1>2, <1>3

LEMMA AbortAgainInv ==
  ASSUME UnityInv, NEW op, At(op), AbortAgain
  PROVE  UnityInv'
<1>1. Goes
  BY ReturnOrAbortGoes DEF UnityInv, AbortAgain
<1>2. UNCHANGED <<flags, output>> /\ CurrentDetail' \in Details \cup {{}}
  BY DEF AbortAgain, UnityInv, UnityTypeOK
<1>3. QED
  BY <1>1, <1>2, QuietStep

LEMMA FailAndBailInv ==
  ASSUME UnityInv, NEW op, At(op), NEW report \in Reports,
         NEW detail \in Details \cup {{}}, FailAndBail(report, detail)
  PROVE  UnityInv'
<1>1. Goes
  BY ReturnOrAbortGoes DEF UnityInv, FailAndBail
<1>2. PICK piece \in Piece : piece.what = "FAIL" /\ output' = Append(output, piece)
  BY PieceTyped DEF UnityInv, FailAndBail, Verdicts
<1>3. /\ ~CurrentTestFailed /\ ~CurrentTestIgnored
      /\ CurrentTestFailed' = TRUE /\ CurrentTestIgnored' = CurrentTestIgnored
      /\ CurrentDetail' = CurrentDetail
  BY DEF FailAndBail, FailOrIgnore
<1>4. Flagged
  BY <1>3 DEF Flagged, UnityInv, UnityTypeOK
<1>5. /\ Pending(CurrentTestFailed')
           = Pending(CurrentTestFailed) + Pending(piece.what = "FAIL")
      /\ Pending(CurrentTestIgnored')
           = Pending(CurrentTestIgnored) + Pending(piece.what = "IGNORE")
  BY <1>2, <1>3 DEF Pending
<1>6. QED
  BY <1>1, <1>2, <1>4, <1>5, ToldStep

LEMMA IgnoreInv ==
  ASSUME UnityInv, UnityIgnore
  PROVE  UnityInv'
<1>1. At("IGNORE")
  BY DEF UnityIgnore
<1>2. CASE AbortAgain
  BY <1>1, <1>2, AbortAgainInv
<1>3. CASE /\ ~FailOrIgnore
           /\ PrintsOnly("IGNORE")
           /\ CurrentTestIgnored' = TRUE
           /\ TEST_ABORT
           /\ UNCHANGED <<CurrentTestFailed, CurrentDetail>>
  <2>1. Goes
    BY <1>1, <1>3, ReturnOrAbortGoes DEF UnityInv
  <2>2. PICK piece \in Piece : piece.what = "IGNORE" /\ output' = Append(output, piece)
    BY <1>3, PieceTyped DEF UnityInv, PrintsOnly, Reports, Verdicts
  <2>3. Flagged
    BY <1>3 DEF Flagged, FailOrIgnore, UnityInv, UnityTypeOK
  <2>4. /\ Pending(CurrentTestFailed')
             = Pending(CurrentTestFailed) + Pending(piece.what = "FAIL")
        /\ Pending(CurrentTestIgnored')
             = Pending(CurrentTestIgnored) + Pending(piece.what = "IGNORE")
    BY <1>3, <2>2 DEF Pending, FailOrIgnore
  <2>5. QED
    BY <1>1, <2>1, <2>2, <2>3, <2>4, ToldStep
<1>4. QED
  BY <1>2, <1>3 DEF UnityIgnore

LEMMA QuietStatementsInv ==
  ASSUME UnityInv, Work \/ SetDetails \/ TestPass
  PROVE  UnityInv'
<1>1. CASE Work
  <2>1. At("WORK") /\ Return /\ UNCHANGED <<flags, CurrentDetail, output>>
    BY <1>1 DEF Work
  <2>2. Goes
    BY <2>1, ReturnOrAbortGoes DEF UnityInv
  <2>3. CurrentDetail' \in Details \cup {{}}
    BY <2>1 DEF UnityInv, UnityTypeOK
  <2>4. QED
    BY <2>1, <2>2, <2>3, QuietStep
<1>2. CASE SetDetails
  <2>1. /\ At("SET_DETAILS") /\ Return /\ CurrentDetail' = Statement.detail
        /\ UNCHANGED <<flags, output>>
    BY <1>2 DEF SetDetails
  <2>2. Goes
    BY <2>1, ReturnOrAbortGoes DEF UnityInv
  <2>3. Statement \in Statements /\ Statement.op = "SET_DETAILS"
    BY <2>1, StatementTyped DEF UnityInv
  <2>4. Statement.detail \in Details
    BY <2>3, StatementsAssumption
  <2>5. QED
    BY <2>1, <2>2, <2>4, QuietStep
<1>3. CASE TestPass
  <2>1. At("PASS") /\ TEST_ABORT /\ UNCHANGED <<flags, CurrentDetail, output>>
    BY <1>3 DEF TestPass
  <2>2. Goes
    BY <2>1, ReturnOrAbortGoes DEF UnityInv
  <2>3. CurrentDetail' \in Details \cup {{}}
    BY <2>1 DEF UnityInv, UnityTypeOK
  <2>4. QED
    BY <2>1, <2>2, <2>3, QuietStep
<1>4. QED
  BY <1>1, <1>2, <1>3

LEMMA MessageInv ==
  ASSUME UnityInv, UnityMessage
  PROVE  UnityInv'
<1>1. /\ At("MESSAGE") /\ Return /\ PrintsOnly("INFO")
      /\ UNCHANGED <<flags, CurrentDetail>>
  BY DEF UnityMessage
<1>2. Goes
  BY <1>1, ReturnOrAbortGoes DEF UnityInv
<1>3. PICK piece \in Piece : piece.what = "INFO" /\ output' = Append(output, piece)
  BY <1>1, PieceTyped DEF UnityInv, PrintsOnly, Reports
<1>4. Flagged
  BY <1>1 DEF Flagged, flags, UnityInv, UnityTypeOK
<1>5. /\ Pending(CurrentTestFailed')
           = Pending(CurrentTestFailed) + Pending(piece.what = "FAIL")
      /\ Pending(CurrentTestIgnored')
           = Pending(CurrentTestIgnored) + Pending(piece.what = "IGNORE")
  BY <1>1, <1>3 DEF Pending, flags
<1>6. QED
  BY <1>1, <1>2, <1>3, <1>4, <1>5, ToldStep

LEMMA AssertionsInv ==
  ASSUME UnityInv, UnityFail \/ TestAssert \/ UnityAssert
  PROVE  UnityInv'
<1>1. CurrentDetail \in Details \cup {{}} /\ Failure \in Reports
  BY DEF UnityInv, UnityTypeOK, Reports
<1>2. CASE UnityFail
  <2> DEFINE detail == IF Statement.message THEN CurrentDetail ELSE {}
  <2>1. At("FAIL") /\ (AbortAgain \/ FailAndBail(Failure, detail))
    BY <1>2 DEF UnityFail
  <2>2. detail \in Details \cup {{}}
    BY <1>1
  <2> HIDE DEF detail
  <2>3. QED
    BY <1>1, <2>1, <2>2, AbortAgainInv, FailAndBailInv
<1>3. CASE TestAssert
  <2>1. At("CONDITION")
    BY <1>3 DEF TestAssert
  <2>2. CASE Return /\ UNCHANGED <<flags, CurrentDetail, output>>
    <3>1. Goes
      BY <2>1, <2>2, ReturnOrAbortGoes DEF UnityInv
    <3>2. QED
      BY <1>1, <2>1, <2>2, <3>1, QuietStep
  <2>3. QED
    BY <1>1, <1>3, <2>1, <2>2, AbortAgainInv, FailAndBailInv DEF TestAssert
<1>4. CASE UnityAssert
  <2>1. At("ASSERT")
    BY <1>4 DEF UnityAssert
  <2>2. CASE Return /\ UNCHANGED <<flags, CurrentDetail, output>>
    <3>1. Goes
      BY <2>1, <2>2, ReturnOrAbortGoes DEF UnityInv
    <3>2. QED
      BY <1>1, <2>1, <2>2, <3>1, QuietStep
  <2>3. Statement \in Statements /\ Statement.op = "ASSERT"
    BY <2>1, StatementTyped DEF UnityInv
  <2>4. Judge(Statement.call) \in Reports
    BY <2>3 DEF Reports
  <2>5. CASE AbortAgain
    BY <2>1, <2>5, AbortAgainInv
  <2>6. CASE FailAndBail(Judge(Statement.call), CurrentDetail)
    BY <1>1, <2>1, <2>4, <2>6, FailAndBailInv
  <2>7. QED
    BY <1>4, <2>2, <2>5, <2>6 DEF UnityAssert
<1>5. QED
  BY <1>2, <1>3, <1>4

--------------------------------------------------------------------------------
\* What the counters are worth before a step, and what has to hold of them after it.
Tally(printed, tests, failures, ignores, failed, ignored, running) ==
    /\ Cardinality(Pieces(printed, "FAIL")) = failures + failed
    /\ Cardinality(Pieces(printed, "IGNORE")) = ignores + ignored
    /\ Cardinality(Pieces(printed, "PASS")) = tests - failures - ignores - running

LEMMA TallyBefore ==
  ASSUME Counted
  PROVE  Tally(output, NumberOfTests, TestFailures, TestIgnores, Pending(CurrentTestFailed),
               Pending(CurrentTestIgnored), Pending(InTest))
<1>1. Cardinality(Pieces(output, "FAIL")) = TestFailures + Pending(CurrentTestFailed)
  BY DEF Counted
<1>2. Cardinality(Pieces(output, "IGNORE")) = TestIgnores + Pending(CurrentTestIgnored)
  BY DEF Counted
<1>3. Cardinality(Pieces(output, "PASS"))
        = NumberOfTests - TestFailures - TestIgnores - Pending(InTest)
  BY DEF Counted
<1>4. QED
  BY <1>1, <1>2, <1>3 DEF Tally

LEMMA TallyAfter ==
  ASSUME Tally(output', NumberOfTests', TestFailures', TestIgnores', Pending(CurrentTestFailed'),
               Pending(CurrentTestIgnored'), Pending(InTest')),
         ~InTest' => ~CurrentTestFailed' /\ ~CurrentTestIgnored',
         phase' = "begin" => NumberOfTests' = 0 /\ TestFailures' = 0 /\ TestIgnores' = 0
  PROVE  Counted'
<1>1. QED
  BY DEF Counted, Tally

\* The runner itself.
LEMMA InitInv ==
  UnityInit => UnityInv
<1> SUFFICES ASSUME UnityInit PROVE UnityInv
  OBVIOUS
<1>1. /\ phase = "begin" /\ output = <<>> /\ suite \in Suites
      /\ NumberOfTests = 0 /\ TestFailures = 0 /\ TestIgnores = 0
      /\ CurrentTestFailed = FALSE /\ CurrentTestIgnored = FALSE
      /\ CurrentDetail = {} /\ reached = [s \in Scripts |-> 0]
  BY DEF UnityInit
<1>2. Len(suite) \in Nat
  BY <1>1, SuitesAssumption, LenProperties
<1>3. output \in Seq(Piece) /\ DOMAIN output = {}
  BY <1>1, EmptySeq
<1>4. UnityTypeOK
  <2>1. reached \in [Scripts -> Nat] /\ NumberOfTests \in 0 .. Len(suite)
    BY <1>1, <1>2
  <2>2. phase \in Phases /\ phase \notin Scripts \cup {"conclude"}
    BY <1>1 DEF Phases, Scripts
  <2>3. QED
    BY <1>1, <1>3, <2>1, <2>2 DEF UnityTypeOK
<1>5. \A what : Cardinality(Pieces(output, what)) = 0
  <2>1. \A what : Pieces(output, what) = {}
    BY <1>3 DEF Pieces
  <2>2. QED
    BY <2>1, FS_EmptySet
<1>6. Counted
  BY <1>1, <1>5 DEF Counted, Pending, InTest, Scripts
<1>7. QED
  BY <1>4, <1>6 DEF UnityInv

\* What is known of the counters.
LEMMA CountersTyped ==
  ASSUME UnityTypeOK
  PROVE  /\ Len(suite) \in Nat /\ NumberOfTests \in 0 .. Len(suite)
         /\ NumberOfTests \in Nat /\ TestFailures \in Nat /\ TestIgnores \in Nat
         /\ output \in Seq(Piece)
<1>1. Len(suite) \in Nat
  BY SuitesAssumption, LenProperties DEF UnityTypeOK
<1>2. QED
  BY <1>1 DEF UnityTypeOK

LEMMA BeginInv ==
  ASSUME UnityInv, UnityBegin
  PROVE  UnityInv'
<1>1. /\ phase = "begin" /\ phase' = "main"
      /\ NumberOfTests' = 0 /\ TestFailures' = 0 /\ TestIgnores' = 0
      /\ CurrentTestFailed' = FALSE /\ CurrentTestIgnored' = FALSE
      /\ CurrentDetail' = {} /\ suite' = suite /\ reached' = reached /\ output' = output
  BY DEF UnityBegin
<1>2. Len(suite) \in Nat
  BY CountersTyped DEF UnityInv
<1>3. UnityTypeOK'
  <2>1. UnityTypeOK
    BY DEF UnityInv
  <2>2. /\ suite' \in Suites /\ reached' \in [Scripts -> Nat]
        /\ NumberOfTests' \in 0 .. Len(suite') /\ TestFailures' \in Nat /\ TestIgnores' \in Nat
        /\ output' \in Seq(Piece)
    BY <1>1, <1>2, <2>1 DEF UnityTypeOK
  <2>3. phase' \in Phases /\ phase' \notin Scripts \cup {"conclude"}
    BY <1>1 DEF Phases, Scripts
  <2>4. QED
    BY <1>1, <2>2, <2>3 DEF UnityTypeOK
<1>4. ~InTest /\ ~InTest'
  BY <1>1 DEF InTest, Scripts
<1>5. /\ NumberOfTests = 0 /\ TestFailures = 0 /\ TestIgnores = 0
      /\ ~CurrentTestFailed /\ ~CurrentTestIgnored
  BY <1>1, <1>4 DEF UnityInv, Counted
<1>6. Tally(output, 0, 0, 0, 0, 0, 0)
  BY <1>4, <1>5, TallyBefore DEF UnityInv, Pending
<1>7. Pending(CurrentTestFailed') = 0 /\ Pending(CurrentTestIgnored') = 0 /\ Pending(InTest') = 0
  BY <1>1, <1>4 DEF Pending
<1>8. Counted'
  BY <1>1, <1>6, <1>7, TallyAfter
<1>9. QED
  BY <1>3, <1>8 DEF UnityInv

LEMMA TestRunInv ==
  ASSUME UnityInv, UnityDefaultTestRun
  PROVE  UnityInv'
<1>1. /\ phase = "main" /\ phase' = "setUp"
      /\ NumberOfTests < Len(suite) /\ NumberOfTests' = NumberOfTests + 1
      /\ reached' = [s \in Scripts |-> 0]
      /\ CurrentTestFailed' = CurrentTestFailed /\ CurrentTestIgnored' = CurrentTestIgnored
      /\ CurrentDetail' = {} /\ suite' = suite /\ output' = output
      /\ TestFailures' = TestFailures /\ TestIgnores' = TestIgnores
  BY DEF UnityDefaultTestRun, flags
<1>2. /\ Len(suite) \in Nat /\ NumberOfTests \in Nat
      /\ TestFailures \in Nat /\ TestIgnores \in Nat
  BY CountersTyped DEF UnityInv
<1>3. NumberOfTests' \in 1 .. Len(suite')
  BY <1>1, <1>2
<1>4. CurrentTest' \in Test
  <2>1. suite' \in Seq(Test)
    BY <1>1, SuitesAssumption DEF UnityInv, UnityTypeOK
  <2>2. QED
    BY <1>3, <2>1, ElementOfSeq DEF CurrentTest
<1>5. \A s \in Scripts : reached'[s] <= Len(CurrentTest'[s])
  <2>1. \A s \in Scripts : CurrentTest'[s] \in Seq(Statements)
    BY <1>4 DEF Test, Scripts
  <2>2. \A s \in Scripts : Len(CurrentTest'[s]) \in Nat
    BY <2>1, LenProperties
  <2>3. QED
    BY <1>1, <2>2
<1>6. UnityTypeOK'
  <2>1. /\ suite' \in Suites /\ phase' \in Phases
        /\ reached' \in [Scripts -> Nat]
        /\ NumberOfTests' \in 0 .. Len(suite') /\ NumberOfTests' > 0
    BY <1>1, <1>2, <1>3 DEF UnityInv, UnityTypeOK, Phases, Scripts
  <2>2. QED
    BY <1>1, <1>5, <2>1 DEF UnityInv, UnityTypeOK
<1>7. ~InTest /\ InTest' /\ phase' # "begin"
  BY <1>1 DEF InTest, Scripts
<1>8. Pending(InTest) = 0 /\ Pending(InTest') = 1
  BY <1>7 DEF Pending
<1>9. Tally(output, NumberOfTests, TestFailures, TestIgnores, Pending(CurrentTestFailed),
            Pending(CurrentTestIgnored), 0)
  BY <1>8, TallyBefore DEF UnityInv
<1>10. Tally(output, NumberOfTests + 1, TestFailures, TestIgnores, Pending(CurrentTestFailed),
             Pending(CurrentTestIgnored), 1)
  BY <1>2, <1>9 DEF Tally
<1>11. Counted'
  BY <1>1, <1>7, <1>8, <1>10, TallyAfter
<1>12. QED
  BY <1>6, <1>11 DEF UnityInv

LEMMA LeaveInv ==
  ASSUME UnityInv, Leave
  PROVE  UnityInv'
<1>1. /\ phase \in Scripts /\ phase' \in Scripts \cup {"conclude"}
      /\ UNCHANGED <<suite, reached, counters, flags, CurrentDetail, output>>
  BY DEF Leave, Scripts
<1>2. InTest /\ InTest' /\ phase' # "begin"
  BY <1>1 DEF InTest, Scripts
<1>3. CurrentTest' = CurrentTest
  BY <1>1 DEF CurrentTest, counters
<1>4. UnityTypeOK'
  BY <1>1, <1>3 DEF UnityInv, UnityTypeOK, Phases, counters, flags
<1>5. Tally(output, NumberOfTests, TestFailures, TestIgnores, Pending(CurrentTestFailed),
            Pending(CurrentTestIgnored), Pending(InTest))
  BY TallyBefore DEF UnityInv
<1>6. /\ output' = output /\ NumberOfTests' = NumberOfTests
      /\ TestFailures' = TestFailures /\ TestIgnores' = TestIgnores
      /\ CurrentTestFailed' = CurrentTestFailed /\ CurrentTestIgnored' = CurrentTestIgnored
  BY <1>1 DEF counters, flags
<1>7. Pending(InTest') = Pending(InTest)
  BY <1>2 DEF Pending
<1>8. Counted'
  BY <1>2, <1>5, <1>6, <1>7, TallyAfter
<1>9. QED
  BY <1>4, <1>8 DEF UnityInv

LEMMA EndInv ==
  ASSUME UnityInv, UnityEnd
  PROVE  UnityInv'
<1>1. /\ phase = "main" /\ phase' = "ended"
      /\ UNCHANGED <<suite, reached, counters, flags, CurrentDetail, output>>
  BY DEF UnityEnd
<1>2. ~InTest /\ ~InTest' /\ phase' # "begin"
  BY <1>1 DEF InTest, Scripts
<1>3. UnityTypeOK'
  BY <1>1 DEF UnityInv, UnityTypeOK, Phases, Scripts, counters, flags
<1>4. Tally(output, NumberOfTests, TestFailures, TestIgnores, Pending(CurrentTestFailed),
            Pending(CurrentTestIgnored), Pending(InTest))
  BY TallyBefore DEF UnityInv
<1>5. /\ output' = output /\ NumberOfTests' = NumberOfTests
      /\ TestFailures' = TestFailures /\ TestIgnores' = TestIgnores
      /\ CurrentTestFailed' = CurrentTestFailed /\ CurrentTestIgnored' = CurrentTestIgnored
  BY <1>1 DEF counters, flags
<1>6. ~CurrentTestFailed /\ ~CurrentTestIgnored
  BY <1>2 DEF UnityInv, Counted
<1>7. Pending(InTest') = Pending(InTest)
  BY <1>2 DEF Pending
<1>8. Counted'
  BY <1>2, <1>4, <1>5, <1>6, <1>7, TallyAfter
<1>9. QED
  BY <1>3, <1>8 DEF UnityInv

LEMMA ConcludeInv ==
  ASSUME UnityInv, UnityConcludeTest
  PROVE  UnityInv'
<1>1. /\ phase = "conclude" /\ phase' = "main"
      /\ CurrentTestFailed' = FALSE /\ CurrentTestIgnored' = FALSE
      /\ suite' = suite /\ reached' = reached /\ NumberOfTests' = NumberOfTests
      /\ CurrentDetail' = CurrentDetail
  BY DEF UnityConcludeTest, Conclude
<1>2. /\ Len(suite) \in Nat /\ NumberOfTests \in Nat
      /\ TestFailures \in Nat /\ TestIgnores \in Nat /\ output \in Seq(Piece)
  BY CountersTyped DEF UnityInv
<1>3. InTest /\ ~InTest' /\ phase' # "begin" /\ phase' \notin Scripts \cup {"conclude"}
  BY <1>1 DEF InTest, Scripts
<1>4. Pending(InTest) = 1 /\ Pending(InTest') = 0
  BY <1>3 DEF Pending
<1>5. /\ Pending(CurrentTestFailed') = 0 /\ Pending(CurrentTestIgnored') = 0
  BY <1>1 DEF Pending
<1>6. ASSUME TestFailures' \in Nat, TestIgnores' \in Nat, output' \in Seq(Piece)
      PROVE  UnityTypeOK'
  BY <1>1, <1>3, <1>6 DEF UnityInv, UnityTypeOK, Phases
<1>7. CASE CurrentTestIgnored
  <2>1. /\ TestIgnores' = TestIgnores + 1 /\ TestFailures' = TestFailures /\ output' = output
    BY <1>7 DEF UnityConcludeTest, Conclude, FailOrIgnore
  <2>2. Pending(CurrentTestIgnored) = 1 /\ Pending(CurrentTestFailed) = 0
    BY <1>7 DEF UnityInv, UnityTypeOK, Pending
  <2>3. Tally(output', NumberOfTests', TestFailures', TestIgnores', 0, 0, 0)
    BY <1>1, <1>2, <1>4, <2>1, <2>2, TallyBefore DEF UnityInv, Tally
  <2>4. Counted'
    BY <1>1, <1>3, <1>4, <1>5, <2>3, TallyAfter
  <2>5. QED
    BY <1>2, <1>6, <2>1, <2>4 DEF UnityInv
<1>8. CASE CurrentTestFailed
  <2>1. /\ TestFailures' = TestFailures + 1 /\ TestIgnores' = TestIgnores /\ output' = output
    BY <1>8 DEF UnityConcludeTest, Conclude, FailOrIgnore, UnityInv, UnityTypeOK
  <2>2. Pending(CurrentTestIgnored) = 0 /\ Pending(CurrentTestFailed) = 1
    BY <1>8 DEF UnityInv, UnityTypeOK, Pending
  <2>3. Tally(output', NumberOfTests', TestFailures', TestIgnores', 0, 0, 0)
    BY <1>1, <1>2, <1>4, <2>1, <2>2, TallyBefore DEF UnityInv, Tally
  <2>4. Counted'
    BY <1>1, <1>3, <1>4, <1>5, <2>3, TallyAfter
  <2>5. QED
    BY <1>2, <1>6, <2>1, <2>4 DEF UnityInv
<1>9. CASE ~CurrentTestFailed /\ ~CurrentTestIgnored
  <2>1. /\ PrintsOnly("PASS")
        /\ TestFailures' = TestFailures /\ TestIgnores' = TestIgnores
    BY <1>9 DEF UnityConcludeTest, Conclude, FailOrIgnore
  <2>2. PICK piece \in Piece : piece.what = "PASS" /\ output' = Append(output, piece)
    BY <2>1, PieceTyped DEF UnityInv, PrintsOnly, Reports, Verdicts
  <2>3. output' \in Seq(Piece)
    BY <1>2, <2>2, AppendProperties
  <2>4. \A what : Cardinality(Pieces(output', what))
                    = Cardinality(Pieces(output, what)) + Pending(piece.what = what)
    BY <1>2, <2>2, OneMorePiece
  <2>5. /\ Pending(piece.what = "PASS") = 1
        /\ Pending(piece.what = "FAIL") = 0 /\ Pending(piece.what = "IGNORE") = 0
        /\ Pending(CurrentTestFailed) = 0 /\ Pending(CurrentTestIgnored) = 0
    BY <1>9, <2>2 DEF Pending
  <2>6. Tally(output, NumberOfTests, TestFailures, TestIgnores, 0, 0, 1)
    BY <1>4, <2>5, <1>9, TallyBefore DEF UnityInv, Pending
  <2>7. Tally(output', NumberOfTests', TestFailures', TestIgnores', 0, 0, 0)
    BY <1>1, <1>2, <2>1, <2>4, <2>5, <2>6 DEF Tally
  <2>8. Counted'
    BY <1>1, <1>3, <1>4, <1>5, <2>7, TallyAfter
  <2>9. QED
    BY <1>2, <1>6, <2>1, <2>3, <2>8 DEF UnityInv
<1>10. QED
  BY <1>7, <1>8, <1>9

LEMMA StutterInv ==
  ASSUME UnityInv, UNCHANGED unityVars
  PROVE  UnityInv'
<1>1. UNCHANGED <<suite, phase, reached, counters, flags, CurrentDetail, output>>
  BY DEF unityVars
<1>2. UnityTypeOK'
  BY <1>1 DEF UnityInv, UnityTypeOK, CurrentTest, counters, flags
<1>3. Tally(output, NumberOfTests, TestFailures, TestIgnores, Pending(CurrentTestFailed),
            Pending(CurrentTestIgnored), Pending(InTest))
  BY TallyBefore DEF UnityInv
<1>4. /\ output' = output /\ NumberOfTests' = NumberOfTests
      /\ TestFailures' = TestFailures /\ TestIgnores' = TestIgnores
      /\ CurrentTestFailed' = CurrentTestFailed /\ CurrentTestIgnored' = CurrentTestIgnored
  BY <1>1 DEF counters, flags
<1>5. InTest' <=> InTest
  BY <1>1 DEF InTest
<1>6. phase' = phase
  BY <1>1
<1>7. Pending(InTest') = Pending(InTest)
  BY <1>5 DEF Pending
<1>8. /\ ~InTest => ~CurrentTestFailed /\ ~CurrentTestIgnored
      /\ phase = "begin" => NumberOfTests = 0 /\ TestFailures = 0 /\ TestIgnores = 0
  BY DEF UnityInv, Counted
<1>9. Counted'
  BY <1>3, <1>4, <1>5, <1>6, <1>7, <1>8, TallyAfter
<1>10. QED
  BY <1>2, <1>9 DEF UnityInv

LEMMA UnityInvariant ==
  UnitySpec => []UnityInv
<1>1. UnityInit => UnityInv
  BY InitInv
<1>2. UnityInv /\ [UnityNext]_unityVars => UnityInv'
  <2> SUFFICES ASSUME UnityInv, [UnityNext]_unityVars PROVE UnityInv'
    OBVIOUS
  <2>1. CASE UnityBegin
    BY <2>1, BeginInv
  <2>2. CASE UnityDefaultTestRun
    BY <2>2, TestRunInv
  <2>3. CASE UnityStep
    BY <2>3, QuietStatementsInv, MessageInv, AssertionsInv, IgnoreInv, LeaveInv
       DEF UnityStep
  <2>4. CASE UnityConcludeTest
    BY <2>4, ConcludeInv
  <2>5. CASE UnityEnd
    BY <2>5, EndInv
  <2>6. CASE UNCHANGED unityVars
    BY <2>6, StutterInv
  <2>7. QED
    BY <2>1, <2>2, <2>3, <2>4, <2>5, <2>6 DEF UnityNext
<1>3. QED
  BY <1>1, <1>2, PTL DEF UnitySpec

--------------------------------------------------------------------------------
(***************************************************************************)
(* For all suites, assertions and types, the variables keep their types, a *)
(* script is never left behind its end, and no test is both failed and     *)
(* ignored (UnityFail and UnityIgnore).                                    *)
(***************************************************************************)
THEOREM UnityTypeCorrect ==
  UnitySpec => []UnityTypeOK
<1>1. UnityInv => UnityTypeOK
  BY DEF UnityInv
<1>2. QED
  BY <1>1, UnityInvariant, PTL

(***************************************************************************)
(* For all suites, between two tests and when UnityEnd returns the number  *)
(* of failures, each counter is the number of its verdicts that were       *)
(* printed, and the verdicts add up to the tests that ran.                 *)
(***************************************************************************)
THEOREM CountsAreWhatIsPrinted ==
  UnitySpec => []CountsWhatItPrinted
<1>1. UnityInv => CountsWhatItPrinted
  <2> SUFFICES ASSUME UnityInv, phase \in {"main", "ended"}
               PROVE  /\ TestFailures = Cardinality(PiecesOf("FAIL"))
                      /\ TestIgnores = Cardinality(PiecesOf("IGNORE"))
                      /\ NumberOfTests = TestFailures + TestIgnores
                                           + Cardinality(PiecesOf("PASS"))
    BY DEF CountsWhatItPrinted
  <2>1. ~InTest
    BY DEF InTest, Scripts
  <2>2. Pending(InTest) = 0 /\ Pending(CurrentTestFailed) = 0 /\ Pending(CurrentTestIgnored) = 0
    BY <2>1 DEF UnityInv, Counted, Pending
  <2>3. \A what : PiecesOf(what) = Pieces(output, what)
    BY DEF PiecesOf, Pieces
  <2>4. /\ NumberOfTests \in Nat /\ TestFailures \in Nat /\ TestIgnores \in Nat
    BY CountersTyped DEF UnityInv
  <2>5. QED
    BY <2>2, <2>3, <2>4 DEF UnityInv, Counted
<1>2. QED
  BY <1>1, UnityInvariant, PTL

--------------------------------------------------------------------------------
(***************************************************************************)
(* Where a test stands, in terms of what it should do.                     *)
(***************************************************************************)
Part == Protected(CurrentTest)
Went == reached["setUp"] + reached["body"]

InProtected ==
    /\ reached["tearDown"] = 0
    /\ IF phase = "setUp" THEN reached["body"] = 0
                          ELSE reached["setUp"] = Len(CurrentTest["setUp"])
    /\ \A i \in 1 .. Went : ~Stops(Part[i])
    /\ ~FailOrIgnore

\* The flags tell a verdict.
Flags(verdict) == /\ CurrentTestFailed <=> verdict = "FAIL"
                  /\ CurrentTestIgnored <=> verdict = "IGNORE"

LeftProtected == /\ reached["setUp"] = ShouldReach(CurrentTest).setUp
                 /\ reached["body"] = ShouldReach(CurrentTest).body

InTearDownOf ==
    /\ Flags(VerdictOf(Part))
    /\ \A i \in 1 .. reached["tearDown"] :
          IF VerdictOf(Part) = "PASS" THEN ~Stops(CurrentTest["tearDown"][i])
                                      ELSE ~Looks(CurrentTest["tearDown"][i])

AtItsEnd == /\ reached["tearDown"] = ShouldReach(CurrentTest).tearDown
            /\ Flags(Verdict(CurrentTest))

Progress == /\ phase \in {"setUp", "body"} => InProtected
            /\ phase \in {"tearDown", "conclude"} => LeftProtected
            /\ phase = "tearDown" => InTearDownOf
            /\ phase = "conclude" => AtItsEnd

\* What was printed about test n.
ToldIn(printed, n, v) == \E i \in DOMAIN printed : printed[i].what = v /\ printed[i].test = n
Told(n, v) == ToldIn(output, n, v)

History == /\ phase = "begin" => output = <<>>
           /\ \A i \in DOMAIN output : output[i].test \in 1 .. NumberOfTests
           /\ \A n \in Concluded, v \in Verdicts : Told(n, v) <=> Verdict(suite[n]) = v
           /\ InTest => /\ Told(NumberOfTests, "FAIL") <=> CurrentTestFailed
                        /\ Told(NumberOfTests, "IGNORE") <=> CurrentTestIgnored
                        /\ ~Told(NumberOfTests, "PASS")

\* The operators a script is judged with, as those of a set of positions.
Stopping(script) == {i \in DOMAIN script : Stops(script[i])}
Looking(script)  == {i \in DOMAIN script : Looks(script[i])}
Until(script)    == IF Stopping(script) = {} THEN Len(script) ELSE Min(Stopping(script))
Glance(script)   == IF Looking(script) = {} THEN Len(script) ELSE Min(Looking(script))

LEMMA LeastIsMin ==
  ASSUME NEW T \in SUBSET Int, NEW k \in T, \A i \in T : k <= i
  PROVE  Min(T) = k
<1>1. \A x \in T : (\A y \in T : x <= y) => x = k
  <2>1. \A x \in T : (\A y \in T : x <= y) => x <= k /\ k <= x
    OBVIOUS
  <2>2. QED
    BY <2>1
<1>2. QED
  BY <1>1 DEF Min

LEMMA GreatestIsMax ==
  ASSUME NEW T \in SUBSET Int, NEW k \in T, \A i \in T : i <= k
  PROVE  Max(T) = k
<1>1. \A x \in T : (\A y \in T : x >= y) => x = k
  <2>1. \A x \in T : (\A y \in T : x >= y) => x >= k /\ k >= x
    OBVIOUS
  <2>2. QED
    BY <2>1
<1>2. k >= k /\ \A i \in T : k >= i
  OBVIOUS
<1>3. QED
  BY <1>1, <1>2 DEF Max

LEMMA OfTwo ==
  ASSUME NEW a \in Int, NEW b \in Int
  PROVE  /\ Min({a, b}) = IF a <= b THEN a ELSE b
         /\ Max({a, b}) = IF a >= b THEN a ELSE b
<1>1. CASE a <= b
  <2>1. Min({a, b}) = a
    BY <1>1, LeastIsMin
  <2>2. Max({a, b}) = b
    BY <1>1, GreatestIsMax
  <2>3. QED
    BY <1>1, <2>1, <2>2
<1>2. CASE ~(a <= b)
  <2>1. Min({a, b}) = b
    BY <1>2, LeastIsMin
  <2>2. Max({a, b}) = a
    BY <1>2, GreatestIsMax
  <2>3. QED
    BY <1>2, <2>1, <2>2
<1>3. QED
  BY <1>1, <1>2

LEMMA VerdictByPosition ==
  ASSUME NEW script
  PROVE  VerdictOf(script) =
            IF Stopping(script) = {} \/ script[Min(Stopping(script))].op = "PASS" THEN "PASS"
            ELSE IF script[Min(Stopping(script))].op = "IGNORE" THEN "IGNORE" ELSE "FAIL"
  BY DEF VerdictOf, First, Where, Stopping

\* A script without a statement that ends it is run to its end and passes.
LEMMA NothingStops ==
  ASSUME NEW script \in Seq(Statements), \A i \in 1 .. Len(script) : ~Stops(script[i])
  PROVE  Until(script) = Len(script) /\ VerdictOf(script) = "PASS"
<1>1. DOMAIN script = 1 .. Len(script)
  BY LenProperties
<1>2. Stopping(script) = {}
  BY <1>1 DEF Stopping
<1>3. QED
  BY <1>2, VerdictByPosition DEF Until

LEMMA NothingLooks ==
  ASSUME NEW script \in Seq(Statements), \A i \in 1 .. Len(script) : ~Looks(script[i])
  PROVE  Glance(script) = Len(script)
<1>1. DOMAIN script = 1 .. Len(script)
  BY LenProperties
<1>2. QED
  BY <1>1 DEF Looking, Glance

\* One that has such a statement has the verdict of the first.
LEMMA SomethingStops ==
  ASSUME NEW script \in Seq(Statements), NEW k \in 1 .. Len(script), Stops(script[k]),
         \A i \in 1 .. k - 1 : ~Stops(script[i])
  PROVE  /\ Until(script) = k
         /\ Stopping(script) # {} /\ Min(Stopping(script)) = k
         /\ VerdictOf(script) = IF script[k].op = "PASS" THEN "PASS"
                                ELSE IF script[k].op = "IGNORE" THEN "IGNORE" ELSE "FAIL"
<1>1. DOMAIN script = 1 .. Len(script) /\ Len(script) \in Nat
  BY LenProperties
<1>2. k \in Stopping(script) /\ Stopping(script) \in SUBSET Int
  BY <1>1 DEF Stopping
<1>3. \A i \in Stopping(script) : k <= i
  BY <1>1 DEF Stopping
<1>4. Min(Stopping(script)) = k
  BY <1>2, <1>3, LeastIsMin
<1>5. QED
  BY <1>2, <1>4, VerdictByPosition DEF Until

LEMMA SomethingLooks ==
  ASSUME NEW script \in Seq(Statements), NEW k \in 1 .. Len(script), Looks(script[k]),
         \A i \in 1 .. k - 1 : ~Looks(script[i])
  PROVE  Glance(script) = k
<1>1. DOMAIN script = 1 .. Len(script) /\ Len(script) \in Nat
  BY LenProperties
<1>2. k \in Looking(script) /\ Looking(script) \in SUBSET Int
  BY <1>1 DEF Looking
<1>3. \A i \in Looking(script) : k <= i
  BY <1>1 DEF Looking
<1>4. Min(Looking(script)) = k
  BY <1>2, <1>3, LeastIsMin
<1>5. QED
  BY <1>2, <1>4 DEF Glance

LEMMA VerdictTyped ==
  ASSUME NEW script
  PROVE  VerdictOf(script) \in Verdicts
  BY VerdictByPosition DEF Verdicts

\* How far the scripts of a test should be run.
LEMMA ShouldReachTyped ==
  ASSUME NEW t \in Test
  PROVE  /\ Until(Protected(t)) \in Nat =>
               /\ ShouldReach(t).setUp = IF Until(Protected(t)) <= Len(t.setUp)
                                         THEN Until(Protected(t)) ELSE Len(t.setUp)
               /\ ShouldReach(t).body = IF Until(Protected(t)) >= Len(t.setUp)
                                        THEN Until(Protected(t)) - Len(t.setUp) ELSE 0
         /\ ShouldReach(t).tearDown = IF VerdictOf(Protected(t)) = "PASS"
                                      THEN Until(t.tearDown) ELSE Glance(t.tearDown)
         /\ ShouldReach(t) = [setUp |-> ShouldReach(t).setUp, body |-> ShouldReach(t).body,
                              tearDown |-> ShouldReach(t).tearDown]
<1> DEFINE u == Until(Protected(t))
<1>1. t.setUp \in Seq(Statements) /\ Len(t.setUp) \in Nat
  BY LenProperties DEF Test
<1>2. ShouldReach(t) = [setUp    |-> Min({u, Len(t.setUp)}),
                        body     |-> Max({u - Len(t.setUp), 0}),
                        tearDown |-> IF VerdictOf(Protected(t)) = "PASS"
                                     THEN Until(t.tearDown) ELSE Glance(t.tearDown)]
  BY DEF ShouldReach, UpTo, Where, Until, Glance, Stopping, Looking
<1> HIDE DEF u
<1>3. ASSUME u \in Nat
      PROVE  /\ Min({u, Len(t.setUp)}) = IF u <= Len(t.setUp) THEN u ELSE Len(t.setUp)
             /\ Max({u - Len(t.setUp), 0})
                  = IF u >= Len(t.setUp) THEN u - Len(t.setUp) ELSE 0
  <2>1. Min({u, Len(t.setUp)}) = IF u <= Len(t.setUp) THEN u ELSE Len(t.setUp)
    BY <1>1, <1>3, OfTwo
  <2>2. u - Len(t.setUp) \in Int /\ 0 \in Int /\ (u - Len(t.setUp) >= 0 <=> u >= Len(t.setUp))
    BY <1>1, <1>3
  <2>3. Max({u - Len(t.setUp), 0}) = IF u - Len(t.setUp) >= 0 THEN u - Len(t.setUp) ELSE 0
    BY ONLY <2>2, OfTwo
  <2>4. QED
    BY <2>1, <2>2, <2>3
<1>4. QED
  BY <1>2, <1>3 DEF u

LEMMA ProtectedTyped ==
  ASSUME NEW t \in Test
  PROVE  /\ t.setUp \in Seq(Statements) /\ t.body \in Seq(Statements)
         /\ t.tearDown \in Seq(Statements)
         /\ Protected(t) \in Seq(Statements)
         /\ Len(t.setUp) \in Nat /\ Len(t.body) \in Nat /\ Len(t.tearDown) \in Nat
         /\ Len(Protected(t)) = Len(t.setUp) + Len(t.body)
         /\ \A i \in 1 .. Len(Protected(t)) :
               Protected(t)[i] = IF i <= Len(t.setUp) THEN t.setUp[i]
                                                      ELSE t.body[i - Len(t.setUp)]
<1>1. t.setUp \in Seq(Statements) /\ t.body \in Seq(Statements) /\ t.tearDown \in Seq(Statements)
  BY DEF Test
<1>2. QED
  BY <1>1, ConcatProperties, LenProperties DEF Protected

\* The assertion functions judge the calls of the test programs as the macros mean.
JudgesRight == \A s \in Statements :
                  s.op = "ASSERT" => (Judge(s.call) = Passed <=> Holds(s.call))

--------------------------------------------------------------------------------
(***************************************************************************)
(* What a statement does to the test it stands in: five ways.              *)
(***************************************************************************)
Bare == Statement.op = "FAIL" /\ ~Statement.message

Returns == /\ Return /\ UNCHANGED flags
           /\ ~Stops(Statement) /\ (FailOrIgnore => ~Looks(Statement))
           /\ output' = output \/ PrintsOnly("INFO")
Passes  == /\ TEST_ABORT /\ UNCHANGED <<flags, output>>
           /\ Statement.op = "PASS"
Again   == /\ FailOrIgnore /\ TEST_ABORT /\ UNCHANGED <<flags, output>>
           /\ Looks(Statement)
Fails   == /\ ~FailOrIgnore /\ TEST_ABORT
           /\ CurrentTestFailed' = TRUE /\ CurrentTestIgnored' = CurrentTestIgnored
           /\ Stops(Statement) /\ Statement.op \notin {"PASS", "IGNORE"}
           /\ Prints("FAIL", IF Statement.op = "ASSERT" THEN Judge(Statement.call) ELSE Failure,
                     IF Bare THEN {} ELSE CurrentDetail)
Ignores == /\ ~FailOrIgnore /\ TEST_ABORT
           /\ CurrentTestFailed' = CurrentTestFailed /\ CurrentTestIgnored' = TRUE
           /\ Statement.op = "IGNORE"
           /\ PrintsOnly("IGNORE")

Effect == /\ Returns \/ Passes \/ Again \/ Fails \/ Ignores
          /\ CurrentDetail' = IF Statement.op = "SET_DETAILS" THEN Statement.detail
                                                              ELSE CurrentDetail

Effective == phase \in Scripts /\ reached[phase] < Len(Script) /\ Effect

LEMMA StatementsHaveEffect ==
  ASSUME JudgesRight, UnityTypeOK, UnityStep, ~Leave
  PROVE  Effective
<1>a. ASSUME NEW op, At(op)
      PROVE  /\ phase \in Scripts /\ reached[phase] < Len(Script)
             /\ Statement \in Statements /\ Statement.op = op
  BY <1>a, StatementTyped DEF At
<1>b. ASSUME AbortAgain, Looks(Statement), Statement.op # "SET_DETAILS"
      PROVE  Effect
  BY <1>b DEF AbortAgain, Effect, Again
<1>c. ASSUME FailAndBail(IF Statement.op = "ASSERT" THEN Judge(Statement.call) ELSE Failure,
                         IF Bare THEN {} ELSE CurrentDetail),
             Stops(Statement), Statement.op \notin {"PASS", "IGNORE", "SET_DETAILS"}
      PROVE  Effect
  BY <1>c DEF FailAndBail, Effect, Fails
<1>1. CASE Work
  BY <1>1, <1>a DEF Work, Effective, Effect, Returns, Stops, Looks
<1>2. CASE SetDetails
  BY <1>2, <1>a DEF SetDetails, Effective, Effect, Returns, Stops, Looks
<1>3. CASE UnityMessage
  BY <1>3, <1>a DEF UnityMessage, Effective, Effect, Returns, Stops, Looks
<1>4. CASE TestPass
  BY <1>4, <1>a DEF TestPass, Effective, Effect, Passes
<1>5. CASE UnityFail
  <2>1. At("FAIL") /\ Statement \in Statements /\ Statement.op = "FAIL"
    BY <1>5, <1>a DEF UnityFail
  <2>2. Stops(Statement) /\ Looks(Statement)
    BY <2>1 DEF Stops, Looks
  <2>3. (IF Statement.message THEN CurrentDetail ELSE {}) = IF Bare THEN {} ELSE CurrentDetail
    BY <2>1 DEF Bare
  <2>4. (IF Statement.op = "ASSERT" THEN Judge(Statement.call) ELSE Failure) = Failure
    BY <2>1
  <2>5. Effect
    <3>1. CASE AbortAgain
      BY <1>b, <2>1, <2>2, <3>1
    <3>2. CASE FailAndBail(Failure, IF Statement.message THEN CurrentDetail ELSE {})
      <4>1. FailAndBail(IF Statement.op = "ASSERT" THEN Judge(Statement.call) ELSE Failure,
                        IF Bare THEN {} ELSE CurrentDetail)
        BY <2>3, <2>4, <3>2
      <4>2. QED
        BY <1>c, <2>1, <2>2, <4>1
    <3>3. QED
      BY <1>5, <3>1, <3>2 DEF UnityFail
  <2>6. QED
    BY <1>a, <2>1, <2>5 DEF Effective
<1>6. CASE UnityIgnore
  <2>1. At("IGNORE") /\ Statement \in Statements /\ Statement.op = "IGNORE"
    BY <1>6, <1>a DEF UnityIgnore
  <2>2. Looks(Statement)
    BY <2>1 DEF Stops, Looks
  <2>3. Effect
    <3>1. CASE AbortAgain
      BY <1>b, <2>1, <2>2, <3>1
    <3>2. CASE ~AbortAgain
      BY <1>6, <2>1, <3>2 DEF UnityIgnore, Effect, Ignores
    <3>3. QED
      BY <3>1, <3>2
  <2>4. QED
    BY <1>a, <2>1, <2>3 DEF Effective
<1>7. CASE TestAssert
  <2>1. At("CONDITION") /\ Statement \in Statements /\ Statement.op = "CONDITION"
    BY <1>7, <1>a DEF TestAssert
  <2>2. CASE Statement.true
    BY <1>7, <1>a, <2>1, <2>2
       DEF TestAssert, Effective, Effect, Returns, Stops, Looks
  <2>3. CASE ~Statement.true
    <3>1. Stops(Statement) /\ Looks(Statement)
      BY <2>1, <2>3 DEF Stops, Looks
    <3>2. CurrentDetail = (IF Bare THEN {} ELSE CurrentDetail)
      BY <2>1 DEF Bare
    <3>3. (IF Statement.op = "ASSERT" THEN Judge(Statement.call) ELSE Failure) = Failure
      BY <2>1
    <3>4. Effect
      <4>1. CASE AbortAgain
        BY <1>b, <2>1, <3>1, <4>1
      <4>2. CASE FailAndBail(Failure, CurrentDetail)
        <5>1. FailAndBail(IF Statement.op = "ASSERT" THEN Judge(Statement.call) ELSE Failure,
                          IF Bare THEN {} ELSE CurrentDetail)
          BY <3>2, <3>3, <4>2
        <5>2. QED
          BY <1>c, <2>1, <3>1, <5>1
      <4>3. QED
        BY <1>7, <2>3, <4>1, <4>2 DEF TestAssert
    <3>5. QED
      BY <1>a, <2>1, <3>4 DEF Effective
  <2>4. QED
    BY <2>2, <2>3
<1>8. CASE UnityAssert
  <2>1. At("ASSERT") /\ Statement \in Statements /\ Statement.op = "ASSERT"
    BY <1>8, <1>a DEF UnityAssert
  <2>2. Judge(Statement.call) = Passed <=> Holds(Statement.call)
    BY <2>1 DEF JudgesRight
  <2>3. Looks(Statement) /\ (Stops(Statement) <=> Judge(Statement.call) # Passed)
    BY <2>1, <2>2 DEF Stops, Looks
  <2>4. Effect
    <3>1. CASE AbortAgain
      BY <1>b, <2>1, <2>3, <3>1
    <3>2. CASE /\ ~FailOrIgnore /\ Judge(Statement.call) = Passed
               /\ Return /\ UNCHANGED <<flags, CurrentDetail, output>>
      BY <2>1, <2>3, <3>2 DEF Effect, Returns
    <3>3. CASE /\ Judge(Statement.call) # Passed
               /\ FailAndBail(Judge(Statement.call), CurrentDetail)
      <4>1. /\ CurrentDetail = (IF Bare THEN {} ELSE CurrentDetail)
            /\ (IF Statement.op = "ASSERT" THEN Judge(Statement.call) ELSE Failure)
                  = Judge(Statement.call)
        BY <2>1 DEF Bare
      <4>2. FailAndBail(IF Statement.op = "ASSERT" THEN Judge(Statement.call) ELSE Failure,
                        IF Bare THEN {} ELSE CurrentDetail)
        BY <3>3, <4>1
      <4>3. QED
        BY <1>c, <2>1, <2>3, <3>3, <4>2
    <3>4. QED
      BY <1>8, <3>1, <3>2, <3>3 DEF UnityAssert
  <2>5. QED
    BY <1>a, <2>1, <2>4 DEF Effective
<1>9. QED
  BY <1>1, <1>2, <1>3, <1>4, <1>5, <1>6, <1>7, <1>8 DEF UnityStep

--------------------------------------------------------------------------------
LEMMA CurrentTyped ==
  ASSUME UnityTypeOK, InTest
  PROVE  CurrentTest \in Test /\ reached \in [Scripts -> Nat]
<1>1. suite \in Seq(Test) /\ NumberOfTests \in 1 .. Len(suite)
  BY TestTyped, SuitesAssumption DEF UnityTypeOK
<1>2. QED
  BY <1>1, ElementOfSeq DEF CurrentTest, UnityTypeOK

\* In setUp and the test function the next statement is the next of the two together.
LEMMA NextProtected ==
  ASSUME UnityTypeOK, phase \in {"setUp", "body"}, InProtected
  PROVE  /\ Went \in Nat /\ Went <= Len(Part)
         /\ reached[phase] < Len(Script) =>
               Went + 1 \in 1 .. Len(Part) /\ Part[Went + 1] = Statement
<1> DEFINE t == CurrentTest
<1>1. InTest
  BY DEF InTest, Scripts
<1>2. t \in Test /\ reached \in [Scripts -> Nat]
      /\ \A s \in Scripts : reached[s] <= Len(t[s])
  BY <1>1, CurrentTyped DEF UnityTypeOK, InTest
<1>3. /\ Len(t.setUp) \in Nat /\ Len(t.body) \in Nat
      /\ Len(Part) = Len(t.setUp) + Len(t.body)
      /\ \A i \in 1 .. Len(Part) : Part[i] = IF i <= Len(t.setUp) THEN t.setUp[i]
                                             ELSE t.body[i - Len(t.setUp)]
  BY <1>2, ProtectedTyped DEF Part
<1>4. PICK a, b, m, n : /\ a = reached["setUp"] /\ b = reached["body"]
                          /\ m = Len(t.setUp) /\ n = Len(t.body)
  OBVIOUS
<1>5. a \in Nat /\ b \in Nat /\ m \in Nat /\ n \in Nat /\ a <= m /\ b <= n
  BY <1>2, <1>3, <1>4 DEF Scripts
<1>6. Went = a + b /\ Len(Part) = m + n
  BY <1>3, <1>4 DEF Went
<1>7. Went \in Nat /\ Went <= Len(Part)
  BY ONLY <1>5, <1>6
<1>8. ASSUME reached[phase] < Len(Script)
      PROVE  Went + 1 \in 1 .. Len(Part) /\ Part[Went + 1] = Statement
  <2>1. CASE phase = "setUp"
    <3>1. b = 0 /\ a < m /\ Statement = t.setUp[a + 1]
      BY <1>4, <1>8, <2>1 DEF InProtected, Script, Statement
    <3>2. Went + 1 \in 1 .. Len(Part) /\ Went + 1 <= m /\ Went + 1 = a + 1
      BY ONLY <1>5, <1>6, <3>1
    <3>3. Part[Went + 1] = t.setUp[Went + 1]
      BY <1>3, <1>4, <3>2
    <3>4. QED
      BY <3>1, <3>2, <3>3
  <2>2. CASE phase = "body"
    <3>1. a = m /\ b < n /\ Statement = t.body[b + 1]
      BY <1>4, <1>8, <2>2 DEF InProtected, Script, Statement
    <3>2. Went + 1 \in 1 .. Len(Part) /\ ~(Went + 1 <= m) /\ Went + 1 - m = b + 1
      BY ONLY <1>5, <1>6, <3>1
    <3>3. Part[Went + 1] = t.body[Went + 1 - m]
      <4>1. PICK w : w = Went + 1
        OBVIOUS
      <4>2. w \in 1 .. Len(Part) /\ ~(w <= m)
        BY <3>2, <4>1
      <4>3. Part[w] = t.body[w - m]
        BY <1>3, <1>4, <4>2
      <4>4. QED
        BY <1>5, <1>7, <4>1, <4>3
    <3>4. QED
      BY <3>1, <3>2, <3>3
  <2>3. QED
    BY <2>1, <2>2
<1>9. QED
  BY <1>7, <1>8

LEMMA ProgressOfStatements ==
  ASSUME UnityTypeOK, Progress, Effective
  PROVE  Progress'
<1>1. PICK t : t = CurrentTest
  OBVIOUS
<1>2. PICK P : P = Part
  OBVIOUS
<1>3. InTest /\ t \in Test /\ reached \in [Scripts -> Nat] /\ P = Protected(t)
  BY <1>1, <1>2, CurrentTyped DEF Effective, InTest, Part
<1>4. /\ t.tearDown \in Seq(Statements) /\ P \in Seq(Statements)
      /\ Len(t.setUp) \in Nat /\ Len(t.tearDown) \in Nat
  BY <1>3, ProtectedTyped
<1>5. /\ reached["setUp"] \in Nat /\ reached["body"] \in Nat /\ reached["tearDown"] \in Nat
  BY <1>3 DEF Scripts
<1>6. /\ reached' = [reached EXCEPT ![phase] = reached[phase] + 1]
      /\ suite' = suite /\ NumberOfTests' = NumberOfTests
      /\ phase' = phase \/ TEST_ABORT
  BY DEF Effective, Effect, Returns, Passes, Again, Fails, Ignores, Return, TEST_ABORT,
         Begun, counters
<1>7. CurrentTest' = t /\ Part' = P
  BY <1>1, <1>2, <1>6 DEF CurrentTest, Part
<1>8. CASE phase \in {"setUp", "body"}
  <2>0. InProtected
    BY <1>8 DEF Progress
  <2>1. PICK k : k = Went
    OBVIOUS
  <2>2. k \in Nat /\ k + 1 \in 1 .. Len(P) /\ P[k + 1] = Statement
    BY <1>2, <1>8, <2>0, <2>1, NextProtected DEF Effective
  <2>3. /\ \A i \in 1 .. k : ~Stops(P[i])
        /\ ~CurrentTestFailed /\ ~CurrentTestIgnored /\ ~FailOrIgnore
    BY <1>2, <2>0, <2>1 DEF InProtected, FailOrIgnore
  <2>4. /\ reached'["tearDown"] = 0
        /\ reached'["setUp"] = IF phase = "setUp" THEN k + 1 ELSE Len(t.setUp)
        /\ reached'["body"] = IF phase = "setUp" THEN 0 ELSE k - Len(t.setUp) + 1
        /\ phase # "setUp" => k >= Len(t.setUp)
        /\ phase = "setUp" => k < Len(t.setUp)
    <3>1. CASE phase = "setUp"
      <4>1. /\ reached["tearDown"] = 0 /\ reached["body"] = 0 /\ k = reached["setUp"]
            /\ k < Len(t.setUp)
        BY <1>1, <1>5, <2>0, <2>1, <3>1 DEF InProtected, Went, Effective, Script
      <4>2. QED
        BY <1>3, <1>6, <3>1, <4>1 DEF Scripts
    <3>2. CASE phase = "body"
      <4>1. /\ reached["tearDown"] = 0 /\ reached["setUp"] = Len(t.setUp)
            /\ k = Len(t.setUp) + reached["body"]
        BY <1>1, <2>0, <2>1, <3>2 DEF InProtected, Went
      <4>2. /\ reached'["tearDown"] = reached["tearDown"] /\ reached'["setUp"] = reached["setUp"]
            /\ reached'["body"] = reached["body"] + 1
        BY <1>3, <1>6, <3>2 DEF Scripts
      <4>3. reached["body"] + 1 = k - Len(t.setUp) + 1 /\ k >= Len(t.setUp)
        BY <1>4, <1>5, <4>1
      <4>4. QED
        BY <3>2, <4>1, <4>2, <4>3
    <3>3. QED
      BY <1>8, <3>1, <3>2
  <2>5. CASE Returns
    <3>1. /\ phase' = phase
          /\ CurrentTestFailed' = CurrentTestFailed /\ CurrentTestIgnored' = CurrentTestIgnored
          /\ ~Stops(P[k + 1])
      BY <2>2, <2>5 DEF Returns, Return, flags
    <3>2. Went' = k + 1
      BY <1>4, <2>2, <2>4 DEF Went
    <3>3. \A i \in 1 .. k + 1 : ~Stops(P[i])
      <4>1. \A i \in 1 .. k + 1 : i = k + 1 \/ i \in 1 .. k
        BY <2>2
      <4>2. QED
        BY <2>3, <3>1, <4>1
    <3>4. InProtected'
      BY <1>7, <2>3, <2>4, <3>1, <3>2, <3>3 DEF InProtected, FailOrIgnore
    <3>5. QED
      BY <1>8, <3>1, <3>4 DEF Progress
  <2>6. CASE Passes \/ Fails \/ Ignores
    <3>1. phase' = "tearDown" /\ Stops(P[k + 1])
      BY <1>8, <2>2, <2>6 DEF Passes, Fails, Ignores, TEST_ABORT, Stops
    <3>2. /\ Until(P) = k + 1
          /\ VerdictOf(P) = IF P[k + 1].op = "PASS" THEN "PASS"
                            ELSE IF P[k + 1].op = "IGNORE" THEN "IGNORE" ELSE "FAIL"
      <4>1. k + 1 - 1 = k
        BY <2>2
      <4>2. QED
        BY <1>4, <2>2, <2>3, <3>1, <4>1, SomethingStops
    <3>3. /\ CurrentTestFailed' <=> Statement.op \notin {"PASS", "IGNORE"}
          /\ CurrentTestIgnored' <=> Statement.op = "IGNORE"
      BY <2>3, <2>6 DEF Passes, Fails, Ignores, flags
    <3>4. Flags(VerdictOf(P))'
      BY <2>2, <3>2, <3>3 DEF Flags
    <3>5. /\ ShouldReach(t).setUp = IF k + 1 <= Len(t.setUp) THEN k + 1 ELSE Len(t.setUp)
          /\ ShouldReach(t).body = IF k + 1 >= Len(t.setUp) THEN k + 1 - Len(t.setUp) ELSE 0
      <4>1. PICK u : u = Until(Protected(t))
        OBVIOUS
      <4>2. u = k + 1 /\ u \in Nat
        BY <1>3, <2>2, <3>2, <4>1
      <4>3. /\ ShouldReach(t).setUp = IF u <= Len(t.setUp) THEN u ELSE Len(t.setUp)
            /\ ShouldReach(t).body = IF u >= Len(t.setUp) THEN u - Len(t.setUp) ELSE 0
        BY <1>3, <4>1, <4>2, ShouldReachTyped
      <4>4. QED
        BY <1>4, <2>2, <4>2, <4>3
    <3>6. /\ reached'["setUp"] = ShouldReach(t).setUp
          /\ reached'["body"] = ShouldReach(t).body
      <4>1. PICK m : m = Len(t.setUp)
        OBVIOUS
      <4>2. /\ phase # "setUp" => k + 1 >= m /\ k + 1 - m = k - m + 1
                                  /\ (k + 1 <= m => k + 1 = m)
            /\ phase = "setUp" => k + 1 <= m /\ (k + 1 >= m => k + 1 - m = 0)
        BY <1>4, <2>2, <2>4, <4>1
      <4>3. CASE phase = "setUp"
        BY <2>4, <3>5, <4>1, <4>2, <4>3
      <4>4. CASE phase # "setUp"
        BY <2>4, <3>5, <4>1, <4>2, <4>4
      <4>5. QED
        BY <4>3, <4>4
    <3>7. LeftProtected'
      BY <1>7, <3>6 DEF LeftProtected
    <3>8. InTearDownOf'
      BY <1>7, <2>4, <3>4 DEF InTearDownOf
    <3>9. QED
      BY <3>1, <3>7, <3>8 DEF Progress
  <2>7. QED
    BY <2>3, <2>5, <2>6 DEF Effective, Effect, Again
<1>9. CASE phase = "tearDown"
  <2>1. PICK j : j = reached["tearDown"]
    OBVIOUS
  <2>2. /\ LeftProtected /\ Flags(VerdictOf(P))
        /\ \A i \in 1 .. j : IF VerdictOf(P) = "PASS" THEN ~Stops(t.tearDown[i])
                                                      ELSE ~Looks(t.tearDown[i])
    BY <1>1, <1>2, <1>9, <2>1 DEF Progress, InTearDownOf
  <2>3. /\ j \in Nat /\ j + 1 \in 1 .. Len(t.tearDown) /\ t.tearDown[j + 1] = Statement
    BY <1>1, <1>4, <1>5, <1>9, <2>1 DEF Effective, Script, Statement
  <2>4. /\ reached'["setUp"] = reached["setUp"] /\ reached'["body"] = reached["body"]
        /\ reached'["tearDown"] = j + 1
    BY <1>3, <1>6, <1>9, <2>1 DEF Scripts
  <2>5. LeftProtected'
    BY <1>1, <1>7, <2>2, <2>4 DEF LeftProtected
  <2>6. FailOrIgnore <=> VerdictOf(P) # "PASS"
    BY <2>2, VerdictTyped DEF Flags, FailOrIgnore, Verdicts
  <2>7. CASE Returns
    <3>1. /\ phase' = phase
          /\ CurrentTestFailed' = CurrentTestFailed /\ CurrentTestIgnored' = CurrentTestIgnored
          /\ ~Stops(t.tearDown[j + 1]) /\ (FailOrIgnore => ~Looks(t.tearDown[j + 1]))
      BY <2>3, <2>7 DEF Returns, Return, flags
    <3>2. \A i \in 1 .. j + 1 : i = j + 1 \/ i \in 1 .. j
      BY <2>3
    <3>3. \A i \in 1 .. j + 1 : IF VerdictOf(P) = "PASS" THEN ~Stops(t.tearDown[i])
                                                         ELSE ~Looks(t.tearDown[i])
      BY <2>2, <2>6, <3>1, <3>2
    <3>4. Flags(VerdictOf(P))'
      BY <2>2, <3>1 DEF Flags
    <3>5. InTearDownOf'
      BY <1>7, <2>4, <3>3, <3>4 DEF InTearDownOf
    <3>6. QED
      BY <1>9, <2>5, <3>1, <3>5 DEF Progress
  <2>8. CASE ~Returns
    <3>1. phase' = "conclude" /\ Looks(t.tearDown[j + 1])
          /\ (FailOrIgnore \/ Stops(t.tearDown[j + 1]))
      BY <1>9, <2>3, <2>8 DEF Effective, Effect, Passes, Again, Fails, Ignores, TEST_ABORT, Looks, Stops
    <3>2. j + 1 - 1 = j
      BY <2>3
    <3>3. ShouldReach(t).tearDown = IF VerdictOf(P) = "PASS" THEN Until(t.tearDown)
                                                             ELSE Glance(t.tearDown)
      BY <1>3, ShouldReachTyped
    <3>4. CASE VerdictOf(P) = "PASS"
      <4>1. /\ Until(t.tearDown) = j + 1
            /\ VerdictOf(t.tearDown) = IF Statement.op = "PASS" THEN "PASS"
                                       ELSE IF Statement.op = "IGNORE" THEN "IGNORE" ELSE "FAIL"
        BY <1>4, <2>2, <2>3, <2>6, <3>1, <3>2, <3>4, SomethingStops
      <4>2. /\ CurrentTestFailed' <=> Statement.op \notin {"PASS", "IGNORE"}
            /\ CurrentTestIgnored' <=> Statement.op = "IGNORE"
        BY <2>6, <2>8, <3>4
           DEF Effective, Effect, Passes, Again, Fails, Ignores, flags, FailOrIgnore
      <4>3. Verdict(t) = VerdictOf(t.tearDown)
        BY <1>3, <3>4 DEF Verdict
      <4>4. Flags(Verdict(t))'
        BY <4>1, <4>2, <4>3 DEF Flags
      <4>5. AtItsEnd'
        BY <1>7, <2>4, <3>3, <3>4, <4>1, <4>4 DEF AtItsEnd
      <4>6. QED
        BY <2>5, <3>1, <4>5 DEF Progress
    <3>5. CASE VerdictOf(P) # "PASS"
      <4>1. Glance(t.tearDown) = j + 1
        BY <1>4, <2>2, <2>3, <3>1, <3>2, <3>5, SomethingLooks
      <4>2. CurrentTestFailed' = CurrentTestFailed /\ CurrentTestIgnored' = CurrentTestIgnored
        BY <2>6, <2>8, <3>5 DEF Effective, Effect, Passes, Again, Fails, Ignores, flags
      <4>3. Verdict(t) = VerdictOf(P)
        BY <1>3, <3>5 DEF Verdict
      <4>4. Flags(Verdict(t))'
        BY <2>2, <4>2, <4>3 DEF Flags
      <4>5. AtItsEnd'
        BY <1>7, <2>4, <3>3, <3>5, <4>1, <4>4 DEF AtItsEnd
      <4>6. QED
        BY <2>5, <3>1, <4>5 DEF Progress
    <3>6. QED
      BY <3>4, <3>5
  <2>9. QED
    BY <2>7, <2>8
<1>10. QED
  BY <1>8, <1>9 DEF Effective, Scripts

LEMMA ProgressOfLeave ==
  ASSUME UnityTypeOK, Progress, Leave
  PROVE  Progress'
<1>1. PICK t : t = CurrentTest
  OBVIOUS
<1>2. PICK P : P = Part
  OBVIOUS
<1>3. /\ phase \in Scripts /\ reached[phase] = Len(Script)
      /\ phase' = CASE phase = "setUp" -> "body"
                    [] phase = "body"  -> "tearDown"
                    [] phase = "tearDown" -> "conclude"
      /\ suite' = suite /\ reached' = reached /\ NumberOfTests' = NumberOfTests
      /\ CurrentTestFailed' = CurrentTestFailed /\ CurrentTestIgnored' = CurrentTestIgnored
  BY DEF Leave, counters, flags
<1>4. InTest /\ t \in Test /\ reached \in [Scripts -> Nat] /\ P = Protected(t)
  BY <1>1, <1>2, <1>3, CurrentTyped DEF InTest, Part
<1>5. /\ t.tearDown \in Seq(Statements) /\ P \in Seq(Statements)
      /\ Len(t.setUp) \in Nat /\ Len(t.body) \in Nat /\ Len(t.tearDown) \in Nat
      /\ Len(P) = Len(t.setUp) + Len(t.body)
  BY <1>4, ProtectedTyped
<1>6. CurrentTest' = t /\ Part' = P /\ Went' = Went
  BY <1>1, <1>2, <1>3 DEF CurrentTest, Part, Went
<1>7. CASE phase = "setUp"
  <2>1. /\ InProtected /\ reached["setUp"] = Len(t.setUp) /\ phase' = "body"
        /\ reached["body"] = 0 /\ reached["tearDown"] = 0
    BY <1>1, <1>3, <1>7 DEF Progress, InProtected, Script
  <2>2. InProtected'
    BY <1>1, <1>2, <1>3, <1>6, <2>1 DEF InProtected, FailOrIgnore
  <2>3. QED
    BY <2>1, <2>2 DEF Progress
<1>8. CASE phase = "body"
  <2>1. /\ InProtected /\ reached["body"] = Len(t.body) /\ phase' = "tearDown"
        /\ reached["setUp"] = Len(t.setUp) /\ reached["tearDown"] = 0
        /\ ~CurrentTestFailed /\ ~CurrentTestIgnored
    BY <1>1, <1>3, <1>8 DEF Progress, InProtected, Script, FailOrIgnore
  <2>2. \A i \in 1 .. Len(P) : ~Stops(P[i])
    BY <1>2, <1>5, <2>1 DEF InProtected, Went
  <2>3. Until(P) = Len(P) /\ VerdictOf(P) = "PASS" /\ Len(P) \in Nat
    BY <1>5, <2>2, NothingStops, LenProperties
  <2>4. /\ ShouldReach(t).setUp = IF Len(P) <= Len(t.setUp) THEN Len(P) ELSE Len(t.setUp)
        /\ ShouldReach(t).body = IF Len(P) >= Len(t.setUp) THEN Len(P) - Len(t.setUp) ELSE 0
    BY <1>4, <2>3, ShouldReachTyped
  <2>5. reached["setUp"] = ShouldReach(t).setUp /\ reached["body"] = ShouldReach(t).body
    <3>1. PICK m, n, q : m = Len(t.setUp) /\ n = Len(t.body) /\ q = Len(P)
      OBVIOUS
    <3>2. m \in Nat /\ n \in Nat /\ q = m + n
      BY <1>5, <3>1
    <3>3. q >= m /\ q - m = n /\ (q <= m => q = m)
      BY ONLY <3>2
    <3>4. QED
      BY <2>1, <2>4, <3>1, <3>3
  <2>6. LeftProtected'
    BY <1>3, <1>6, <2>5 DEF LeftProtected
  <2>7. InTearDownOf'
    BY <1>3, <1>6, <2>1, <2>3 DEF InTearDownOf, Flags
  <2>8. QED
    BY <2>1, <2>6, <2>7 DEF Progress
<1>9. CASE phase = "tearDown"
  <2>1. /\ LeftProtected /\ reached["tearDown"] = Len(t.tearDown) /\ phase' = "conclude"
        /\ Flags(VerdictOf(P))
        /\ \A i \in 1 .. Len(t.tearDown) : IF VerdictOf(P) = "PASS" THEN ~Stops(t.tearDown[i])
                                                                    ELSE ~Looks(t.tearDown[i])
    BY <1>1, <1>2, <1>3, <1>9 DEF Progress, InTearDownOf, Script
  <2>2. LeftProtected'
    BY <1>1, <1>3, <1>6, <2>1 DEF LeftProtected
  <2>3. ShouldReach(t).tearDown = IF VerdictOf(P) = "PASS" THEN Until(t.tearDown)
                                                           ELSE Glance(t.tearDown)
    BY <1>4, ShouldReachTyped
  <2>4. ShouldReach(t).tearDown = Len(t.tearDown) /\ Verdict(t) = VerdictOf(P)
    <3>1. CASE VerdictOf(P) = "PASS"
      <4>1. Until(t.tearDown) = Len(t.tearDown) /\ VerdictOf(t.tearDown) = "PASS"
        BY <1>5, <2>1, <3>1, NothingStops
      <4>2. QED
        BY <1>4, <2>3, <3>1, <4>1 DEF Verdict
    <3>2. CASE VerdictOf(P) # "PASS"
      <4>1. Glance(t.tearDown) = Len(t.tearDown)
        BY <1>5, <2>1, <3>2, NothingLooks
      <4>2. QED
        BY <1>4, <2>3, <3>2, <4>1 DEF Verdict
    <3>3. QED
      BY <3>1, <3>2
  <2>5. Flags(Verdict(t))'
    BY <1>3, <2>1, <2>4 DEF Flags
  <2>6. AtItsEnd'
    BY <1>3, <1>6, <2>1, <2>4, <2>5 DEF AtItsEnd
  <2>7. QED
    BY <2>1, <2>2, <2>6 DEF Progress
<1>10. QED
  BY <1>3, <1>7, <1>8, <1>9 DEF Scripts

LEMMA ProgressOfStep ==
  ASSUME JudgesRight, UnityInv, Progress, [UnityNext]_unityVars
  PROVE  Progress'
<1>1. CASE UnityBegin \/ UnityConcludeTest \/ UnityEnd
  BY <1>1 DEF UnityBegin, UnityConcludeTest, Conclude, UnityEnd, Progress
<1>2. CASE UnityDefaultTestRun
  <2>1. /\ phase = "main" /\ phase' = "setUp" /\ reached' = [s \in Scripts |-> 0]
        /\ CurrentTestFailed' = CurrentTestFailed /\ CurrentTestIgnored' = CurrentTestIgnored
    BY <1>2 DEF UnityDefaultTestRun, flags
  <2>2. ~CurrentTestFailed' /\ ~CurrentTestIgnored'
    BY <2>1 DEF UnityInv, Counted, InTest, Scripts
  <2>3. reached'["setUp"] = 0 /\ reached'["body"] = 0 /\ reached'["tearDown"] = 0
    BY <2>1 DEF Scripts
  <2>4. InProtected'
    <3>1. Went' = 0
      BY <2>3 DEF Went
    <3>2. QED
      BY <2>1, <2>2, <2>3, <3>1 DEF InProtected, FailOrIgnore
  <2>5. QED
    BY <2>1, <2>4 DEF Progress
<1>3. CASE UnityStep
  <2>1. CASE Leave
    BY <2>1, ProgressOfLeave DEF UnityInv
  <2>2. CASE ~Leave
    BY <1>3, <2>2, StatementsHaveEffect, ProgressOfStatements DEF UnityInv
  <2>3. QED
    BY <2>1, <2>2
<1>4. CASE UNCHANGED unityVars
  BY <1>4 DEF unityVars, counters, flags, Progress, InProtected, Went, Part, CurrentTest,
     FailOrIgnore, LeftProtected, InTearDownOf, AtItsEnd, Flags
<1>5. QED
  BY <1>1, <1>2, <1>3, <1>4 DEF UnityNext

\* What is printed is printed about the current test.
LEMMA PieceShown ==
  ASSUME UnityTypeOK, NEW what \in Verdicts \cup {"INFO"},
         NEW report \in Reports, NEW detail \in Details \cup {{}},
         Prints(what, report, detail)
  PROVE  \E piece \in Piece : /\ piece.what = what /\ piece.test = NumberOfTests
                              /\ piece.report = report /\ piece.detail = detail
                              /\ output' = Append(output, piece)
<1> DEFINE p == [what |-> what, test |-> NumberOfTests, report |-> report, detail |-> detail]
<1>1. NumberOfTests \in Nat
  BY SuitesAssumption, LenProperties DEF UnityTypeOK
<1>2. p \in Piece /\ p.what = what /\ p.test = NumberOfTests /\ p.report = report
      /\ p.detail = detail
  BY <1>1 DEF Piece
<1>3. output' = Append(output, p)
  BY DEF Prints
<1>4. QED
  BY <1>2, <1>3

Shows(piece) ==
    /\ piece.test = NumberOfTests /\ output' = Append(output, piece)
    /\ \/ piece.what = "INFO" /\ UNCHANGED flags
       \/ /\ piece.what = "FAIL" /\ Fails
          /\ piece.detail = IF Bare THEN {} ELSE CurrentDetail
          /\ Statement.op = "ASSERT" => piece.report = Judge(Statement.call)
       \/ piece.what = "IGNORE" /\ Ignores

LEMMA OutputOfStatements ==
  ASSUME UnityTypeOK, Effective
  PROVE  \/ output' = output /\ UNCHANGED flags
         \/ \E piece \in Piece : Shows(piece)
<1>1. Passed \in Reports /\ Failure \in Reports
  BY DEF Reports
<1>2. CurrentDetail \in Details \cup {{}}
  BY DEF UnityTypeOK
<1>3. CASE Returns
  <2>1. CASE output' = output
    BY <1>3, <2>1 DEF Returns
  <2>2. CASE PrintsOnly("INFO")
    <3>1. PICK piece \in Piece : /\ piece.what = "INFO" /\ piece.test = NumberOfTests
                                 /\ output' = Append(output, piece)
      BY <1>1, <2>2, PieceShown DEF PrintsOnly
    <3>2. QED
      BY <1>3, <3>1 DEF Returns, Shows
  <2>3. QED
    BY <1>3, <2>1, <2>2 DEF Returns
<1>4. CASE Passes \/ Again
  BY <1>4 DEF Passes, Again
<1>5. CASE Fails
  <2> DEFINE report == IF Statement.op = "ASSERT" THEN Judge(Statement.call) ELSE Failure
             detail == IF Bare THEN {} ELSE CurrentDetail
  <2>1. At(Statement.op)
    BY DEF Effective, At
  <2>2. Statement \in Statements
    BY <2>1, StatementTyped
  <2>3. report \in Reports
    BY <1>1, <2>2 DEF Reports
  <2>4. detail \in Details \cup {{}}
    BY <1>2
  <2>5. Prints("FAIL", report, detail)
    BY <1>5 DEF Fails
  <2> HIDE DEF report, detail
  <2>6. PICK piece \in Piece : /\ piece.what = "FAIL" /\ piece.test = NumberOfTests
                               /\ piece.report = report /\ piece.detail = detail
                               /\ output' = Append(output, piece)
    BY <2>3, <2>4, <2>5, PieceShown DEF Verdicts
  <2>7. Shows(piece)
    BY <1>5, <2>6 DEF Shows, report, detail
  <2>8. QED
    BY <2>7
<1>6. CASE Ignores
  <2>1. PICK piece \in Piece : /\ piece.what = "IGNORE" /\ piece.test = NumberOfTests
                               /\ output' = Append(output, piece)
    BY <1>1, <1>6, PieceShown DEF Ignores, PrintsOnly, Verdicts
  <2>2. Shows(piece)
    BY <1>6, <2>1 DEF Shows
  <2>3. QED
    BY <2>2
<1>7. QED
  BY <1>3, <1>4, <1>5, <1>6 DEF Effective, Effect

LEMMA OneMoreTold ==
  ASSUME NEW printed \in Seq(Piece), NEW piece \in Piece
  PROVE  /\ \A n, v : ToldIn(Append(printed, piece), n, v) <=>
                         ToldIn(printed, n, v) \/ (piece.what = v /\ piece.test = n)
         /\ \A i \in DOMAIN Append(printed, piece) :
               \/ i \in DOMAIN printed /\ Append(printed, piece)[i] = printed[i]
               \/ i = Len(printed) + 1 /\ Append(printed, piece)[i] = piece
<1> DEFINE m == Len(printed)
           longer == Append(printed, piece)
<1>1. /\ m \in Nat /\ DOMAIN printed = 1 .. m
      /\ DOMAIN longer = 1 .. (m + 1) /\ longer[m + 1] = piece
      /\ \A i \in 1 .. m : longer[i] = printed[i]
  <2>1. m \in Nat /\ DOMAIN printed = 1 .. m
    BY LenProperties
  <2>2. /\ longer \in Seq(Piece) /\ Len(longer) = m + 1 /\ longer[m + 1] = piece
        /\ \A i \in 1 .. m : longer[i] = printed[i]
    BY AppendProperties
  <2>3. DOMAIN longer = 1 .. (m + 1)
    BY <2>2, LenProperties
  <2>4. QED
    BY <2>1, <2>2, <2>3
<1> HIDE DEF m, longer
<1>2. \A i \in DOMAIN longer : \/ i \in DOMAIN printed /\ longer[i] = printed[i]
                               \/ i = m + 1 /\ longer[i] = piece
  <2>1. \A i \in 1 .. (m + 1) : i \in 1 .. m \/ i = m + 1
    BY <1>1
  <2>2. QED
    BY <1>1, <2>1
<1>3. \A i \in DOMAIN printed : i \in DOMAIN longer /\ longer[i] = printed[i]
  BY <1>1
<1>4. m + 1 \in DOMAIN longer /\ longer[m + 1] = piece
  BY <1>1
<1>5. \A n, v : ToldIn(longer, n, v) <=>
                   ToldIn(printed, n, v) \/ (piece.what = v /\ piece.test = n)
  BY <1>2, <1>3, <1>4 DEF ToldIn
<1>6. QED
  BY <1>2, <1>5 DEF longer, m

LEMMA HistoryOfStatements ==
  ASSUME UnityInv, History, Effective
  PROVE  History'
<1>1. /\ phase' \in Scripts \cup {"conclude"} /\ InTest /\ InTest' /\ phase' # "begin"
      /\ suite' = suite /\ NumberOfTests' = NumberOfTests
  BY DEF Effective, Effect, Returns, Passes, Again, Fails, Ignores, Return, TEST_ABORT,
         counters, InTest, Scripts
<1>2. Concluded' = Concluded /\ Concluded = 1 .. NumberOfTests - 1
  BY <1>1 DEF Concluded, Between, InTest, Scripts
<1>3. NumberOfTests \in Nat /\ NumberOfTests \in 1 .. NumberOfTests /\ NumberOfTests \notin Concluded
  <2>1. NumberOfTests \in Nat /\ NumberOfTests > 0
    BY <1>1, CountersTyped DEF UnityInv, UnityTypeOK, InTest
  <2>2. QED
    BY <1>2, <2>1
<1>4. ASSUME output' = output, UNCHANGED flags PROVE History'
  BY <1>1, <1>2, <1>4 DEF History, Told, flags
<1>5. ASSUME NEW piece \in Piece, Shows(piece) PROVE History'
  <2>1. output \in Seq(Piece) /\ output' = Append(output, piece) /\ piece.test = NumberOfTests
    BY <1>5 DEF UnityInv, UnityTypeOK, Shows
  <2>2. \A n, v : Told(n, v)' <=> Told(n, v) \/ (piece.what = v /\ piece.test = n)
    BY <2>1, OneMoreTold DEF Told
  <2>3. \A i \in DOMAIN output' : output'[i].test \in 1 .. NumberOfTests'
    <3>1. \A i \in DOMAIN output' : \/ i \in DOMAIN output /\ output'[i] = output[i]
                                    \/ output'[i] = piece
      BY <2>1, OneMoreTold
    <3>2. QED
      BY <1>1, <1>3, <2>1, <3>1 DEF History
  <2>4. \A n \in Concluded, v \in Verdicts : Told(n, v)' <=> Verdict(suite[n]) = v
    BY <1>3, <2>1, <2>2 DEF History
  <2>5. /\ Told(NumberOfTests, "FAIL")' <=> CurrentTestFailed'
        /\ Told(NumberOfTests, "IGNORE")' <=> CurrentTestIgnored'
        /\ ~Told(NumberOfTests, "PASS")'
    <3>1. /\ Told(NumberOfTests, "FAIL") <=> CurrentTestFailed
          /\ Told(NumberOfTests, "IGNORE") <=> CurrentTestIgnored
          /\ ~Told(NumberOfTests, "PASS")
      BY <1>1 DEF History
    <3>2. /\ Told(NumberOfTests, "FAIL")' <=> CurrentTestFailed \/ piece.what = "FAIL"
          /\ Told(NumberOfTests, "IGNORE")' <=> CurrentTestIgnored \/ piece.what = "IGNORE"
          /\ Told(NumberOfTests, "PASS")' <=> piece.what = "PASS"
      BY <1>1, <2>1, <2>2, <3>1 DEF Told
    <3>3. CASE piece.what = "INFO" /\ UNCHANGED flags
      BY <3>2, <3>3 DEF flags
    <3>4. CASE piece.what = "FAIL" /\ Fails
      BY <3>2, <3>4 DEF Fails
    <3>5. CASE piece.what = "IGNORE" /\ Ignores
      BY <3>2, <3>5 DEF Ignores
    <3>6. QED
      BY <1>5, <3>3, <3>4, <3>5 DEF Shows
  <2>6. QED
    BY <1>1, <1>2, <2>3, <2>4, <2>5 DEF History, Told
<1>6. QED
  BY <1>4, <1>5, OutputOfStatements DEF UnityInv

LEMMA HistoryOfConclude ==
  ASSUME UnityInv, Progress, History, UnityConcludeTest
  PROVE  History'
<1>1. /\ phase = "conclude" /\ phase' = "main" /\ suite' = suite
      /\ NumberOfTests' = NumberOfTests
  BY DEF UnityConcludeTest, Conclude
<1>2. InTest /\ ~InTest' /\ phase' # "begin" /\ NumberOfTests \in Nat /\ NumberOfTests > 0
      /\ Concluded = 1 .. NumberOfTests - 1 /\ Concluded' = 1 .. NumberOfTests
  <2>1. InTest /\ ~InTest' /\ phase' # "begin"
    BY <1>1 DEF InTest, Scripts
  <2>2. NumberOfTests \in Nat /\ NumberOfTests > 0
    BY <1>1, CountersTyped DEF UnityInv, UnityTypeOK
  <2>3. Concluded = 1 .. NumberOfTests - 1 /\ Concluded' = 1 .. NumberOfTests
    BY <1>1 DEF Concluded, Between
  <2>4. QED
    BY <2>1, <2>2, <2>3
<1>3. Flags(Verdict(CurrentTest)) /\ Verdict(CurrentTest) \in Verdicts
  BY <1>1, VerdictTyped DEF Progress, AtItsEnd, Verdict
<1>4. /\ Told(NumberOfTests, "FAIL") <=> CurrentTestFailed
      /\ Told(NumberOfTests, "IGNORE") <=> CurrentTestIgnored
      /\ ~Told(NumberOfTests, "PASS")
  BY <1>2 DEF History
<1>5. ASSUME \A i \in DOMAIN output' : output'[i].test \in 1 .. NumberOfTests,
             \A n \in 1 .. NumberOfTests - 1, v \in Verdicts : Told(n, v)' <=> Told(n, v),
             \A v \in Verdicts : Told(NumberOfTests, v)' <=> Verdict(CurrentTest) = v
      PROVE  History'
  <2>1. ASSUME NEW n \in 1 .. NumberOfTests, NEW v \in Verdicts
        PROVE  Told(n, v)' <=> Verdict(suite[n]) = v
    <3>1. CASE n = NumberOfTests
      BY <1>1, <1>5, <3>1 DEF CurrentTest, Told
    <3>2. CASE n # NumberOfTests
      <4>1. n \in 1 .. NumberOfTests - 1
        BY <1>2, <3>2
      <4>2. QED
        BY <1>2, <1>5, <4>1 DEF History
    <3>3. QED
      BY <3>1, <3>2
  <2>2. QED
    BY <1>1, <1>2, <1>5, <2>1 DEF History
<1>6. CASE FailOrIgnore
  <2>1. output' = output
    BY <1>6 DEF UnityConcludeTest, Conclude
  <2>2. \A n, v : Told(n, v)' <=> Told(n, v)
    BY <2>1 DEF Told
  <2>3. \A v \in Verdicts : Told(NumberOfTests, v)' <=> Verdict(CurrentTest) = v
    <3>1. \A v \in Verdicts : v = "FAIL" \/ v = "IGNORE" \/ v = "PASS"
      BY DEF Verdicts
    <3>2. Verdict(CurrentTest) # "PASS"
      BY <1>3, <1>6 DEF Flags, FailOrIgnore
    <3>3. QED
      BY <1>1, <1>3, <1>4, <2>2, <3>1, <3>2 DEF Flags, Told
  <2>4. QED
    BY <1>5, <2>1, <2>2, <2>3 DEF History
<1>7. CASE ~FailOrIgnore
  <2>1. PrintsOnly("PASS")
    BY <1>7 DEF UnityConcludeTest, Conclude, FailOrIgnore
  <2>2. PICK piece \in Piece : /\ piece.what = "PASS" /\ piece.test = NumberOfTests
                               /\ output' = Append(output, piece)
    BY <2>1, PieceShown DEF UnityInv, PrintsOnly, Verdicts, Reports
  <2>3. output \in Seq(Piece)
    BY DEF UnityInv, UnityTypeOK
  <2>4. \A n, v : Told(n, v)' <=> Told(n, v) \/ ("PASS" = v /\ NumberOfTests = n)
    BY <2>2, <2>3, OneMoreTold DEF Told
  <2>5. \A i \in DOMAIN output' : output'[i].test \in 1 .. NumberOfTests
    <3>1. \A i \in DOMAIN output' : \/ i \in DOMAIN output /\ output'[i] = output[i]
                                    \/ output'[i] = piece
      BY <2>2, <2>3, OneMoreTold
    <3>2. NumberOfTests \in 1 .. NumberOfTests
      BY <1>2
    <3>3. QED
      BY <2>2, <3>1, <3>2 DEF History
  <2>6. \A n \in 1 .. NumberOfTests - 1, v \in Verdicts : Told(n, v)' <=> Told(n, v)
    <3>1. \A n \in 1 .. NumberOfTests - 1 : n # NumberOfTests
      BY <1>2
    <3>2. QED
      BY <2>4, <3>1
  <2>7. \A v \in Verdicts : Told(NumberOfTests, v)' <=> Verdict(CurrentTest) = v
    <3>1. \A v \in Verdicts : v = "FAIL" \/ v = "IGNORE" \/ v = "PASS"
      BY DEF Verdicts
    <3>2. Verdict(CurrentTest) = "PASS"
      BY <1>3, <1>7 DEF Flags, FailOrIgnore, Verdicts
    <3>3. QED
      BY <1>1, <1>4, <1>7, <2>4, <3>1, <3>2 DEF FailOrIgnore, Told
  <2>8. QED
    BY <1>5, <2>5, <2>6, <2>7
<1>8. QED
  BY <1>6, <1>7

LEMMA HistoryOfStep ==
  ASSUME JudgesRight, UnityInv, Progress, History, [UnityNext]_unityVars
  PROVE  History'
<1>1. CASE UnityBegin
  <2>1. /\ phase = "begin" /\ phase' = "main" /\ output' = output /\ suite' = suite
        /\ NumberOfTests' = 0
    BY <1>1 DEF UnityBegin
  <2>2. output = <<>>
    BY <2>1 DEF History
  <2>3. DOMAIN output' = {}
    BY <2>1, <2>2, EmptySeq
  <2>4. Concluded' = {}
    BY <2>1 DEF Concluded, Between
  <2>5. ~InTest'
    BY <2>1 DEF InTest, Scripts
  <2>6. QED
    BY <2>1, <2>3, <2>4, <2>5 DEF History
<1>2. CASE UnityDefaultTestRun
  <2>1. /\ phase = "main" /\ phase' = "setUp" /\ output' = output /\ suite' = suite
        /\ NumberOfTests' = NumberOfTests + 1
        /\ CurrentTestFailed' = CurrentTestFailed /\ CurrentTestIgnored' = CurrentTestIgnored
    BY <1>2 DEF UnityDefaultTestRun, flags
  <2>2. NumberOfTests \in Nat
    BY CountersTyped DEF UnityInv
  <2>3. ~CurrentTestFailed' /\ ~CurrentTestIgnored'
    BY <2>1 DEF UnityInv, Counted, InTest, Scripts
  <2>4. Concluded = 1 .. NumberOfTests /\ Concluded' = 1 .. NumberOfTests
    <3>1. NumberOfTests + 1 - 1 = NumberOfTests
      BY <2>2
    <3>2. Concluded' = 1 .. NumberOfTests' - 1 /\ Concluded = 1 .. NumberOfTests
      BY <2>1 DEF Concluded, Between
    <3>3. QED
      BY <2>1, <2>2, <3>1, <3>2
  <2>5. \A v : ~Told(NumberOfTests + 1, v)
    <3>1. NumberOfTests + 1 \notin 1 .. NumberOfTests
      BY <2>2
    <3>2. QED
      BY <3>1 DEF History, Told, ToldIn
  <2>6. \A n, v : Told(n, v)' <=> Told(n, v)
    BY <2>1 DEF Told
  <2>7. \A i \in DOMAIN output' : output'[i].test \in 1 .. NumberOfTests'
    <3>1. 1 .. NumberOfTests \subseteq 1 .. NumberOfTests'
      BY <2>1, <2>2
    <3>2. QED
      BY <2>1, <3>1 DEF History
  <2>8. \A n \in Concluded', v \in Verdicts : Told(n, v)' <=> Verdict(suite'[n]) = v
    BY <2>1, <2>4, <2>6 DEF History
  <2>9. \A v : ~ToldIn(output', NumberOfTests', v)
    BY <2>1, <2>5 DEF Told
  <2>10. QED
    BY <2>1, <2>3, <2>7, <2>8, <2>9 DEF History, Told
<1>3. CASE UnityStep
  <2>1. CASE Leave
    <3>1. /\ phase \in Scripts /\ phase' \in Scripts \cup {"conclude"}
          /\ suite' = suite /\ NumberOfTests' = NumberOfTests /\ output' = output
          /\ CurrentTestFailed' = CurrentTestFailed /\ CurrentTestIgnored' = CurrentTestIgnored
      BY <2>1 DEF Leave, counters, flags, Scripts
    <3>2. InTest /\ InTest' /\ phase' # "begin" /\ Concluded' = Concluded
      BY <3>1 DEF InTest, Scripts, Concluded, Between
    <3>3. QED
      BY <3>1, <3>2 DEF History, Told
  <2>2. CASE ~Leave
    BY <1>3, <2>2, StatementsHaveEffect, HistoryOfStatements DEF UnityInv
  <2>3. QED
    BY <2>1, <2>2
<1>4. CASE UnityConcludeTest
  BY <1>4, HistoryOfConclude
<1>5. CASE UnityEnd
  <2>1. /\ phase = "main" /\ phase' = "ended" /\ suite' = suite
        /\ NumberOfTests' = NumberOfTests /\ output' = output
    BY <1>5 DEF UnityEnd, counters
  <2>2. ~InTest' /\ phase' # "begin" /\ Concluded' = Concluded
    BY <2>1 DEF InTest, Scripts, Concluded, Between
  <2>3. QED
    BY <2>1, <2>2 DEF History, Told
<1>6. CASE UNCHANGED unityVars
  BY <1>6 DEF unityVars, counters, flags, History, Told, Concluded, Between, InTest
<1>7. QED
  BY <1>1, <1>2, <1>3, <1>4, <1>5, <1>6 DEF UnityNext

RunInv == UnityInv /\ Progress /\ History

LEMMA InitRun ==
  UnityInit => Progress /\ History
<1> SUFFICES ASSUME UnityInit PROVE Progress /\ History
  OBVIOUS
<1>1. phase = "begin" /\ output = <<>> /\ NumberOfTests = 0
  BY DEF UnityInit
<1>2. DOMAIN output = {} /\ Concluded = {} /\ ~InTest
  BY <1>1, EmptySeq DEF Concluded, Between, InTest, Scripts
<1>3. QED
  BY <1>1, <1>2 DEF Progress, History

LEMMA RunInvariant ==
  ASSUME JudgesRight
  PROVE  UnitySpec => []RunInv
<1>1. UnityInit => Progress /\ History
  BY InitRun
<1>2. UnityInv /\ Progress /\ History /\ [UnityNext]_unityVars => Progress' /\ History'
  BY ProgressOfStep, HistoryOfStep
<1>3. RunInv <=> UnityInv /\ Progress /\ History
  BY DEF RunInv
<1>4. QED
  BY <1>1, <1>2, <1>3, UnityInvariant, PTL DEF UnitySpec

(***************************************************************************)
(* For all suites on whose calls the assertion functions decide as the     *)
(* macros mean, every script runs up to the statement that ends it: setUp  *)
(* and the test to the first that does not hold, tearDown in any case,     *)
(* after a failure to its first assertion (TEST_PROTECT, TEST_ABORT and    *)
(* RETURN_IF_FAIL_OR_IGNORE).                                              *)
(***************************************************************************)
THEOREM ScriptsReach ==
  ASSUME JudgesRight
  PROVE  UnitySpec => []ReachesWhatItShould
<1>1. RunInv => ReachesWhatItShould
  <2> SUFFICES ASSUME RunInv, phase = "conclude" PROVE reached = ShouldReach(CurrentTest)
    BY DEF ReachesWhatItShould
  <2>1. PICK t : t = CurrentTest
    OBVIOUS
  <2>2. t \in Test /\ reached \in [Scripts -> Nat]
    BY <2>1, CurrentTyped DEF RunInv, UnityInv, InTest
  <2>3. /\ reached["setUp"] = ShouldReach(t).setUp /\ reached["body"] = ShouldReach(t).body
        /\ reached["tearDown"] = ShouldReach(t).tearDown
    BY <2>1 DEF RunInv, Progress, LeftProtected, AtItsEnd
  <2>4. ShouldReach(t) = [setUp |-> reached["setUp"], body |-> reached["body"],
                          tearDown |-> reached["tearDown"]]
    BY <2>2, <2>3, ShouldReachTyped
  <2>5. reached = [setUp |-> reached["setUp"], body |-> reached["body"],
                   tearDown |-> reached["tearDown"]]
    BY <2>2 DEF Scripts
  <2>6. QED
    BY <2>1, <2>4, <2>5
<1>2. QED
  BY <1>1, RunInvariant, PTL

(***************************************************************************)
(* For the same suites, of every test that ran there is printed the        *)
(* verdict it should have, and no other, whatever the tests before it and  *)
(* its own tearDown did.                                                   *)
(***************************************************************************)
THEOREM VerdictsHold ==
  ASSUME JudgesRight
  PROVE  UnitySpec => []VerdictsAreRight
<1>1. RunInv => VerdictsAreRight
  BY DEF RunInv, History, VerdictsAreRight, Told, ToldIn, PiecesOf
<1>2. QED
  BY <1>1, RunInvariant, PTL

--------------------------------------------------------------------------------
(***************************************************************************)
(* The details of the current test are the last ones its statements set,   *)
(* and a failure is printed by the statement it should be printed by.      *)
(***************************************************************************)
\* What the current test did: setUp and the test function together, then tearDown.
Executed == SubSeq(Part, 1, Went) \o SubSeq(CurrentTest["tearDown"], 1, reached["tearDown"])

DetailsIn(script)  == {i \in DOMAIN script : script[i].op = "SET_DETAILS"}
LastDetail(script) == IF DetailsIn(script) = {} THEN {}
                      ELSE script[Max(DetailsIn(script))].detail

Detailed == phase \in Scripts => CurrentDetail = LastDetail(Executed)

\* The reports of the test programs' calls name what a reader needs.
JudgesName == \A s \in Statements :
                 s.op = "ASSERT" /\ ~Holds(s.call) => Names(s.call, Judge(s.call))

NamedAt(i) ==
    output[i].what = "FAIL" =>
        /\ output[i].detail = DetailAt(suite[output[i].test])
        /\ FailedAt(suite[output[i].test]).op = "ASSERT" =>
              Names(FailedAt(suite[output[i].test]).call, output[i].report)
Named == \A i \in DOMAIN output : NamedAt(i)

\* Every set of naturals has a least element, and a finite one a greatest.
LEMMA LeastNat ==
  ASSUME NEW T \in SUBSET Nat, T # {}
  PROVE  \E n \in T : \A m \in T : n <= m
<1>1. PICK n \in T : \A m \in T : <<m, n>> \notin OpToRel(<, Nat)
  BY NatLessThanWellFounded, WFMin
<1>2. \A m \in T : ~(m < n)
  BY <1>1 DEF OpToRel
<1>3. QED
  BY <1>2

LEMMA GreatestNat ==
  ASSUME NEW m \in Nat, NEW T \in SUBSET (1 .. m), T # {}
  PROVE  \E n \in T : \A i \in T : i <= n
<1> DEFINE left == {d \in Nat : m - d \in T}
<1>1. \A i \in T : m - i \in Nat /\ m - (m - i) = i
  OBVIOUS
<1>2. \A i \in T : m - i \in left
  BY <1>1
<1>3. left \in SUBSET Nat /\ left # {}
  BY <1>2
<1>4. PICK d \in left : \A e \in left : d <= e
  <2> HIDE DEF left
  <2>1. QED
    BY <1>3, LeastNat
<1>5. d \in Nat /\ m - d \in T
  BY <1>4
<1>6. \A i \in T : d <= m - i
  BY <1>2, <1>4
<1>7. \A i \in T : i <= m - d
  BY <1>5, <1>6
<1>8. QED
  BY <1>5, <1>7

LEMMA LastOfLonger ==
  ASSUME NEW script \in Seq(Statements), NEW s \in Statements
  PROVE  LastDetail(Append(script, s)) = IF s.op = "SET_DETAILS" THEN s.detail
                                                                 ELSE LastDetail(script)
<1> DEFINE m == Len(script)
           longer == Append(script, s)
<1>1. /\ m \in Nat /\ DOMAIN script = 1 .. m
      /\ DOMAIN longer = 1 .. (m + 1) /\ longer[m + 1] = s
      /\ \A i \in 1 .. m : longer[i] = script[i]
  <2>1. m \in Nat /\ DOMAIN script = 1 .. m
    BY LenProperties
  <2>2. /\ longer \in Seq(Statements) /\ Len(longer) = m + 1 /\ longer[m + 1] = s
        /\ \A i \in 1 .. m : longer[i] = script[i]
    BY AppendProperties
  <2>3. DOMAIN longer = 1 .. (m + 1)
    BY <2>2, LenProperties
  <2>4. QED
    BY <2>1, <2>2, <2>3
<1> HIDE DEF m, longer
<1>2. CASE s.op = "SET_DETAILS"
  <2>1. m + 1 \in DetailsIn(longer) /\ DetailsIn(longer) \in SUBSET Int
    BY <1>1, <1>2 DEF DetailsIn
  <2>2. \A i \in DetailsIn(longer) : i <= m + 1
    BY <1>1 DEF DetailsIn
  <2>3. Max(DetailsIn(longer)) = m + 1
    BY <2>1, <2>2, GreatestIsMax
  <2>4. LastDetail(longer) = longer[m + 1].detail
    BY <2>1, <2>3 DEF LastDetail
  <2>5. QED
    BY <1>1, <1>2, <2>4 DEF longer
<1>3. CASE s.op # "SET_DETAILS"
  <2>1. DetailsIn(longer) = DetailsIn(script)
    <3>1. \A i \in 1 .. (m + 1) : i \in 1 .. m \/ i = m + 1
      BY <1>1
    <3>2. \A i \in 1 .. m : i \in 1 .. (m + 1)
      BY <1>1
    <3>3. QED
      BY <1>1, <1>3, <3>1, <3>2 DEF DetailsIn
  <2>2. CASE DetailsIn(script) = {}
    BY <1>3, <2>1, <2>2 DEF LastDetail, longer
  <2>3. CASE DetailsIn(script) # {}
    <3>1. m \in Nat /\ DetailsIn(script) \in SUBSET (1 .. m)
      BY <1>1 DEF DetailsIn
    <3>2. PICK k \in DetailsIn(script) : \A i \in DetailsIn(script) : i <= k
      BY <2>3, <3>1, GreatestNat
    <3>3. DetailsIn(script) \in SUBSET Int
      BY <1>1 DEF DetailsIn
    <3>4. Max(DetailsIn(script)) = k
      BY <3>2, <3>3, GreatestIsMax
    <3>5. longer[k] = script[k]
      BY <1>1, <3>2 DEF DetailsIn
    <3>6. LastDetail(longer) = longer[k].detail /\ LastDetail(script) = script[k].detail
      BY <2>1, <2>3, <3>4 DEF LastDetail
    <3>7. QED
      BY <1>3, <3>5, <3>6 DEF longer
  <2>4. QED
    BY <2>2, <2>3
<1>4. QED
  BY <1>2, <1>3

LEMMA NoDetails == LastDetail(<<>>) = {}
<1>1. DOMAIN <<>> = {}
  BY EmptySeq
<1>2. QED
  BY <1>1 DEF LastDetail, DetailsIn

\* One statement more of a script.
LEMMA OneMoreDone ==
  ASSUME NEW script \in Seq(Statements), NEW k \in Nat, k + 1 \in 1 .. Len(script)
  PROVE  /\ SubSeq(script, 1, k) \in Seq(Statements)
         /\ script[k + 1] \in Statements
         /\ SubSeq(script, 1, k + 1) = Append(SubSeq(script, 1, k), script[k + 1])
<1>1. PICK n : n = k + 1
  OBVIOUS
<1>2. n \in 1 .. Len(script) /\ n - 1 = k /\ Len(script) \in Nat /\ k <= Len(script)
  BY <1>1, LenProperties
<1>3. script[n] \in Statements
  BY <1>2, ElementOfSeq
<1>4. SubSeq(script, 1, k) \in Seq(Statements)
  BY <1>2, SubSeqProperties
<1>5. SubSeq(script, 1, n) = SubSeq(script, 1, n - 1) \o <<script[n]>>
  BY <1>2, SubSeqRecursiveSecond
<1>6. SubSeq(script, 1, n) = Append(SubSeq(script, 1, k), script[n])
  BY <1>2, <1>3, <1>4, <1>5, AppendIsConcat
<1>7. QED
  BY <1>1, <1>3, <1>4, <1>6

LEMMA BeginningTyped ==
  ASSUME NEW script \in Seq(Statements), NEW k \in Nat, k <= Len(script)
  PROVE  /\ SubSeq(script, 1, k) \in Seq(Statements)
         /\ SubSeq(script, 1, 0) = <<>>
         /\ SubSeq(script, 1, k) \o <<>> = SubSeq(script, 1, k)
         /\ <<>> \o SubSeq(script, 1, k) = SubSeq(script, 1, k)
<1>1. SubSeq(script, 1, k) \in Seq(Statements)
  BY SubSeqProperties, LenProperties
<1>2. SubSeq(script, 1, 0) = <<>>
  BY SubSeqEmpty
<1>3. QED
  BY <1>1, <1>2, ConcatEmptySeq

LEMMA LongerExecuted ==
  ASSUME NEW first \in Seq(Statements), NEW second \in Seq(Statements),
         NEW s \in Statements
  PROVE  first \o Append(second, s) = Append(first \o second, s)
<1>1. /\ <<s>> \in Seq(Statements) /\ Append(second, s) = second \o <<s>>
      /\ first \o second \in Seq(Statements)
      /\ Append(first \o second, s) = (first \o second) \o <<s>>
  BY AppendIsConcat, ConcatProperties
<1>2. QED
  BY <1>1, ConcatAssociative

\* A statement of setUp or the test, done and counted.
LEMMA DoneInProtected ==
  ASSUME UnityTypeOK, Progress, Effective, phase \in {"setUp", "body"}
  PROVE  /\ Went \in Nat /\ Went + 1 \in 1 .. Len(Part) /\ Part[Went + 1] = Statement
         /\ Part \in Seq(Statements) /\ CurrentTest["tearDown"] \in Seq(Statements)
         /\ reached["tearDown"] = 0 /\ reached'["tearDown"] = 0 /\ Went' = Went + 1
         /\ Part' = Part /\ CurrentTest' = CurrentTest
<1>1. PICK t : t = CurrentTest
  OBVIOUS
<1>2. InTest /\ t \in Test /\ reached \in [Scripts -> Nat] /\ Part = Protected(t)
  BY <1>1, CurrentTyped DEF Effective, InTest, Part
<1>3. t["tearDown"] \in Seq(Statements) /\ Part \in Seq(Statements)
  BY <1>2, ProtectedTyped
<1>4. InProtected
  BY DEF Progress
<1>5. Went \in Nat /\ Went + 1 \in 1 .. Len(Part) /\ Part[Went + 1] = Statement
  BY <1>4, NextProtected DEF Effective
<1>6. /\ reached' = [reached EXCEPT ![phase] = reached[phase] + 1]
      /\ suite' = suite /\ NumberOfTests' = NumberOfTests
  BY DEF Effective, Effect, Returns, Passes, Again, Fails, Ignores, Return, TEST_ABORT,
         Begun, counters
<1>7. reached["tearDown"] = 0 /\ reached'["tearDown"] = 0
  BY <1>2, <1>4, <1>6 DEF InProtected, Scripts
<1>8. Went' = Went + 1
  <2>1. PICK a, b : a = reached["setUp"] /\ b = reached["body"]
    OBVIOUS
  <2>2. a \in Nat /\ b \in Nat
    BY <1>2, <2>1 DEF Scripts
  <2>3. \/ reached'["setUp"] = a + 1 /\ reached'["body"] = b
        \/ reached'["setUp"] = a /\ reached'["body"] = b + 1
    BY <1>2, <1>6, <2>1 DEF Scripts
  <2>4. Went = a + b /\ (Went' = a + 1 + b \/ Went' = a + (b + 1))
    BY <2>1, <2>3 DEF Went
  <2>5. QED
    BY ONLY <2>2, <2>4
<1>9. CurrentTest' = CurrentTest /\ Part' = Part
  BY <1>6 DEF CurrentTest, Part
<1>10. QED
  BY <1>1, <1>3, <1>5, <1>7, <1>8, <1>9

\* A statement of tearDown, done after all of setUp and the test that was run.
LEMMA DoneInTearDown ==
  ASSUME UnityTypeOK, Progress, Effective, phase = "tearDown"
  PROVE  \E j \in Nat :
            /\ j = reached["tearDown"] /\ reached'["tearDown"] = j + 1
            /\ CurrentTest["tearDown"] \in Seq(Statements)
            /\ j + 1 \in 1 .. Len(CurrentTest["tearDown"])
            /\ CurrentTest["tearDown"][j + 1] = Statement
            /\ Part \in Seq(Statements) /\ Went \in Nat /\ Went <= Len(Part)
            /\ Went = Until(Part) /\ Went' = Went
            /\ Part' = Part /\ CurrentTest' = CurrentTest
<1>1. PICK t : t = CurrentTest
  OBVIOUS
<1>2. InTest /\ t \in Test /\ reached \in [Scripts -> Nat] /\ Part = Protected(t)
  BY <1>1, CurrentTyped DEF Effective, InTest, Part, Scripts
<1>3. /\ t["tearDown"] \in Seq(Statements) /\ Part \in Seq(Statements)
      /\ Len(t["tearDown"]) \in Nat /\ Len(Part) \in Nat /\ DOMAIN Part = 1 .. Len(Part)
      /\ Len(t["setUp"]) \in Nat
  BY <1>2, ProtectedTyped, LenProperties
<1>4. PICK j : j = reached["tearDown"]
  OBVIOUS
<1>5. /\ j \in Nat /\ j + 1 \in 1 .. Len(t["tearDown"]) /\ t["tearDown"][j + 1] = Statement
  BY <1>1, <1>2, <1>3, <1>4 DEF Effective, Script, Statement, Scripts
<1>6. /\ reached' = [reached EXCEPT ![phase] = reached[phase] + 1]
      /\ suite' = suite /\ NumberOfTests' = NumberOfTests
  BY DEF Effective, Effect, Returns, Passes, Again, Fails, Ignores, Return, TEST_ABORT,
         Begun, counters
<1>7. reached'["tearDown"] = j + 1 /\ Went' = Went
  BY <1>2, <1>4, <1>6 DEF Scripts, Went
<1>8. CurrentTest' = CurrentTest /\ Part' = Part
  BY <1>6 DEF CurrentTest, Part
<1>9. Until(Part) \in Nat /\ Until(Part) <= Len(Part)
  <2>1. CASE Stopping(Part) = {}
    BY <1>3, <2>1 DEF Until
  <2>2. CASE Stopping(Part) # {}
    <3>1. Stopping(Part) \in SUBSET (1 .. Len(Part))
      BY <1>3 DEF Stopping
    <3>2. Stopping(Part) \in SUBSET Nat /\ Stopping(Part) \in SUBSET Int
      BY <3>1
    <3>3. PICK n \in Stopping(Part) : \A i \in Stopping(Part) : n <= i
      BY <2>2, <3>2, LeastNat
    <3>4. Min(Stopping(Part)) = n
      BY <3>2, <3>3, LeastIsMin
    <3>5. n \in 1 .. Len(Part)
      BY <3>1, <3>3
    <3>6. QED
      BY <1>3, <2>2, <3>4, <3>5 DEF Until
  <2>3. QED
    BY <2>1, <2>2
<1>10. Went = Until(Part)
  <2>1. PICK u, m : u = Until(Protected(t)) /\ m = Len(t["setUp"])
    OBVIOUS
  <2>2. u \in Nat /\ m \in Nat /\ u = Until(Part)
    BY <1>2, <1>3, <1>9, <2>1
  <2>3. /\ ShouldReach(t).setUp = IF u <= m THEN u ELSE m
        /\ ShouldReach(t).body = IF u >= m THEN u - m ELSE 0
    BY <1>2, <2>1, <2>2, ShouldReachTyped
  <2>4. Went = ShouldReach(t).setUp + ShouldReach(t).body
    BY <1>1 DEF Progress, LeftProtected, Went
  <2>5. Went = u
    <3>1. Went = (IF u <= m THEN u ELSE m) + (IF u >= m THEN u - m ELSE 0)
      BY <2>3, <2>4
    <3>2. QED
      BY ONLY <2>2, <3>1
  <2>6. QED
    BY <2>2, <2>5
<1>11. QED
  BY <1>1, <1>3, <1>4, <1>5, <1>7, <1>8, <1>9, <1>10

\* What was executed is longer by the statement.
LEMMA ExecutedGrows ==
  ASSUME UnityTypeOK, Progress, Effective
  PROVE  /\ Executed \in Seq(Statements) /\ Statement \in Statements
         /\ Executed' = Append(Executed, Statement)
         /\ phase \in {"setUp", "body"} => Executed' = SubSeq(Part, 1, Went + 1)
<1>1. CASE phase \in {"setUp", "body"}
  <2>1. PICK P, td, k : P = Part /\ td = CurrentTest["tearDown"] /\ k = Went
    OBVIOUS
  <2>2. /\ k \in Nat /\ k + 1 \in 1 .. Len(P) /\ P[k + 1] = Statement
        /\ P \in Seq(Statements) /\ td \in Seq(Statements)
    BY <1>1, <2>1, DoneInProtected
  <2>3. /\ Executed = SubSeq(P, 1, k) \o SubSeq(td, 1, 0)
        /\ Executed' = SubSeq(P, 1, k + 1) \o SubSeq(td, 1, 0)
    BY <1>1, <2>1, DoneInProtected DEF Executed
  <2>4. Len(P) \in Nat /\ Len(td) \in Nat /\ k <= Len(P) /\ k + 1 <= Len(P) /\ k + 1 \in Nat
    BY <2>2, LenProperties
  <2>5. PICK n : n = k + 1
    OBVIOUS
  <2>6. SubSeq(P, 1, n) \o <<>> = SubSeq(P, 1, n)
    BY <2>2, <2>4, <2>5, BeginningTyped
  <2>7. SubSeq(P, 1, k) \o <<>> = SubSeq(P, 1, k)
    BY <2>2, <2>4, BeginningTyped
  <2>8. SubSeq(td, 1, 0) = <<>>
    BY <2>2, <2>4, BeginningTyped
  <2>9. /\ SubSeq(P, 1, k) \in Seq(Statements) /\ P[k + 1] \in Statements
        /\ SubSeq(P, 1, k + 1) = Append(SubSeq(P, 1, k), P[k + 1])
    BY <2>2, OneMoreDone
  <2>10. Executed = SubSeq(P, 1, k) /\ Executed' = SubSeq(P, 1, k + 1)
    BY <2>3, <2>5, <2>6, <2>7, <2>8
  <2>11. QED
    BY <2>1, <2>2, <2>9, <2>10
<1>2. CASE phase = "tearDown"
  <2>1. PICK P, td, k : P = Part /\ td = CurrentTest["tearDown"] /\ k = Went
    OBVIOUS
  <2>2. PICK j \in Nat :
            /\ j = reached["tearDown"] /\ reached'["tearDown"] = j + 1
            /\ td \in Seq(Statements)
            /\ j + 1 \in 1 .. Len(td) /\ td[j + 1] = Statement
            /\ P \in Seq(Statements) /\ k \in Nat /\ k <= Len(P)
            /\ Went' = k /\ Part' = P /\ CurrentTest' = CurrentTest
    BY <1>2, <2>1, DoneInTearDown
  <2>3. /\ Executed = SubSeq(P, 1, k) \o SubSeq(td, 1, j)
        /\ Executed' = SubSeq(P, 1, k) \o SubSeq(td, 1, j + 1)
    BY <2>1, <2>2 DEF Executed
  <2>4. /\ SubSeq(td, 1, j) \in Seq(Statements) /\ td[j + 1] \in Statements
        /\ SubSeq(td, 1, j + 1) = Append(SubSeq(td, 1, j), td[j + 1])
    BY <2>2, OneMoreDone
  <2>5. SubSeq(P, 1, k) \in Seq(Statements)
    BY <2>2, BeginningTyped
  <2>6. Executed \in Seq(Statements)
    BY <2>3, <2>4, <2>5, ConcatProperties
  <2>7. Executed' = Append(Executed, Statement)
    BY <2>2, <2>3, <2>4, <2>5, LongerExecuted
  <2>8. QED
    BY <1>2, <2>2, <2>4, <2>6, <2>7
<1>3. QED
  BY <1>1, <1>2 DEF Effective, Scripts

LEMMA DetailedOfStep ==
  ASSUME JudgesRight, UnityInv, Progress, Detailed, [UnityNext]_unityVars
  PROVE  Detailed'
<1>1. CASE UnityBegin \/ UnityConcludeTest \/ UnityEnd
  BY <1>1 DEF UnityBegin, UnityConcludeTest, Conclude, UnityEnd, Detailed, Scripts
<1>2. CASE UnityDefaultTestRun
  <2>1. /\ phase' = "setUp" /\ reached' = [s \in Scripts |-> 0] /\ CurrentDetail' = {}
    BY <1>2 DEF UnityDefaultTestRun
  <2>2. Went' = 0 /\ reached'["tearDown"] = 0
    BY <2>1 DEF Went, Scripts
  <2>3. \A P, td : SubSeq(P, 1, 0) \o SubSeq(td, 1, 0) = <<>>
    <3>1. \A s : SubSeq(s, 1, 0) = <<>>
      BY SubSeqEmpty
    <3>2. <<>> \o <<>> = <<>>
      BY EmptySeq, ConcatEmptySeq
    <3>3. QED
      BY <3>1, <3>2
  <2>4. Executed' = <<>>
    BY <2>2, <2>3 DEF Executed
  <2>5. LastDetail(Executed)' = {}
    BY <2>4, NoDetails DEF LastDetail, DetailsIn
  <2>6. QED
    BY <2>1, <2>5 DEF Detailed
<1>3. CASE UnityStep
  <2>1. CASE Leave
    <3>1. /\ phase \in Scripts /\ suite' = suite /\ reached' = reached
          /\ NumberOfTests' = NumberOfTests /\ CurrentDetail' = CurrentDetail
      BY <2>1 DEF Leave, counters
    <3>2. CurrentTest' = CurrentTest /\ Part' = Part /\ Went' = Went
      BY <3>1 DEF CurrentTest, Part, Went
    <3>3. LastDetail(Executed)' = LastDetail(Executed)
      BY <3>1, <3>2 DEF Executed, LastDetail, DetailsIn
    <3>4. QED
      BY <3>1, <3>3 DEF Detailed
  <2>2. CASE ~Leave
    <3>1. Effective
      BY <1>3, <2>2, StatementsHaveEffect DEF UnityInv
    <3>2. /\ Executed \in Seq(Statements) /\ Statement \in Statements
          /\ Executed' = Append(Executed, Statement)
      BY <3>1, ExecutedGrows DEF UnityInv
    <3>3. LastDetail(Append(Executed, Statement))
            = IF Statement.op = "SET_DETAILS" THEN Statement.detail ELSE LastDetail(Executed)
      BY <3>2, LastOfLonger
    <3>4. LastDetail(Executed)' = LastDetail(Append(Executed, Statement))
      BY <3>2 DEF LastDetail, DetailsIn
    <3>5. CurrentDetail = LastDetail(Executed)
      BY <3>1 DEF Effective, Detailed
    <3>6. CurrentDetail' = IF Statement.op = "SET_DETAILS" THEN Statement.detail
                                                           ELSE CurrentDetail
      BY <3>1 DEF Effective, Effect
    <3>7. CurrentDetail' = LastDetail(Executed)'
      BY <3>3, <3>4, <3>5, <3>6
    <3>8. QED
      BY <3>7 DEF Detailed
  <2>3. QED
    BY <2>1, <2>2
<1>4. CASE UNCHANGED unityVars
  <2>1. /\ phase' = phase /\ suite' = suite /\ reached' = reached
        /\ NumberOfTests' = NumberOfTests /\ CurrentDetail' = CurrentDetail
    BY <1>4 DEF unityVars, counters
  <2>2. CurrentTest' = CurrentTest /\ Part' = Part /\ Went' = Went
    BY <2>1 DEF CurrentTest, Part, Went
  <2>3. LastDetail(Executed)' = LastDetail(Executed)
    BY <2>1, <2>2 DEF Executed, LastDetail, DetailsIn
  <2>4. QED
    BY <2>1, <2>3 DEF Detailed
<1>5. QED
  BY <1>1, <1>2, <1>3, <1>4 DEF UnityNext

\* The statement a test should fail at, and what its line should have, in positions.
Before(t) == (IF InTearDown(t) THEN SubSeq(Protected(t), 1, Until(Protected(t))) ELSE <<>>)
                \o SubSeq(FailedScript(t), 1, Until(FailedScript(t)))

LEMMA FailureByPosition ==
  ASSUME NEW t
  PROVE  /\ FailedAt(t) = FailedScript(t)[Min(Stopping(FailedScript(t)))]
         /\ DetailAt(t) = IF FailedAt(t).op = "FAIL" /\ ~FailedAt(t).message THEN {}
                          ELSE LastDetail(Before(t))
<1>1. FailedAt(t) = FailedScript(t)[Min(Stopping(FailedScript(t)))]
  BY DEF FailedAt, First, Where, Stopping
<1>2. DetailAt(t) = IF FailedAt(t).op = "FAIL" /\ ~FailedAt(t).message THEN {}
                    ELSE LastDetail(Before(t))
  BY DEF DetailAt, LastDetail, DetailsIn, Before, Where, UpTo, Until, Stopping
<1>3. QED
  BY <1>1, <1>2

\* The statement that prints a failure is the one, and the details are its own.
LEMMA FailsWhereItShould ==
  ASSUME UnityTypeOK, Progress, Detailed, Effective, Fails
  PROVE  /\ FailedAt(CurrentTest) = Statement
         /\ DetailAt(CurrentTest) = IF Bare THEN {} ELSE CurrentDetail
<1>1. PICK t, P : t = CurrentTest /\ P = Part
  OBVIOUS
<1>2. P = Protected(t)
  BY <1>1 DEF Part
<1>3. /\ Statement.op \notin {"PASS", "IGNORE", "SET_DETAILS"} /\ Stops(Statement)
      /\ ~FailOrIgnore
  BY DEF Fails, Stops
<1>4. /\ Executed \in Seq(Statements) /\ Statement \in Statements
      /\ Executed' = Append(Executed, Statement)
  BY ExecutedGrows
<1>5. LastDetail(Append(Executed, Statement)) = CurrentDetail
  <2>1. LastDetail(Append(Executed, Statement)) = LastDetail(Executed)
    BY <1>3, <1>4, LastOfLonger
  <2>2. CurrentDetail = LastDetail(Executed)
    BY DEF Effective, Detailed
  <2>3. QED
    BY <2>1, <2>2
<1>6. FailedAt(t) = Statement /\ Before(t) = Append(Executed, Statement)
  <2>1. CASE phase \in {"setUp", "body"}
    <3>1. PICK k : k = Went
      OBVIOUS
    <3>2. /\ k \in Nat /\ k + 1 \in 1 .. Len(P) /\ P[k + 1] = Statement
          /\ P \in Seq(Statements)
      BY <1>1, <2>1, <3>1, DoneInProtected
    <3>3. \A i \in 1 .. k : ~Stops(P[i])
      BY <1>1, <2>1, <3>1 DEF Progress, InProtected
    <3>4. PICK n : n = k + 1
      OBVIOUS
    <3>5. n \in 1 .. Len(P) /\ n - 1 = k /\ n \in Nat /\ n <= Len(P) /\ P[n] = Statement
      BY <3>2, <3>4, LenProperties
    <3>6. \A i \in 1 .. n - 1 : ~Stops(P[i])
      BY <3>3, <3>5
    <3>7. /\ Until(P) = n /\ Min(Stopping(P)) = n
          /\ VerdictOf(P) = IF P[n].op = "PASS" THEN "PASS"
                            ELSE IF P[n].op = "IGNORE" THEN "IGNORE" ELSE "FAIL"
      BY <1>3, <3>2, <3>5, <3>6, SomethingStops
    <3>8. ~InTearDown(t) /\ FailedScript(t) = P
      BY <1>2, <1>3, <3>5, <3>7 DEF InTearDown, FailedScript
    <3>9. FailedAt(t) = Statement
      BY <3>5, <3>7, <3>8, FailureByPosition
    <3>10. Before(t) = <<>> \o SubSeq(P, 1, n)
      BY <3>7, <3>8 DEF Before
    <3>11. Before(t) = SubSeq(P, 1, n)
      BY <3>2, <3>5, <3>10, BeginningTyped
    <3>12. Executed' = SubSeq(P, 1, n)
      BY <1>1, <2>1, <3>1, <3>4, ExecutedGrows
    <3>13. QED
      BY <1>4, <3>9, <3>11, <3>12
  <2>2. CASE phase = "tearDown"
    <3>1. PICK td : td = CurrentTest["tearDown"]
      OBVIOUS
    <3>2. PICK j \in Nat :
              /\ j = reached["tearDown"] /\ reached'["tearDown"] = j + 1
              /\ td \in Seq(Statements)
              /\ j + 1 \in 1 .. Len(td) /\ td[j + 1] = Statement
              /\ Went = Until(P) /\ Went' = Went /\ Part' = P /\ CurrentTest' = t
      BY <1>1, <2>2, <3>1, DoneInTearDown
    <3>3. /\ Flags(VerdictOf(P))
          /\ \A i \in 1 .. j : IF VerdictOf(P) = "PASS" THEN ~Stops(td[i]) ELSE ~Looks(td[i])
      BY <1>1, <2>2, <3>1, <3>2 DEF Progress, InTearDownOf
    <3>4. VerdictOf(P) = "PASS"
      BY <1>3, <3>3, VerdictTyped DEF Flags, FailOrIgnore, Verdicts
    <3>5. PICK n : n = j + 1
      OBVIOUS
    <3>6. n \in 1 .. Len(td) /\ n - 1 = j /\ td[n] = Statement
      BY <3>2, <3>5
    <3>7. \A i \in 1 .. n - 1 : ~Stops(td[i])
      BY <3>3, <3>4, <3>6
    <3>8. Until(td) = n /\ Min(Stopping(td)) = n
      BY <1>3, <3>2, <3>6, <3>7, SomethingStops
    <3>9. InTearDown(t) /\ FailedScript(t) = td
      BY <1>1, <1>2, <3>1, <3>4 DEF InTearDown, FailedScript
    <3>10. FailedAt(t) = Statement
      BY <3>6, <3>8, <3>9, FailureByPosition
    <3>11. Before(t) = SubSeq(P, 1, Until(P)) \o SubSeq(td, 1, n)
      BY <1>2, <3>8, <3>9 DEF Before
    <3>12. Executed' = SubSeq(P, 1, Until(P)) \o SubSeq(td, 1, n)
      BY <1>1, <3>1, <3>2, <3>5 DEF Executed
    <3>13. QED
      BY <1>4, <3>10, <3>11, <3>12
  <2>3. QED
    BY <2>1, <2>2 DEF Effective, Scripts
<1>7. DetailAt(t) = IF Bare THEN {} ELSE LastDetail(Before(t))
  BY <1>6, FailureByPosition DEF Bare
<1>8. QED
  BY <1>1, <1>5, <1>6, <1>7

LEMMA NamedOfStep ==
  ASSUME JudgesRight, JudgesName, RunInv, Detailed, Named, [UnityNext]_unityVars
  PROVE  Named'
<1>1. suite' = suite
  BY DEF UnityNext, UnityBegin, UnityDefaultTestRun, UnityStep, UnityConcludeTest, Conclude,
         UnityEnd, unityVars, Work, SetDetails, UnityMessage, TestPass, UnityFail, UnityIgnore,
         TestAssert, UnityAssert, Leave, AbortAgain, FailAndBail, Return, TEST_ABORT
<1>2. ASSUME output' = output PROVE Named'
  BY <1>1, <1>2 DEF Named, NamedAt
<1>3. ASSUME NEW piece \in Piece, output' = Append(output, piece),
             piece.what = "FAIL" =>
                 /\ piece.detail = DetailAt(suite[piece.test])
                 /\ FailedAt(suite[piece.test]).op = "ASSERT" =>
                       Names(FailedAt(suite[piece.test]).call, piece.report)
      PROVE  Named'
  <2>1. output \in Seq(Piece)
    BY DEF RunInv, UnityInv, UnityTypeOK
  <2>2. \A i \in DOMAIN output' : \/ i \in DOMAIN output /\ output'[i] = output[i]
                                  \/ output'[i] = piece
    BY <1>3, <2>1, OneMoreTold
  <2>3. QED
    BY <1>1, <1>3, <2>2 DEF Named, NamedAt
<1>4. CASE UnityBegin \/ UnityDefaultTestRun \/ UnityEnd \/ Leave \/ UNCHANGED unityVars
  BY <1>2, <1>4 DEF UnityBegin, UnityDefaultTestRun, UnityEnd, Leave, unityVars
<1>5. CASE UnityConcludeTest
  <2>1. CASE output' = output
    BY <1>2, <2>1
  <2>2. CASE PrintsOnly("PASS")
    <3>1. PICK piece \in Piece : piece.what = "PASS" /\ output' = Append(output, piece)
      BY <2>2, PieceShown DEF RunInv, UnityInv, PrintsOnly, Verdicts, Reports
    <3>2. QED
      BY <1>3, <3>1
  <2>3. QED
    BY <1>5, <2>1, <2>2 DEF UnityConcludeTest, Conclude
<1>6. CASE UnityStep /\ ~Leave
  <2>1. UnityTypeOK /\ Progress /\ Effective
    BY <1>6, StatementsHaveEffect DEF RunInv, UnityInv
  <2>2. CASE output' = output
    BY <1>2, <2>2
  <2>3. ASSUME NEW piece \in Piece, Shows(piece) PROVE Named'
    <3>1. CASE piece.what # "FAIL"
      BY <1>3, <2>3, <3>1 DEF Shows
    <3>2. CASE piece.what = "FAIL"
      <4>1. /\ Fails /\ piece.test = NumberOfTests /\ output' = Append(output, piece)
            /\ piece.detail = IF Bare THEN {} ELSE CurrentDetail
            /\ Statement.op = "ASSERT" => piece.report = Judge(Statement.call)
        BY <2>3, <3>2 DEF Shows
      <4>2. /\ FailedAt(CurrentTest) = Statement
            /\ DetailAt(CurrentTest) = IF Bare THEN {} ELSE CurrentDetail
        BY <2>1, <4>1, FailsWhereItShould
      <4>3. Statement \in Statements /\ Stops(Statement)
        BY <2>1, <4>1, ExecutedGrows DEF Fails
      <4>4. Statement.op = "ASSERT" => Names(Statement.call, Judge(Statement.call))
        BY <4>3 DEF Stops, JudgesName
      <4>5. CurrentTest = suite[piece.test]
        BY <4>1 DEF CurrentTest
      <4>6. QED
        BY <1>3, <4>1, <4>2, <4>4, <4>5
    <3>3. QED
      BY <3>1, <3>2
  <2>4. QED
    BY <2>1, <2>2, <2>3, OutputOfStatements
<1>7. QED
  BY <1>4, <1>5, <1>6 DEF UnityNext

(***************************************************************************)
(* For all suites on whose calls the assertion functions decide as the     *)
(* macros mean and report what differs, every failure that is printed is   *)
(* that of the statement its test should fail at, with the details this    *)
(* test set last, none of a test before it (UNITY_FAIL_AND_BAIL,           *)
(* UNITY_SET_DETAILS, UnityDefaultTestRun).                                *)
(***************************************************************************)
THEOREM FailuresNamed ==
  ASSUME JudgesRight, JudgesName
  PROVE  UnitySpec => []NamesTheDifference
<1>1. UnityInit => Detailed /\ Named
  <2> SUFFICES ASSUME UnityInit PROVE Detailed /\ Named
    OBVIOUS
  <2>1. phase = "begin" /\ output = <<>> /\ DOMAIN output = {}
    BY EmptySeq DEF UnityInit
  <2>2. QED
    BY <2>1 DEF Detailed, Named, Scripts
<1>2. RunInv /\ Detailed /\ Named /\ [UnityNext]_unityVars => Detailed' /\ Named'
  BY DetailedOfStep, NamedOfStep DEF RunInv
<1>3. Named => NamesTheDifference
  BY DEF Named, NamedAt, NamesTheDifference, PiecesOf
<1>4. QED
  BY <1>1, <1>2, <1>3, RunInvariant, PTL DEF UnitySpec
================================================================================
