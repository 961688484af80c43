--------------------------------- MODULE Unity ---------------------------------
(***************************************************************************)
(* The runner of lib/unity: UNITY_BEGIN, RUN_TEST for each test of a       *)
(* suite, UNITY_END.  A test is three scripts, what setUp, the test        *)
(* function and tearDown do for it; a statement of a script is a call into *)
(* Unity or the test's own work.  TEST_PROTECT and TEST_ABORT, that is     *)
(* setjmp and longjmp, leave a script before its end.                      *)
(***************************************************************************)
EXTENDS UnityCalls

CONSTANTS
    Statements,     \* what a test may do next
    Details,        \* what UNITY_SET_DETAILS may be given
    Suites          \* the test programs

Test == [setUp : Seq(Statements), body : Seq(Statements), tearDown : Seq(Statements)]

ASSUME DetailsAssumption == {} \notin Details
ASSUME StatementsAssumption ==
    \A s \in Statements :
        \/ s.op \in {"WORK", "MESSAGE", "PASS", "IGNORE"}
        \/ s.op = "FAIL" /\ s.message \in BOOLEAN
        \/ s.op = "SET_DETAILS" /\ s.detail \in Details
        \/ s.op = "CONDITION" /\ s.true \in BOOLEAN
        \/ s.op = "ASSERT" /\ s.call.assert \in STRING
ASSUME SuitesAssumption == Suites \subseteq Seq(Test)

VARIABLES
    suite,                  \* the program: its tests, in order
    phase,                  \* what is running
    reached,                \* the statements the current test began
    NumberOfTests, TestFailures, TestIgnores,
    CurrentTestFailed, CurrentTestIgnored,
    CurrentDetail,          \* CurrentDetail1 and CurrentDetail2, {} when they are 0
    output                  \* what is printed, in pieces

counters == <<NumberOfTests, TestFailures, TestIgnores>>
flags    == <<CurrentTestFailed, CurrentTestIgnored>>
unityVars == <<suite, phase, reached, counters, flags, CurrentDetail, output>>

Scripts == {"setUp", "body", "tearDown"}
Phases  == {"begin", "main", "conclude", "ended"} \cup Scripts
Verdicts == {"PASS", "FAIL", "IGNORE"}

Failure == Report("fail", None, None, Nothing, Nothing)
Reports == {Judge(s.call) : s \in {t \in Statements : t.op = "ASSERT"}} \cup {Passed, Failure}

Piece == [what : Verdicts \cup {"INFO"}, test : Nat,
          report : Reports, detail : Details \cup {{}}]

UnityInit == /\ suite \in Suites
             /\ phase = "begin"
             /\ reached = [s \in Scripts |-> 0]
             /\ NumberOfTests = 0 /\ TestFailures = 0 /\ TestIgnores = 0
             /\ CurrentTestFailed = FALSE /\ CurrentTestIgnored = FALSE
             /\ CurrentDetail = {}
             /\ output = <<>>

--------------------------------------------------------------------------------
\* Output.

Prints(what, report, detail) ==
    output' = Append(output, [what |-> what, test |-> NumberOfTests,
                              report |-> report, detail |-> detail])
PrintsOnly(what) == Prints(what, Passed, {})

\* UnityBegin resets the storage, which is zero when the program starts.
UnityBegin == /\ phase = "begin"
              /\ phase' = "main"
              /\ NumberOfTests' = 0 /\ TestFailures' = 0 /\ TestIgnores' = 0
              /\ CurrentTestFailed' = FALSE /\ CurrentTestIgnored' = FALSE
              /\ CurrentDetail' = {}
              /\ UNCHANGED <<suite, reached, output>>

\* UnityDefaultTestRun up to the first TEST_PROTECT.
UnityDefaultTestRun == /\ phase = "main"
                       /\ NumberOfTests < Len(suite)
                       /\ NumberOfTests' = NumberOfTests + 1
                       /\ CurrentDetail' = {}
                       /\ phase' = "setUp"
                       /\ reached' = [s \in Scripts |-> 0]
                       /\ UNCHANGED <<suite, TestFailures, TestIgnores, flags, output>>

--------------------------------------------------------------------------------
\* Statements of the current test.

CurrentTest == suite[NumberOfTests]
Script      == CurrentTest[phase]
Statement   == Script[reached[phase] + 1]

At(op) == /\ phase \in Scripts
          /\ reached[phase] < Len(Script)
          /\ Statement.op = op

Begun == reached' = [reached EXCEPT ![phase] = @ + 1]

\* The statement returns.
Return == Begun /\ UNCHANGED <<suite, phase, counters>>

\* Mutant: tearDown runs under the TEST_PROTECT of the test.
ABORT_TO_TEST == /\ reached' = IF phase = "tearDown" THEN [reached EXCEPT ![phase] = 0]
                                                     ELSE [reached EXCEPT ![phase] = @ + 1]
                 /\ phase' = "tearDown"
                 /\ UNCHANGED <<suite, counters>>

\* TEST_ABORT: longjmp to the last TEST_PROTECT that was entered.
TEST_ABORT == /\ Begun
              /\ phase' = IF phase = "tearDown" THEN "conclude" ELSE "tearDown"
              /\ UNCHANGED <<suite, counters>>

\* RETURN_IF_FAIL_OR_IGNORE aborts the test once it has failed or is ignored.
FailOrIgnore == CurrentTestFailed \/ CurrentTestIgnored
AbortAgain   == FailOrIgnore /\ TEST_ABORT /\ UNCHANGED <<flags, CurrentDetail, output>>

\* UNITY_FAIL_AND_BAIL, after the failure is printed.
FailAndBail(report, detail) == /\ ~FailOrIgnore
                               /\ Prints("FAIL", report, detail)
                               /\ CurrentTestFailed' = TRUE
                               /\ TEST_ABORT
                               /\ UNCHANGED <<CurrentTestIgnored, CurrentDetail>>

Work == /\ At("WORK")
        /\ Return
        /\ UNCHANGED <<flags, CurrentDetail, output>>

SetDetails == /\ At("SET_DETAILS")
              /\ CurrentDetail' = Statement.detail
              /\ Return
              /\ UNCHANGED <<flags, output>>

UnityMessage == /\ At("MESSAGE")
                /\ PrintsOnly("INFO")
                /\ Return
                /\ UNCHANGED <<flags, CurrentDetail>>

\* TEST_PASS leaves the script and looks at nothing.
TestPass == /\ At("PASS")
            /\ TEST_ABORT
            /\ UNCHANGED <<flags, CurrentDetail, output>>

\* The details are a part of the message: TEST_FAIL has none.
UnityFail == /\ At("FAIL")
             /\ \/ AbortAgain
                \/ FailAndBail(Failure, IF Statement.message THEN CurrentDetail ELSE {})

\* Mutant: a failed test may be ignored afterwards.
IgnoreAnyway == /\ At("IGNORE")
                /\ PrintsOnly("IGNORE")
                /\ CurrentTestIgnored' = TRUE
                /\ TEST_ABORT
                /\ UNCHANGED <<CurrentTestFailed, CurrentDetail>>

UnityIgnore == /\ At("IGNORE")
               /\ \/ AbortAgain
                  \/ /\ ~FailOrIgnore
                     /\ PrintsOnly("IGNORE")
                     /\ CurrentTestIgnored' = TRUE
                     /\ TEST_ABORT
                     /\ UNCHANGED <<CurrentTestFailed, CurrentDetail>>

\* TEST_ASSERT and its kin are the test's own condition: only a false one calls
\* UnityFail.
TestAssert == /\ At("CONDITION")
              /\ \/ /\ Statement.true
                    /\ Return
                    /\ UNCHANGED <<flags, CurrentDetail, output>>
                 \/ ~Statement.true /\ (AbortAgain \/ FailAndBail(Failure, CurrentDetail))

\* All the other assertions call a function that looks at the flags first.
UnityAssert == /\ At("ASSERT")
               /\ \/ AbortAgain
                  \/ /\ ~FailOrIgnore
                     /\ Judge(Statement.call) = Passed
                     /\ Return
                     /\ UNCHANGED <<flags, CurrentDetail, output>>
                  \/ /\ Judge(Statement.call) # Passed
                     /\ FailAndBail(Judge(Statement.call), CurrentDetail)

\* A script comes to its end.
Leave == /\ phase \in Scripts
         /\ reached[phase] = Len(Script)
         /\ phase' = CASE phase = "setUp" -> "body"
                       [] phase = "body"  -> "tearDown"
                       [] phase = "tearDown" -> "conclude"
         /\ UNCHANGED <<suite, reached, counters, flags, CurrentDetail, output>>

--------------------------------------------------------------------------------
\* The end of a test, and of the suite.

\* What UnityConcludeTest counts and prints: a failure, or that the test is
\* ignored, is printed already.
Conclude == /\ phase = "conclude"
            /\ phase' = "main"
            /\ \/ /\ CurrentTestIgnored
                  /\ TestIgnores' = TestIgnores + 1
                  /\ UNCHANGED <<TestFailures, output>>
               \/ /\ ~FailOrIgnore
                  /\ PrintsOnly("PASS")
                  /\ UNCHANGED <<TestFailures, TestIgnores>>
               \/ /\ CurrentTestFailed /\ ~CurrentTestIgnored
                  /\ TestFailures' = TestFailures + 1
                  /\ UNCHANGED <<TestIgnores, output>>
            /\ UNCHANGED <<suite, reached, NumberOfTests, CurrentDetail>>

\* Mutant: the flags of a test are left to the next one.
ConcludeWithoutReset == Conclude /\ UNCHANGED flags

UnityConcludeTest == Conclude /\ CurrentTestFailed' = FALSE /\ CurrentTestIgnored' = FALSE

\* UnityEnd prints the counters and returns TestFailures.
UnityEnd == /\ phase = "main"
            /\ NumberOfTests = Len(suite)
            /\ phase' = "ended"
            /\ UNCHANGED <<suite, reached, counters, flags, CurrentDetail, output>>

UnityStep == Work \/ SetDetails \/ UnityMessage \/ TestPass \/ UnityFail \/ UnityIgnore
               \/ TestAssert \/ UnityAssert \/ Leave

UnityNext == UnityBegin \/ UnityDefaultTestRun \/ UnityStep \/ UnityConcludeTest \/ UnityEnd

\* The program runs on: work a test does of its own returns.
UnitySpec == UnityInit /\ [][UnityNext]_unityVars /\ WF_unityVars(UnityNext)

--------------------------------------------------------------------------------
(***************************************************************************)
(* What a suite should report, from its scripts and what the assertions    *)
(* mean, whatever Unity does.                                              *)
(***************************************************************************)

\* The statements that end a script, and those that end it once the test has failed
\* or is ignored: an assertion that holds is one of them, a condition is not.
Stops(s) == \/ s.op \in {"PASS", "FAIL", "IGNORE"}
            \/ s.op = "CONDITION" /\ ~s.true
            \/ s.op = "ASSERT" /\ ~Holds(s.call)
Looks(s) == Stops(s) \/ s.op = "ASSERT"

Where(script, Is(_)) == {i \in DOMAIN script : Is(script[i])}
First(script, Is(_)) == script[Min(Where(script, Is))]
UpTo(script, Is(_))  == IF Where(script, Is) = {} THEN Len(script) ELSE Min(Where(script, Is))

VerdictOf(script) ==
    IF Where(script, Stops) = {} \/ First(script, Stops).op = "PASS" THEN "PASS"
    ELSE IF First(script, Stops).op = "IGNORE" THEN "IGNORE" ELSE "FAIL"

\* setUp and the test function run under one TEST_PROTECT, tearDown under its own.
Protected(t) == t.setUp \o t.body
Verdict(t) == IF VerdictOf(Protected(t)) # "PASS" THEN VerdictOf(Protected(t))
                                                  ELSE VerdictOf(t.tearDown)

ShouldReach(t) ==
    LET upTo == UpTo(Protected(t), Stops)
    IN  [setUp    |-> Min({upTo, Len(t.setUp)}),
         body     |-> Max({upTo - Len(t.setUp), 0}),
         tearDown |-> IF VerdictOf(Protected(t)) = "PASS" THEN UpTo(t.tearDown, Stops)
                                                          ELSE UpTo(t.tearDown, Looks)]

\* The statement a failed test fails at, and the details that were set before.
InTearDown(t)   == VerdictOf(Protected(t)) # "FAIL"
FailedScript(t) == IF InTearDown(t) THEN t.tearDown ELSE Protected(t)
FailedAt(t) == First(FailedScript(t), Stops)
DetailAt(t) ==
    LET IsDetail(s) == s.op = "SET_DETAILS"
        before == (IF InTearDown(t) THEN SubSeq(Protected(t), 1, UpTo(Protected(t), Stops))
                                    ELSE <<>>)
                    \o SubSeq(FailedScript(t), 1, UpTo(FailedScript(t), Stops))
        bare == FailedAt(t).op = "FAIL" /\ ~FailedAt(t).message
    IN  IF bare \/ Where(before, IsDetail) = {} THEN {}
        ELSE before[Max(Where(before, IsDetail))].detail

Between   == phase \in {"begin", "main", "ended"}
Concluded == 1 .. (IF Between THEN NumberOfTests ELSE NumberOfTests - 1)

PiecesOf(what) == {i \in DOMAIN output : output[i].what = what}

--------------------------------------------------------------------------------
(***************************************************************************)
(* Types; a script is never left behind its end, and no test is both       *)
(* failed and ignored: UnityFail and UnityIgnore return to a test that is  *)
(* one of the two only by aborting it.                                     *)
(***************************************************************************)
UnityTypeOK ==
    /\ suite \in Suites
    /\ phase \in Phases
    /\ reached \in [Scripts -> Nat]
    /\ NumberOfTests \in 0 .. Len(suite) /\ TestFailures \in Nat /\ TestIgnores \in Nat
    /\ CurrentTestFailed \in BOOLEAN /\ CurrentTestIgnored \in BOOLEAN
    /\ CurrentDetail \in Details \cup {{}}
    /\ output \in Seq(Piece)
    /\ phase \in Scripts \cup {"conclude"} =>
          NumberOfTests > 0 /\ \A s \in Scripts : reached[s] <= Len(CurrentTest[s])
    /\ ~(CurrentTestFailed /\ CurrentTestIgnored)

(***************************************************************************)
(* Between two tests, and when UnityEnd returns TestFailures, the counters *)
(* are those of the verdicts that were printed: every test that ran had    *)
(* exactly one, however often its scripts were aborted.                    *)
(***************************************************************************)
CountsWhatItPrinted ==
    phase \in {"main", "ended"} =>
        /\ TestFailures = Cardinality(PiecesOf("FAIL"))
        /\ TestIgnores = Cardinality(PiecesOf("IGNORE"))
        /\ NumberOfTests = TestFailures + TestIgnores + Cardinality(PiecesOf("PASS"))

(***************************************************************************)
(* The verdict of a test is that of the first statement of it that does    *)
(* not hold, in setUp, the test and tearDown, whatever its tearDown and    *)
(* the tests before it did: an assertion fails just when its arguments, in *)
(* the type the macro is named for, are not as it says.                    *)
(***************************************************************************)
VerdictsAreRight ==
    \A n \in Concluded, v \in Verdicts :
        (\E i \in PiecesOf(v) : output[i].test = n) <=> Verdict(suite[n]) = v

(***************************************************************************)
(* A script is run up to the statement that ends it: nothing of a test     *)
(* runs after a failure in setUp or in the test itself, tearDown runs in   *)
(* any case, but after a failure no further than to its first assertion,   *)
(* even one that holds.                                                    *)
(***************************************************************************)
ReachesWhatItShould == phase = "conclude" => reached = ShouldReach(CurrentTest)

(***************************************************************************)
(* A failure with a message has the details its own test set, and names    *)
(* what is wrong: of arrays the first element that differs, of memory the  *)
(* first byte, and the numbers on the line denote the values of the        *)
(* arguments in the type of the macro.                                     *)
(***************************************************************************)
NamesTheDifference ==
    \A i \in PiecesOf("FAIL") :
        LET t == suite[output[i].test]
        IN  /\ output[i].detail = DetailAt(t)
            /\ FailedAt(t).op = "ASSERT" => Names(FailedAt(t).call, output[i].report)

(***************************************************************************)
(* Every suite comes to its end: a TEST_ABORT always leaves its script for *)
(* good, in tearDown, too.                                                 *)
(***************************************************************************)
SuiteEnds == <>(phase = "ended")
================================================================================
