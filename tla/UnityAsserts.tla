----------------------------- MODULE UnityAsserts -----------------------------
(***************************************************************************)
(* The assertions of lib/unity/unity.c as functions of their arguments:    *)
(* the report of the failure an assertion prints, or Passed.  A call is a  *)
(* record of the assertion and its arguments, as a test passes them to the *)
(* macros of unity.h.                                                      *)
(*                                                                         *)
(* A pointer is an address and what is stored there, one entry for each    *)
(* element; an element of an integer array is an unsigned number of the    *)
(* element's size, the bytes in memory.                                    *)
(***************************************************************************)
EXTENDS UnityNumbers

NULL  == [at |-> 0, holds |-> <<>>]
QUICK == 1                \* the address of the union UnityQuickCompare
NUL   == 0                \* the character that ends a string

None == -1                \* there is no element, or no byte, to name

\* What is printed after FAIL, the message of the test left out.
Report(what, element, byte, expected, was) ==
    [what |-> what, element |-> element, byte |-> byte,
     expected |-> expected, was |-> was]

Passed    == Report("passed",    None, None, Nothing, Nothing)
Pointless == Report("pointless", None, None, Nothing, Nothing)

Text(string) == Printed("text", FALSE, string)

--------------------------------------------------------------------------------
\* Scalars.

UnityAssertEqualNumber(expected, actual, style) ==
    IF expected = actual THEN Passed
    ELSE Report("number", None, None, UnityPrintNumberByStyle(expected, style),
                                      UnityPrintNumberByStyle(actual, style))

UnityAssertBits(mask, expected, actual) ==
    IF BitsOf(mask) \cap BitsOf(expected) = BitsOf(mask) \cap BitsOf(actual) THEN Passed
    ELSE Report("bits", None, None, UnityPrintMask(mask, expected),
                                    UnityPrintMask(mask, actual))

\* UNITY_COMPARISON_T: a set of bits; UNITY_NOT_EQUAL has none.
Comparison == {{}, {"GREATER_THAN"}, {"SMALLER_THAN"},
               {"GREATER_THAN", "EQUAL_TO"}, {"SMALLER_THAN", "EQUAL_TO"}}

\* Numbers of a signed style are compared as they are, others as UNITY_UINT.
Above(a, b, style) == IF RangeInt(style) THEN a > b ELSE UNITY_UINT(a) > UNITY_UINT(b)

UnityAssertGreaterOrLessOrEqualNumber(threshold, actual, compare, style) ==
    LET failed == \/ threshold = actual /\ "EQUAL_TO" \notin compare
                  \/ Above(actual, threshold, style) /\ "SMALLER_THAN" \in compare
                  \/ Above(threshold, actual, style) /\ "GREATER_THAN" \in compare
    IN  IF failed THEN Report("comparison", None, None,
                              UnityPrintNumberByStyle(threshold, style),
                              UnityPrintNumberByStyle(actual, style))
                  ELSE Passed

\* Mutant: a difference that overflows the signed type looks small.
DistanceSigned(a, b, style) == IF Above(a, b, style) THEN UNITY_INT(a - b)
                                                     ELSE UNITY_INT(b - a)

\* The distance of two numbers, and whether it is more than delta: the larger one
\* is found in the range of the style, the difference is a UNITY_UINT.
Distance(a, b, style) == IF Above(a, b, style) THEN UNITY_UINT(UNITY_UINT(a) - UNITY_UINT(b))
                                               ELSE UNITY_UINT(UNITY_UINT(b) - UNITY_UINT(a))
Apart(delta, expected, actual, style) == Distance(actual, expected, style) > delta

UnityAssertNumbersWithin(delta, expected, actual, style) ==
    IF Apart(delta, expected, actual, style)
    THEN Report("delta", None, None, UnityPrintNumberByStyle(expected, style),
                                     UnityPrintNumberByStyle(actual, style))
    ELSE Passed

--------------------------------------------------------------------------------
\* Arrays.

UnityIsOneArrayNull(expected, actual) ==
    CASE expected = NULL /\ actual # NULL -> Report("expected NULL", None, None, Nothing, Nothing)
      [] expected # NULL /\ actual = NULL -> Report("actual NULL", None, None, Nothing, Nothing)
      [] OTHER -> Passed

\* What all the array assertions do first; report is what the elements lead to.
OfArrays(expected, actual, num_elements, report) ==
    CASE num_elements = 0 -> Pointless
      [] num_elements # 0 /\ expected.at = actual.at -> Passed
      [] num_elements # 0 /\ expected.at # actual.at /\ NULL \in {expected, actual} ->
            UnityIsOneArrayNull(expected, actual)
      [] OTHER -> report

\* The report of the first of the elements 1 .. n that is wrong.
FirstOf(wrong, ReportOf(_)) == IF wrong = {} THEN Passed ELSE ReportOf(Min(wrong))

\* UNITY_ARRAY_TO_VAL leaves the pointer to the expected value where it is.
Walked(flags, i) == IF flags = "ARRAY_TO_ARRAY" THEN i ELSE 1

\* Mutant: the sign is masked away in every range.
MaskedAlways(element, style) == Unsigned(element, style.size)

\* Loads of an element: UnityAssertEqualIntArray reads it signed and masks the
\* sign away (but not that of eight bytes), UnityAssertNumbersArrayWithin reads
\* it in the range of the style.
Masked(element, style) ==
    IF RangeInt(style) \/ style.size = 8 THEN Signed(element, style.size)
                                         ELSE Unsigned(Signed(element, style.size), style.size)
Ranged(element, style) == UNITY_INT(IF RangeInt(style) THEN Signed(element, style.size)
                                                       ELSE Unsigned(element, style.size))

UnityAssertEqualIntArray(expected, actual, num_elements, style, flags) ==
    LET Expect(i) == Masked(expected.holds[Walked(flags, i)], style)
        Actual(i) == Masked(actual.holds[i], style)
    IN  OfArrays(expected, actual, num_elements,
                 FirstOf({i \in 1 .. num_elements : Expect(i) # Actual(i)},
                         LAMBDA i : Report("number", i - 1, None,
                                           UnityPrintNumberByStyle(Expect(i), style),
                                           UnityPrintNumberByStyle(Actual(i), style))))

UnityAssertNumbersArrayWithin(delta, expected, actual, num_elements, style, flags) ==
    LET Expect(i) == Ranged(expected.holds[Walked(flags, i)], style)
        Actual(i) == Ranged(actual.holds[i], style)
    IN  OfArrays(expected, actual, num_elements,
                 FirstOf({i \in 1 .. num_elements : Apart(delta, Expect(i), Actual(i), style)},
                         LAMBDA i : Report("delta", i - 1, None,
                                           UnityPrintNumberByStyle(Expect(i), style),
                                           UnityPrintNumberByStyle(Actual(i), style))))

UnityAssertEqualMemory(expected, actual, length, num_elements, flags) ==
    LET Offset(i)  == (Walked(flags, i) - 1) * length
        Differs(i) == {k \in 1 .. length :
                          expected.holds[Offset(i) + k] # actual.holds[(i - 1) * length + k]}
        ReportOf(i) ==
            LET k == Min(Differs(i))
            IN  Report("memory", IF num_elements > 1 THEN i - 1 ELSE None, k - 1,
                       UnityPrintNumberByStyle(expected.holds[Offset(i) + k], HEX8),
                       UnityPrintNumberByStyle(actual.holds[(i - 1) * length + k], HEX8))
    IN  IF length = 0 THEN Pointless
        ELSE OfArrays(expected, actual, num_elements,
                      FirstOf({i \in 1 .. num_elements : Differs(i) # {}}, ReportOf))

--------------------------------------------------------------------------------
\* Strings.

\* Strings are compared up to the first difference, so never beyond the end of
\* the shorter one, and not beyond the limit.
CharAt(string, i) == IF i <= Len(string) THEN string[i] ELSE NUL
StringsDiffer(expected, actual, limit) ==
    \E i \in 1 .. Min({Len(expected) + 1, Len(actual) + 1, limit}) :
        CharAt(expected, i) # CharAt(actual, i)

\* One of the two is NULL, or they differ; two NULL are equal.
PointersDiffer(expected, actual, limit) ==
    IF NULL \in {expected, actual} THEN expected # actual
    ELSE StringsDiffer(expected.holds, actual.holds, limit)

UnityPrintExpectedAndActualStrings(element, expected, actual, limit) ==
    LET Shown(p) == IF p = NULL THEN Nothing
                    ELSE Text(SubSeq(p.holds, 1, Min({Len(p.holds), limit})))
    IN  Report("string", element, None, Shown(expected), Shown(actual))

UnityAssertEqualStringLen(expected, actual, length) ==
    IF PointersDiffer(expected, actual, length)
    THEN UnityPrintExpectedAndActualStrings(None, expected, actual, length)
    ELSE Passed

\* Long enough for both strings and the characters that end them.
Unlimited(expected, actual) == Len(expected.holds) + Len(actual.holds) + 1

UnityAssertEqualString(expected, actual) ==
    UnityAssertEqualStringLen(expected, actual, Unlimited(expected, actual))

\* The elements of actual are pointers to strings; so are those of expected, but
\* with UNITY_ARRAY_TO_VAL expected is the string itself.
UnityAssertEqualStringArray(expected, actual, num_elements, flags) ==
    LET Expect(i)  == IF flags = "ARRAY_TO_ARRAY" THEN expected.holds[i] ELSE expected
        Actual(i)  == actual.holds[i]
        Limit(i)   == Unlimited(Expect(i), Actual(i))
        ReportOf(i) == UnityPrintExpectedAndActualStrings(
                           IF num_elements > 1 THEN i - 1 ELSE None,
                           Expect(i), Actual(i), Limit(i))
    IN  OfArrays(expected, actual, num_elements,
                 FirstOf({i \in 1 .. num_elements :
                              PointersDiffer(Expect(i), Actual(i), Limit(i))}, ReportOf))
================================================================================
