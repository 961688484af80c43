------------------------------ MODULE UnityCalls ------------------------------
(***************************************************************************)
(* The assertion macros of unity.h and unity_internals.h: the conversions  *)
(* they apply to their arguments and the function they call.  A call is a  *)
(* record; its field assert names the family of macros, and the style      *)
(* selects a macro of the family (TEST_ASSERT_EQUAL_INT8 is EQUAL in the   *)
(* style of INT8, TEST_ASSERT_EQUAL is EQUAL in the plain style of INT).   *)
(*                                                                         *)
(* Holds says when an assertion should hold, and Differs where it should   *)
(* say that it does not, in terms of the values the arguments have in the  *)
(* type the macro is named for.                                            *)
(***************************************************************************)
EXTENDS UnityFloats

\* Mutant: order converts as equality does.
CastOrderSigned(v, style) == UNITY_INT(Signed(v, ArgSize(style)))

\* Equality converts to the signed type, unless the range is UINT; order and
\* distance convert to the signed type in the signed ranges only.
CastEqual(v, style) ==
    UNITY_INT(IF style.range = "UINT" THEN Unsigned(v, ArgSize(style))
                                      ELSE Signed(v, ArgSize(style)))
CastOrder(v, style) ==
    UNITY_INT(IF RangeInt(style) THEN Signed(v, ArgSize(style))
                                 ELSE Unsigned(v, ArgSize(style)))
CastDelta(v, style) == Unsigned(v, ArgSize(style))

\* Macros that compare every element with one value store it in a union.
UnityNumToPtr(num, size) == [at |-> QUICK, holds |-> <<Unsigned(num, size)>>]
UnityFloatToPtr(num)     == [at |-> QUICK, holds |-> <<num>>]

\* The reports of the calls that reach a comparison: of numbers,
Numbers == {"EQUAL", "BITS", "COMPARE", "WITHIN"}
JudgeNumbers(c) ==
    CASE c.assert = "EQUAL" ->
            UnityAssertEqualNumber(CastEqual(c.expected, c.style),
                                   CastEqual(c.actual, c.style), c.style)
      [] c.assert = "BITS" ->
            UnityAssertBits(UNITY_INT(c.mask), UNITY_INT(c.expected), UNITY_INT(c.actual))
      [] c.assert = "COMPARE" ->
            UnityAssertGreaterOrLessOrEqualNumber(CastOrder(c.threshold, c.style),
                                                  CastOrder(c.actual, c.style),
                                                  c.compare, c.style)
      [] c.assert = "WITHIN" ->
            UnityAssertNumbersWithin(CastDelta(c.delta, c.style), CastOrder(c.expected, c.style),
                                     CastOrder(c.actual, c.style), c.style)

\* of arrays of numbers,
NumberArrays == {"EQUAL_ARRAY", "EACH_EQUAL", "ARRAY_WITHIN"}
JudgeNumberArrays(c) ==
    CASE c.assert = "EQUAL_ARRAY" ->
            UnityAssertEqualIntArray(c.expected, c.actual, c.num_elements, c.style,
                                     "ARRAY_TO_ARRAY")
      [] c.assert = "EACH_EQUAL" ->
            UnityAssertEqualIntArray(UnityNumToPtr(CastEqual(c.value, c.style), c.style.size),
                                     c.actual, c.num_elements, c.style, "ARRAY_TO_VAL")
      [] c.assert = "ARRAY_WITHIN" ->
            UnityAssertNumbersArrayWithin(CastDelta(c.delta, c.style), c.expected, c.actual,
                                          c.num_elements, c.style, "ARRAY_TO_ARRAY")

\* of strings and memory,
Bytes == {"STRING", "STRING_LEN", "STRING_ARRAY", "MEMORY"}
JudgeBytes(c) ==
    CASE c.assert = "STRING" -> UnityAssertEqualString(c.expected, c.actual)
      [] c.assert = "STRING_LEN" -> UnityAssertEqualStringLen(c.expected, c.actual, c.length)
      [] c.assert = "STRING_ARRAY" ->
            UnityAssertEqualStringArray(c.expected, c.actual, c.num_elements, c.flags)
      [] c.assert = "MEMORY" ->
            UnityAssertEqualMemory(c.expected, c.actual, c.length, c.num_elements, c.flags)

\* and of floats.
JudgeFloats(c) ==
    CASE c.assert = "FLOAT_WITHIN" -> UnityAssertFloatsWithin(c.delta, c.expected, c.actual)
      [] c.assert = "FLOAT_NOT_WITHIN" -> UnityAssertFloatsNotWithin(c.delta, c.expected, c.actual)
      [] c.assert = "EQUAL_FLOAT" ->
            UnityAssertFloatsWithin(Precise(c.expected), c.expected, c.actual)
      [] c.assert = "NOT_EQUAL_FLOAT" ->
            UnityAssertFloatsNotWithin(Precise(c.expected), c.expected, c.actual)
      [] c.assert = "EQUAL_FLOAT_ARRAY" ->
            UnityAssertWithinFloatArray(c.delta, c.expected, c.actual, c.num_elements,
                                        "ARRAY_TO_ARRAY")
      [] c.assert = "EACH_EQUAL_FLOAT" ->
            UnityAssertWithinFloatArray(Float(0), UnityFloatToPtr(c.value), c.actual,
                                        c.num_elements, "ARRAY_TO_VAL")
      [] c.assert = "COMPARE_FLOAT" ->
            UnityAssertGreaterOrLessFloat(c.threshold, c.actual, c.compare)
      [] c.assert = "FLOAT_IS" -> UnityAssertFloatSpecial(c.actual, c.trait, TRUE)
      [] c.assert = "FLOAT_IS_NOT" -> UnityAssertFloatSpecial(c.actual, c.trait, FALSE)

\* The macros with a message call the same functions.
Judge(c) == CASE c.assert \in Numbers      -> JudgeNumbers(c)
              [] c.assert \in NumberArrays -> JudgeNumberArrays(c)
              [] c.assert \in Bytes        -> JudgeBytes(c)
              [] OTHER                     -> JudgeFloats(c)

--------------------------------------------------------------------------------
\* The value of an argument, or of an element, in the type of the macro.
InType(v, style, size) == IF RangeInt(style) THEN Signed(v, size) ELSE Unsigned(v, size)
Arg(v, style)     == InType(v, style, ArgSize(style))
Element(v, style) == InType(v, style, style.size)

Gap(a, b) == IF a < b THEN b - a ELSE a - b

\* The order a comparison asks for.
Ordered(compare, actual, threshold) ==
    \/ "GREATER_THAN" \in compare /\ actual > threshold
    \/ "SMALLER_THAN" \in compare /\ actual < threshold
    \/ "EQUAL_TO" \in compare /\ actual = threshold
    \/ compare = {} /\ actual # threshold

\* Two floats that are the same, NaN too, or delta apart at most.
CloseFloat(c) ==
    \/ c.expected = c.actual
    \/ /\ Determinate(c.expected) /\ Determinate(c.actual)
       /\ Gap(c.expected.value, c.actual.value) <= Fabs(c.delta).value

\* Two floats no test should tell apart, by TEST_ASSERT_EQUAL_FLOAT.
SameFloat(expected, actual, delta) ==
    \/ expected = actual
    \/ /\ Determinate(expected) /\ Determinate(actual)
       /\ Gap(expected.value, actual.value) <= delta.value + Precise(expected).value

\* What a trait means to arithmetic: the infinities are beyond all finite floats,
\* NaN has no place in the order, and any other less itself is zero.
Behaves(trait, x) ==
    CASE trait = "INF"     -> Less(Float(FLT_MAX), x)
      [] trait = "NEG_INF" -> Less(x, Float(-FLT_MAX))
      [] trait = "NAN"     -> x # Float(0) /\ ~Less(Float(0), x) /\ ~Less(x, Float(0))
      [] trait = "DET"     -> Minus(x, x) = Float(0)

\* The elements of two arrays, or of an array and a value, that are not alike.
Unlike(c, Alike(_, _)) ==
    {i \in 1 .. c.num_elements : ~Alike(c.expected.holds[i], c.actual.holds[i])}
UnlikeValue(c, Alike(_)) == {i \in 1 .. c.num_elements : ~Alike(c.actual.holds[i])}

\* Where the arguments of a call on arrays differ: 1, 2, ... are the elements.
Differs(c) ==
    LET SameString(p, q) == p.holds = q.holds /\ (p = NULL) = (q = NULL)
        BytesOf(p, i) == SubSeq(p.holds, (i - 1) * c.length + 1, i * c.length)
    IN  CASE c.assert = "EQUAL_ARRAY" ->
                Unlike(c, LAMBDA e, a : Element(e, c.style) = Element(a, c.style))
          [] c.assert = "EACH_EQUAL" ->
                UnlikeValue(c, LAMBDA a : Element(a, c.style) = Element(c.value, c.style))
          [] c.assert = "ARRAY_WITHIN" ->
                Unlike(c, LAMBDA e, a : Gap(Element(e, c.style), Element(a, c.style))
                                           <= Arg(c.delta, [c.style EXCEPT !.range = "UINT"]))
          [] c.assert = "STRING_ARRAY" /\ c.flags = "ARRAY_TO_ARRAY" -> Unlike(c, SameString)
          [] c.assert = "STRING_ARRAY" /\ c.flags = "ARRAY_TO_VAL" ->
                UnlikeValue(c, LAMBDA a : SameString(c.expected, a))
          [] c.assert = "MEMORY" ->
                {i \in 1 .. c.num_elements :
                    BytesOf(c.actual, i) # BytesOf(c.expected, Walked(c.flags, i))}
          [] c.assert = "EQUAL_FLOAT_ARRAY" ->
                IF UNITY_IS_INF(c.delta) THEN {}
                ELSE Unlike(c, LAMBDA e, a : SameFloat(e, a, Fabs(c.delta)))
          [] c.assert = "EACH_EQUAL_FLOAT" ->
                UnlikeValue(c, LAMBDA a : SameFloat(c.value, a, Float(0)))

Arrays == NumberArrays \cup {"STRING_ARRAY", "MEMORY", "EQUAL_FLOAT_ARRAY", "EACH_EQUAL_FLOAT"}

\* There is nothing to compare, or no way to.
Senseless(c) == \/ c.num_elements = 0
                \/ c.assert = "MEMORY" /\ c.length = 0
                \/ c.assert = "EQUAL_FLOAT_ARRAY" /\ UNITY_IS_NAN(c.delta)

\* The same array, or no array on both sides; "EACH" macros compare with a value.
OneValue(c)  == c.assert \in {"EACH_EQUAL", "EACH_EQUAL_FLOAT"}
SameArray(c) == ~OneValue(c) /\ c.expected.at = c.actual.at
NoArray(c)   == c.actual = NULL \/ (~OneValue(c) /\ c.expected = NULL)

\* Infinite tolerance accepts whatever there is, or is not.
Tolerant(c) == c.assert = "EQUAL_FLOAT_ARRAY" /\ UNITY_IS_INF(c.delta)

HoldsOfArrays(c) ==
    ~Senseless(c) /\ (Tolerant(c) \/ SameArray(c) \/ (~NoArray(c) /\ Differs(c) = {}))

DifferentBits(c) == {i \in BitsOf(c.mask) : ~(i \in BitsOf(c.expected) <=> i \in BitsOf(c.actual))}

HoldsOfValues(c) ==
    CASE c.assert = "EQUAL"   -> Arg(c.expected, c.style) = Arg(c.actual, c.style)
      [] c.assert = "BITS"    -> DifferentBits(c) = {}
      [] c.assert = "COMPARE" -> Ordered(c.compare, Arg(c.actual, c.style),
                                                    Arg(c.threshold, c.style))
      [] c.assert = "WITHIN"  -> Gap(Arg(c.expected, c.style), Arg(c.actual, c.style))
                                   <= Arg(c.delta, [c.style EXCEPT !.range = "UINT"])
      [] c.assert = "STRING"  -> c.expected.holds = c.actual.holds
                                   /\ (c.expected = NULL) = (c.actual = NULL)
      [] c.assert = "STRING_LEN" ->
            LET Prefix(s) == SubSeq(s, 1, Min({Len(s), c.length}))
            IN  /\ Prefix(c.expected.holds) = Prefix(c.actual.holds)
                /\ (c.expected = NULL) = (c.actual = NULL)
      [] c.assert = "FLOAT_WITHIN"     -> CloseFloat(c)
      [] c.assert = "FLOAT_NOT_WITHIN" -> ~CloseFloat(c)
      [] c.assert = "EQUAL_FLOAT"     -> SameFloat(c.expected, c.actual, Float(0))
      [] c.assert = "NOT_EQUAL_FLOAT" -> ~SameFloat(c.expected, c.actual, Float(0))
      [] c.assert = "COMPARE_FLOAT" ->
            \/ Less(c.threshold, c.actual) /\ "GREATER_THAN" \in c.compare
            \/ Less(c.actual, c.threshold) /\ "SMALLER_THAN" \in c.compare
            \/ SameFloat(c.threshold, c.actual, Float(0)) /\ "EQUAL_TO" \in c.compare
      [] c.assert = "FLOAT_IS"     -> Behaves(c.trait, c.actual)
      [] c.assert = "FLOAT_IS_NOT" -> ~Behaves(c.trait, c.actual)

Holds(c) == IF c.assert \in Arrays THEN HoldsOfArrays(c) ELSE HoldsOfValues(c)

--------------------------------------------------------------------------------
\* The report a reader of the failure needs: which element, which byte, and values.
ShowsNumbers(r, expected, was) == Denotes(r.expected) = expected /\ Denotes(r.was) = was

NamesElement(c, r) ==
    LET i == Min(Differs(c))
        Byte(p, k)  == p.holds[((IF p = c.actual THEN i ELSE Walked(c.flags, i)) - 1) * c.length + k]
        bytes == {k \in 1 .. c.length : Byte(c.expected, k) # Byte(c.actual, k)}
    IN  /\ r.element = IF c.num_elements = 1 /\ c.assert \in {"MEMORY", "STRING_ARRAY"}
                       THEN None ELSE i - 1
        /\ CASE c.assert \in {"EQUAL_ARRAY", "ARRAY_WITHIN"} ->
                  ShowsNumbers(r, Element(c.expected.holds[i], c.style),
                                  Element(c.actual.holds[i], c.style))
             [] c.assert = "EACH_EQUAL" ->
                  ShowsNumbers(r, Element(c.value, c.style), Element(c.actual.holds[i], c.style))
             [] c.assert = "MEMORY" ->
                  /\ r.byte = Min(bytes) - 1
                  /\ ShowsNumbers(r, Byte(c.expected, Min(bytes)), Byte(c.actual, Min(bytes)))
             [] c.assert = "STRING_ARRAY" -> r.expected # r.was
             [] c.assert = "EQUAL_FLOAT_ARRAY" ->
                  r.expected.float = c.expected.holds[i] /\ r.was.float = c.actual.holds[i]
             [] c.assert = "EACH_EQUAL_FLOAT" ->
                  r.expected.float = c.value /\ r.was.float = c.actual.holds[i]

\* Bits beyond those of an int are compared, but not shown.
NamesValues(c, r) ==
    CASE c.assert \in {"EQUAL", "WITHIN"} ->
            ShowsNumbers(r, Arg(c.expected, c.style), Arg(c.actual, c.style))
      [] c.assert = "COMPARE" ->
            ShowsNumbers(r, Arg(c.threshold, c.style), Arg(c.actual, c.style))
      [] c.assert = "BITS" -> (r.expected # r.was)
                                <=> DifferentBits(c) \cap 0 .. Width(INT_SIZE) - 1 # {}
      [] OTHER -> \/ r.expected # r.was
                  \/ c.assert \in {"NOT_EQUAL_FLOAT", "FLOAT_NOT_WITHIN", "COMPARE_FLOAT"}

Names(c, r) ==
    IF c.assert \notin Arrays THEN NamesValues(c, r)
    ELSE IF Senseless(c) THEN r.what = "pointless"
    ELSE IF NoArray(c) THEN r.what = IF c.actual = NULL THEN "actual NULL" ELSE "expected NULL"
    ELSE NamesElement(c, r)
================================================================================
