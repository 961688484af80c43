------------------------------ MODULE UnityFloats ------------------------------
(***************************************************************************)
(* The floating-point assertions of lib/unity/unity.c.  A finite float is  *)
(* an integer number of some unit, and arithmetic on floats is exact up to *)
(* FLT_MAX, where it overflows to an infinity; how floats are rounded is   *)
(* left out, and so is how UnityPrintFloat writes them.                    *)
(***************************************************************************)
EXTENDS UnityAsserts

CONSTANTS
    FLT_MAX,        \* the largest finite float
    PRECISION       \* UNITY_FLOAT_PRECISION is 1 / PRECISION

ASSUME FloatAssumption == FLT_MAX \in Nat \ {0} /\ PRECISION \in Nat \ {0}

NaN       == [kind |-> "nan", value |-> 0]
Inf(sign) == [kind |-> "inf", value |-> sign]
Float(v)  == CASE v > FLT_MAX  -> Inf(1)
               [] v < -FLT_MAX -> Inf(-1)
               [] OTHER        -> [kind |-> "finite", value |-> v]

UNITY_IS_NAN(x) == x.kind = "nan"
UNITY_IS_INF(x) == x.kind = "inf"
Determinate(x)  == x.kind = "finite"

\* Arithmetic and order: nothing is less than NaN, nor is NaN less than anything.
Magnitude(x) == IF UNITY_IS_INF(x) THEN x.value * (FLT_MAX + 1) ELSE x.value
Less(x, y)   == ~UNITY_IS_NAN(x) /\ ~UNITY_IS_NAN(y) /\ Magnitude(x) < Magnitude(y)

Fabs(x)  == [x EXCEPT !.value = IF x.value < 0 THEN -x.value ELSE x.value]
Plus(x, y) ==
    CASE Determinate(x) /\ Determinate(y) -> Float(x.value + y.value)
      [] UNITY_IS_INF(x) /\ Determinate(y) -> x
      [] Determinate(x) /\ UNITY_IS_INF(y) -> y
      [] UNITY_IS_INF(x) /\ x = y -> x
      [] OTHER -> NaN
Minus(x, y) == Plus(x, [y EXCEPT !.value = -y.value])

\* x * UNITY_FLOAT_PRECISION, but for the sign, which no use of it keeps.
Precise(x) == IF Determinate(x) THEN Float(Fabs(x).value \div PRECISION) ELSE x

Value(x) == [how |-> "float", float |-> x]

--------------------------------------------------------------------------------
\* Mutant: the difference is only asked to be no greater than delta.
FloatsWithinUnordered(delta, expected, actual) ==
    ~Less(Fabs(delta), Fabs(Minus(actual, expected)))

UnityFloatsWithin(delta, expected, actual) ==
    \/ UNITY_IS_INF(expected) /\ UNITY_IS_INF(actual)
         /\ (expected.value < 0) = (actual.value < 0)
    \/ UNITY_IS_NAN(expected) /\ UNITY_IS_NAN(actual)
    \/ LET diff == Fabs(Minus(actual, expected))
       IN  Determinate(diff) /\ ~Less(Fabs(delta), diff)

UnityAssertFloatsWithin(delta, expected, actual) ==
    IF UnityFloatsWithin(delta, expected, actual) THEN Passed
    ELSE Report("float", None, None, Value(expected), Value(actual))

UnityAssertFloatsNotWithin(delta, expected, actual) ==
    IF UnityFloatsWithin(delta, expected, actual)
    THEN Report("float", None, None, Value(expected), Value(actual))
    ELSE Passed

\* An infinite delta accepts all arrays and NaN is no delta; the tolerance of an
\* element is delta and the precision of what is expected.
UnityAssertWithinFloatArray(delta, expected, actual, num_elements, flags) ==
    LET Expect(i) == expected.holds[Walked(flags, i)]
        Actual(i) == actual.holds[i]
        Within(i) == UnityFloatsWithin(Plus(Fabs(delta), Fabs(Precise(Expect(i)))),
                                       Expect(i), Actual(i))
    IN  CASE num_elements = 0 \/ UNITY_IS_NAN(delta) -> Pointless
          [] num_elements > 0 /\ UNITY_IS_INF(delta) -> Passed
          [] num_elements > 0 /\ Determinate(delta) ->
                OfArrays(expected, actual, num_elements,
                         FirstOf({i \in 1 .. num_elements : ~Within(i)},
                                 LAMBDA i : Report("float", i - 1, None, Value(Expect(i)),
                                                                         Value(Actual(i)))))

\* Not being less counts as a failure, not being greater or equal: NaN is neither.
UnityAssertGreaterOrLessFloat(threshold, actual, compare) ==
    LET unordered == \/ ~Less(actual, threshold) /\ "SMALLER_THAN" \in compare
                     \/ ~Less(threshold, actual) /\ "GREATER_THAN" \in compare
        equal     == /\ "EQUAL_TO" \in compare
                     /\ UnityFloatsWithin(Precise(threshold), threshold, actual)
    IN  IF unordered /\ ~equal
        THEN Report("comparison", None, None, Value(threshold), Value(actual))
        ELSE Passed

\* A trait is asked for, or its absence.
Trait == {"INF", "NEG_INF", "NAN", "DET"}
Has(trait, x) == CASE trait = "INF"     -> UNITY_IS_INF(x) /\ x.value > 0
                   [] trait = "NEG_INF" -> UNITY_IS_INF(x) /\ x.value < 0
                   [] trait = "NAN"     -> UNITY_IS_NAN(x)
                   [] trait = "DET"     -> ~UNITY_IS_INF(x) /\ ~UNITY_IS_NAN(x)

UnityAssertFloatSpecial(actual, trait, should_be_trait) ==
    IF Has(trait, actual) = should_be_trait THEN Passed
    ELSE Report("trait", None, None, Nothing, Value(actual))
================================================================================
