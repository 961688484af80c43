-------------------------------- MODULE MCUnity --------------------------------
(***************************************************************************)
(* Two kinds of suites: one test with one assertion, for every assertion   *)
(* and arguments at the edges of the types (bytes of two bits: an INT8 is  *)
(* -2 .. 1, a UNITY_INT has sixteen bits); and tests of short scripts of   *)
(* every kind of statement, alone and in pairs.                            *)
(***************************************************************************)
EXTENDS Unity

\* Arguments as a test may write them: beyond the edges of the narrower types, too.
Integers_ == {-32768, -129, -3, -1, 0, 1, 2, 128, 32767}
Deltas    == {0, 2, 65535}
Masks     == {0, 6, -32768, -1}

Scalars ==
    [assert : {"EQUAL"}, style : Style, expected : Integers_, actual : Integers_]
    \cup [assert : {"COMPARE"}, style : Style, compare : Comparison,
          threshold : Integers_, actual : Integers_]
    \cup [assert : {"WITHIN"}, style : Style, delta : Deltas,
          expected : Integers_, actual : Integers_]
    \cup [assert : {"BITS"}, mask : Masks, expected : Masks, actual : Masks]

\* Pointers to arrays: NULL, and arrays at two addresses.
Block(at, contents) == {[at |-> at, holds |-> h] : h \in contents}
Pairs(contents) == {<<e, a>> \in (Block(2, contents) \cup {NULL}) \X
                                 (Block(2, contents) \cup Block(3, contents) \cup {NULL}) :
                        e.at = a.at => e = a}

\* Arrays of two elements of size bytes: least, largest, and one, signed and unsigned.
IntContents(size) == LET least == 2^(Width(size) - 1)
                     IN  {<<1, least>>, <<1, 1>>, <<least, least>>, <<2^Width(size) - 1, 1>>}

Few == {0, 1, 2}
IntArrays(style) ==
    LET contents == IntContents(style.size)
    IN  {[assert |-> "EQUAL_ARRAY", style |-> style, expected |-> p[1], actual |-> p[2],
          num_elements |-> n] : p \in Pairs(contents), n \in {0, 2}}
        \cup {[assert |-> "ARRAY_WITHIN", style |-> style, delta |-> 1, expected |-> p[1],
               actual |-> p[2], num_elements |-> 2] : p \in Pairs(contents)}
        \cup {[assert |-> "EACH_EQUAL", style |-> style, value |-> v, actual |-> a,
               num_elements |-> n] :
                  a \in Block(3, contents) \cup {NULL}, v \in {-1, 1, 2}, n \in Few}

\* Characters are numbers; a string is at 4 or 5, an array of pointers at 2 or 3.
Strings == {<<>>, <<1>>, <<1, 2>>, <<1, 2, 1>>, <<1, 3>>}
Quoted  == {NULL, [at |-> 4, holds |-> <<1>>], [at |-> 5, holds |-> <<>>]}
StringCalls ==
    {[assert |-> "STRING", expected |-> p[1], actual |-> p[2]] : p \in Pairs(Strings)}
    \cup {[assert |-> "STRING_LEN", expected |-> p[1], actual |-> p[2], length |-> n] :
              p \in Pairs(Strings), n \in Few}
    \cup {[assert |-> "STRING_ARRAY", expected |-> p[1], actual |-> p[2], num_elements |-> n,
           flags |-> "ARRAY_TO_ARRAY"] : p \in Pairs(Quoted \X Quoted), n \in Few}
    \cup {[assert |-> "STRING_ARRAY", expected |-> e, actual |-> a, num_elements |-> n,
           flags |-> "ARRAY_TO_VAL"] :
              e \in Quoted, a \in Block(3, Quoted \X Quoted), n \in Few}

MemoryCalls ==
    {[assert |-> "MEMORY", expected |-> p[1], actual |-> p[2], length |-> n,
      num_elements |-> 2 \div n, flags |-> f] :
         p \in Pairs({<<1, b, c, d>> : b \in {0, 1}, c \in {0, 1}, d \in {0, 3}}),
         n \in {1, 2}, f \in {"ARRAY_TO_ARRAY", "ARRAY_TO_VAL"}}
    \cup {[assert |-> "MEMORY", expected |-> NULL, actual |-> NULL, length |-> n,
           num_elements |-> 1 - n, flags |-> "ARRAY_TO_ARRAY"] : n \in {0, 1}}

Floats == {NaN, Inf(1), Inf(-1)} \cup {Float(v) : v \in {-100, -9, 0, 10, 11, 100}}
FloatArrays == Pairs({<<Float(10), x>> :
                          x \in {NaN, Inf(1), Float(-100), Float(100), Float(91)}})
FloatCalls ==
    [assert : {"EQUAL_FLOAT", "NOT_EQUAL_FLOAT"}, expected : Floats, actual : Floats]
    \cup [assert : {"FLOAT_WITHIN", "FLOAT_NOT_WITHIN"}, delta : {Float(0), Float(-1), Float(10)},
          expected : Floats, actual : Floats]
    \cup [assert : {"COMPARE_FLOAT"}, threshold : Floats, actual : Floats,
          compare : Comparison \ {{}}]
    \cup [assert : {"FLOAT_IS", "FLOAT_IS_NOT"}, trait : Trait, actual : Floats]
    \cup {[assert |-> "EQUAL_FLOAT_ARRAY", delta |-> d, expected |-> p[1], actual |-> p[2],
           num_elements |-> n] :
              d \in {NaN, Inf(1), Float(0), Float(-1)}, p \in FloatArrays, n \in {0, 2}}
    \cup {[assert |-> "EACH_EQUAL_FLOAT", value |-> x, actual |-> p[2], num_elements |-> n] :
              x \in Floats, p \in FloatArrays, n \in {0, 2}}

Calls == Scalars \cup UNION {IntArrays(style) : style \in Style}
                 \cup StringCalls \cup MemoryCalls \cup FloatCalls

--------------------------------------------------------------------------------
Do(op)       == [op |-> op]
Call(c)      == [op |-> "ASSERT", call |-> c]
Condition(b) == [op |-> "CONDITION", true |-> b]
Fail(b)      == [op |-> "FAIL", message |-> b]
Details_(d)  == [op |-> "SET_DETAILS", detail |-> d]

Equal(v) == Call([assert |-> "EQUAL", style |-> HEX8, expected |-> 2, actual |-> v])

MCDetails == {{"a"}, {"b"}}

EveryStatement == {Call(c) : c \in Calls} \cup {Condition(b) : b \in BOOLEAN}
                  \cup {Do(op) : op \in {"WORK", "MESSAGE", "PASS", "IGNORE"}}
                  \cup {Fail(b) : b \in BOOLEAN}
                  \cup {Details_(d) : d \in MCDetails}

Short(statements) == {<<>>} \cup {<<s>> : s \in statements} \cup statements \X statements

TestOf(setUp, body, tearDown) == [setUp |-> setUp, body |-> body, tearDown |-> tearDown]

Checks   == {Equal(2), Equal(0), Condition(FALSE), Do("IGNORE"), Do("PASS")}
Scripted == {TestOf(s, b, t) :
                s \in {<<>>, <<Equal(2)>>, <<Equal(0)>>, <<Do("PASS")>>, <<Do("IGNORE")>>,
                       <<Details_({"a"})>>},
                b \in Short(Checks \cup {Fail(FALSE), Details_({"b"})}),
                t \in Short({Equal(2), Equal(0), Fail(TRUE), Do("IGNORE"), Do("WORK")})
                        \cup {<<Condition(TRUE), Do("MESSAGE")>>}}
Several  == {TestOf(<<Details_({"a"})>>, <<s, Do("WORK")>>, <<t>>) : s \in Checks, t \in Checks}

EverySuite == {<<TestOf(<<>>, <<Call(c)>>, <<>>)>> : c \in Calls}
              \cup {<<t>> : t \in Scripted}
              \cup {<<t, u>> : t \in Several, u \in Several}
              \cup {<<>>}

\* Named once more: a definition that is given to a constant is evaluated anew
\* wherever the constant stands, one it refers to only once.
MCStatements == EveryStatement
MCSuites     == EverySuite
================================================================================
