----------------------------- MODULE UnityNumbers -----------------------------
(***************************************************************************)
(* The numbers of lib/unity: the integer types of unity_internals.h, the   *)
(* display styles, and how unity.c prints a number in a style.  A printed  *)
(* number is a record of what stands on the line, and Denotes is how a     *)
(* reader of the line understands it.                                      *)
(***************************************************************************)
EXTENDS Integers, Sequences, FiniteSetsExt, SequencesExt

CONSTANT CHAR_BIT       \* bits of a byte: 8, or fewer to make all types narrow

ASSUME CharBitAssumption == CHAR_BIT \in 2 .. 8 /\ CHAR_BIT % 2 = 0

UNITY_INT_SIZE == 8             \* UNITY_INT and UNITY_UINT have eight bytes
INT_SIZE == 4                   \* UNITY_INT_WIDTH, the width of an int, in bytes
NIBBLE == CHAR_BIT \div 2       \* bits of a nibble
UNITY_MAX_NIBBLES == 2 * UNITY_INT_SIZE

Width(size) == size * CHAR_BIT

\* The conversions of C to the types of size bytes.
Unsigned(v, size) == v % 2^Width(size)
Signed(v, size) == LET u == Unsigned(v, size)
                   IN  IF u < 2^(Width(size) - 1) THEN u ELSE u - 2^Width(size)

UNITY_INT(v)  == Signed(v, UNITY_INT_SIZE)
UNITY_UINT(v) == Unsigned(v, UNITY_INT_SIZE)

--------------------------------------------------------------------------------
(***************************************************************************)
(* UNITY_DISPLAY_STYLE_INT and _UINT have the size of an int, four bytes,  *)
(* but the macros do not convert their arguments to an int: they are       *)
(* plain, and whatever is compared is converted to UNITY_INT only.         *)
(***************************************************************************)
Style == [size : {1, 2, 4, 8}, range : {"INT", "UINT", "HEX"}, plain : {FALSE}]
           \cup [size : {INT_SIZE}, range : {"INT", "UINT"}, plain : {TRUE}]
           \cup [size : {1}, range : {"CHAR"}, plain : {FALSE}]

HEX8 == [size |-> 1, range |-> "HEX", plain |-> FALSE]

\* style & UNITY_DISPLAY_RANGE_INT: the style of a char has this bit, too.
RangeInt(style) == style.range \in {"INT", "CHAR"}

\* The type an argument of a macro has after the conversion of the macro.
ArgSize(style) == IF style.plain THEN UNITY_INT_SIZE ELSE style.size

--------------------------------------------------------------------------------
\* The bits of a UNITY_UINT that are set.
BitsOf(v) == {i \in 0 .. Width(UNITY_INT_SIZE) - 1 : (UNITY_UINT(v) \div 2^i) % 2 = 1}

Printed(how, negative, digits) == [how |-> how, negative |-> negative, digits |-> digits]
Nothing == Printed("nothing", FALSE, <<>>)

\* The digits of number, a UNITY_UINT: the first divisor is the largest power of
\* ten that leaves one digit (of w bits there are at most 1 + 3 * w / 10 digits).
DigitsOf(number) ==
    LET digits == 1 + Cardinality({i \in 1 .. (3 * Width(UNITY_INT_SIZE)) \div 10 :
                                       number \div 10^i > 0})
    IN  [k \in 1 .. digits |-> (number \div 10^(digits - k)) % 10]

UnityPrintNumberUnsigned(number) == Printed("decimal", FALSE, DigitsOf(number))

\* A negative number is negated as a UNITY_UINT: the least one, too.
UnityPrintNumber(number) ==
    IF number < 0 THEN Printed("decimal", TRUE, DigitsOf(UNITY_UINT(-UNITY_UINT(number))))
                  ELSE UnityPrintNumberUnsigned(UNITY_UINT(number))

UnityPrintNumberHex(number, nibbles_to_print) ==
    LET nibbles == Min({nibbles_to_print, UNITY_MAX_NIBBLES})
    IN  Printed("hex", FALSE, [k \in 1 .. nibbles |->
                                  (number \div 2^(NIBBLE * (nibbles - k))) % 2^NIBBLE])

\* A character stands for itself or as an escape; either shows its byte.
UnityPrintNumberByStyle(number, style) ==
    CASE style.range = "CHAR" -> Printed("char", FALSE, <<Unsigned(number, 1)>>)
      [] style.range = "INT"  -> UnityPrintNumber(number)
      [] style.range = "UINT" -> UnityPrintNumberUnsigned(UNITY_UINT(number))
      [] style.range = "HEX"  -> UnityPrintNumberHex(UNITY_UINT(number), 2 * style.size)

\* The bits of an int only (UNITY_INT_WIDTH), from the highest: those the mask
\* selects, and X for the others.
X == 2
UnityPrintMask(mask, number) ==
    Printed("bits", FALSE,
            [k \in 1 .. Width(INT_SIZE) |->
                LET bit == Width(INT_SIZE) - k
                IN  CASE bit \notin BitsOf(mask)  -> X
                      [] bit \in BitsOf(mask) \cap BitsOf(number) -> 1
                      [] bit \in BitsOf(mask) \ BitsOf(number)    -> 0])

\* The value a reader takes a printed number for, by its notation.
Denotes(printed) ==
    LET Positional(base) == FoldLeft(LAMBDA value, digit : value * base + digit,
                                     0, printed.digits)
    IN  CASE printed.how = "decimal" -> IF printed.negative THEN -Positional(10)
                                                            ELSE Positional(10)
          [] printed.how = "hex"     -> Positional(2^NIBBLE)
          [] printed.how = "char"    -> Signed(printed.digits[1], 1)
================================================================================
