------------------------------ MODULE CharsetSpec ------------------------------
(***************************************************************************)
(* What the <characters> of an account stand for: the named classes that   *)
(* padre.c resolves and, as a reference independent of the scanning loop,  *)
(* the characters a list denotes.  A character is its value as a signed    *)
(* char, which is how the code compares and counts them.                   *)
(***************************************************************************)
EXTENDS Integers, Sequences

Char  == -128..127
NUL   == 0
Dash  == 45
Space == 9..13 \cup {32}     \* isspace() of the C locale and of UTF-8 ones

ClassName == {"", "*", ":graph:", ":alnum:", ":alpha:", ":digit:", ":lower:",
              ":punct:", ":upper:", ":word:", ":xdigit:"}

\* The list each class name is replaced by, e.g. To(97, 122) is "a-z".
To(a, b) == <<a, Dash, b>>

ClassSpec ==
    [c \in ClassName |->
        CASE c = ":alnum:"  -> To(97, 122) \o To(65, 90) \o To(48, 57)
          [] c = ":alpha:"  -> To(97, 122) \o To(65, 90)
          [] c = ":digit:"  -> To(48, 57)
          [] c = ":lower:"  -> To(97, 122)
          [] c = ":punct:"  -> To(33, 47) \o To(58, 64) \o To(91, 96) \o To(123, 126)
          [] c = ":upper:"  -> To(65, 90)
          [] c = ":word:"   -> To(65, 90) \o To(97, 122) \o To(48, 57) \o <<95>>
          [] c = ":xdigit:" -> To(65, 70) \o To(97, 102) \o To(48, 57)
          [] OTHER          -> To(33, 126)]     \* "", "*" and :graph:

\* The characters from x to y, none when the range is reversed.
Interval(x, y) == [i \in 1..(IF x <= y THEN y - x + 1 ELSE 0) |-> x + i - 1]

\* The character that closes a range opened at position i: the first one behind
\* the dashes that follow it.
Closing(list, i) == {j \in i+1..Len(list) : /\ list[j] # Dash
                                            /\ \A k \in i+1..j-1 : list[k] = Dash}

\* Reading a list from each of its positions, with nothing before it left over: a
\* dash there is a literal, and so is a character not followed by a dash; one that
\* is followed by dashes opens a range that the next other character closes.
Reading(list) ==
    LET n == Len(list)
        From[i \in 1..n+1] ==
            IF i > n THEN <<>>
            ELSE IF list[i] = Dash \/ i = n \/ list[i+1] # Dash
                 THEN <<list[i]>> \o From[i+1]
            ELSE IF Closing(list, i) = {} THEN <<list[i], Dash>>
            ELSE LET j == CHOOSE j \in Closing(list, i) : TRUE
                 IN  Interval(list[i], list[j]) \o From[j+1]
    IN  From

Denotes(list) == Reading(list)[1]

\* The C string stored in an array: what precedes its first NUL.
CString(s) ==
    LET ends == {i \in 1..Len(s) : s[i] = NUL}
    IN  IF ends = {} THEN s
        ELSE SubSeq(s, 1, (CHOOSE i \in ends : \A j \in ends : i <= j) - 1)
================================================================================
