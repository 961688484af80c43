---------------------------------- MODULE Csv ----------------------------------
(***************************************************************************)
(* What a line of the account database stands for, independently of the    *)
(* scanner that finds it out (parse_accounts of padre.c).  A file is a     *)
(* sequence of tokens: commas, line ends, and words, a word being a run of *)
(* other characters that the parser only copies or passes to atoi.         *)
(***************************************************************************)
EXTENDS Integers, Sequences, FiniteSets

CONSTANTS Word,                 \* the words
          Number,               \* Number[w] is what atoi makes of w
          COMMA, NEWLINE, NUL,  \* the characters the scanner knows
          NONE                  \* what a null pointer points to

ASSUME TokenAssumption == /\ Number \in [Word -> Int]
                          /\ {COMMA, NEWLINE, NUL} \cap Word = {}
                          /\ COMMA # NEWLINE /\ COMMA # NUL /\ NEWLINE # NUL

\* A null pointer is no string.
ASSUME NullAssumption == NONE \notin Seq(Word)

Token == Word \cup {COMMA, NEWLINE}

atoi(field) == IF field = <<>> THEN 0 ELSE Number[field[1]]

--------------------------------------------------------------------------------
\* The positions of c in s, and the k-th of them.
Positions(s, c) == {i \in 1..Len(s) : s[i] = c}
Nth(s, c, k)    == CHOOSE i \in Positions(s, c) :
                       Cardinality({j \in Positions(s, c) : j <= i}) = k
Count(s, c)     == Cardinality(Positions(s, c))

\* The k-th piece of s between separators c; the last one is after them all.
PieceStart(s, c, k) == IF k = 1 THEN 1 ELSE Nth(s, c, k - 1) + 1
Piece(s, c, k)      == SubSeq(s, PieceStart(s, c, k),
                              IF k > Count(s, c) THEN Len(s) ELSE Nth(s, c, k) - 1)

Lines(file)    == Count(file, NEWLINE)                 \* complete lines
Line(file, k)  == Piece(file, NEWLINE, k)
Fragment(file) == Piece(file, NEWLINE, Lines(file) + 1)  \* after the last line end

--------------------------------------------------------------------------------
Field(line, k) == IF k <= Count(line, COMMA) THEN Piece(line, COMMA, k) ELSE NONE

\* Whatever follows the fields that were found, or the fourth comma.
Rest(line) == LET n == Count(line, COMMA)
              IN  SubSeq(line, PieceStart(line, COMMA, IF n < 4 THEN n + 1 ELSE 5),
                         Len(line))

Length(line) == IF Field(line, 4) = NONE THEN 0 ELSE atoi(Field(line, 4))

\* <domain>,<username>,<iteration>,<length>,<characters>
EntryOf(line) == [domain     |-> Field(line, 1),
                  username   |-> Field(line, 2),
                  iteration  |-> Field(line, 3),
                  characters |-> Rest(line),
                  length     |-> Length(line)]

Skipped(line) == Field(line, 2) = NONE
Refused(line) == Field(line, 4) # NONE /\ Length(line) <= 0
================================================================================
