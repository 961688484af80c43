------------------------------ MODULE MCAccounts -------------------------------
(***************************************************************************)
(* Accounts on every file of up to five tokens over the separators and a   *)
(* word, on every file of one or two lines of nine shapes and of three     *)
(* lines of three, each with and without a line end after the last line,   *)
(* in front of a buffer that holds nothing or a word.  Two words never     *)
(* touch: they would be one.                                               *)
(***************************************************************************)
EXTENDS Accounts

MCWord   == {"w", "8", "0"}
MCNumber == [w \in MCWord |-> IF w = "8" THEN 8 ELSE 0]
MCSlacks == {<<>>, <<"w">>}

Shapes == {<<>>,
           <<"w">>,
           <<"w", COMMA, "w">>,
           <<"w", COMMA, "0", COMMA, "w">>,
           <<"w", COMMA, "w", COMMA, "0", COMMA, "8", COMMA>>,
           <<"w", COMMA, "w", COMMA, "0", COMMA, "8", COMMA, "w">>,
           <<COMMA, COMMA, COMMA, "8", COMMA, "w", COMMA, COMMA, "8">>,
           <<"w", COMMA, "w", COMMA, "8", COMMA, "0", COMMA, "w">>,
           <<"w", COMMA, "w", COMMA, COMMA, COMMA>>}

Few == {<<"w">>,
        <<"w", COMMA, "0", COMMA, "w">>,
        <<"w", COMMA, "w", COMMA, "0", COMMA, "8", COMMA, "w">>}

Endings  == {<<>>, <<NEWLINE>>}
ByShapes == {a \o e : a \in Shapes, e \in Endings}
       \cup {a \o <<NEWLINE>> \o b \o e : a, b \in Shapes, e \in Endings}
       \cup {a \o <<NEWLINE>> \o b \o <<NEWLINE>> \o c \o e :
               a, b, c \in Few, e \in Endings}

ByTokens == {f \in UNION {[1..n -> {"w", COMMA, NEWLINE}] : n \in 0..5} :
                \A i \in 2..Len(f) : ~(f[i-1] = "w" /\ f[i] = "w")}

MCFiles == ByShapes \cup ByTokens
================================================================================
