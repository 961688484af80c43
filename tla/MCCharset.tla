------------------------------- MODULE MCCharset -------------------------------
(***************************************************************************)
(* Charset with the real array and the real character codes: every class,  *)
(* the missing argument, every list of one to four characters over five    *)
(* (dash, !, a, c and e: ranges forwards, backwards, of one character,     *)
(* chained, left open), and lists chosen for the boundaries.               *)
(***************************************************************************)
EXTENDS Charset

Alphabet == {Dash, 33, 97, 99, 101}

Boundary == {
    <<33,Dash,126, 97>>,                           \* one character too many
    <<34,Dash,126, 97>>,                           \* 94 characters: just fits
    <<34,Dash,126, Dash>>,                         \* so does a literal dash
    <<33,Dash,126, Dash, Dash>>,                   \* too long by dashes
    <<97,Dash,122, 97,Dash,122, 97,Dash,122, 97,Dash,122>>,  \* repeated range
    <<32>>, <<97, 9, 98>>, <<97, Dash, 32, 99>>,   \* white space
    <<127>>, <<97, 127>>, <<126, Dash, 127>>,      \* DEL, alone and as an end
    <<-61, -92, 97>>,                              \* an umlaut in UTF-8
    <<-3, Dash, 3>>, <<97, Dash, -61, -92>>}       \* ranges across NUL

MCRequests ==
    [class : ClassName \cup {"nullptr"}, list : {<<>>}]
      \cup [class : {"list"},
            list : Boundary \cup UNION {[1..n -> Alphabet] : n \in 1..4}]
================================================================================
