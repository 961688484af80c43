-------------------------------- MODULE MCPadre --------------------------------
(***************************************************************************)
(* Padre with databases of up to three accounts, the defective ones the    *)
(* parser lets through included, a password buffer of two bytes, and a     *)
(* stand-in for scrypt that depends on all it is given.  Ten typical       *)
(* command lines meet all databases and inputs; every line of up to three  *)
(* options and three arguments meets an empty one and an input that has    *)
(* ended.  One of the keys is a function key whose code is not a byte.     *)
(***************************************************************************)
EXTENDS Padre, Terminal, SequencesExt


MCWord   == {"-", "d", "u", "0", "2", "7", "abc", "ab", "c-a", "a..z", "a b"}
MCNumber == [w \in MCWord |-> CASE w = "2" -> 2 [] w = "7" -> 7 [] w = "-" -> -1
                                [] OTHER -> 0]
MCSlacks == {<<>>, <<"u">>}
MCSTDIN  == <<"-">>
MCZERO   == <<"0">>
KEY_BACKSPACE == 263
MCKeys   == {97, ENTER, QUIT, KEY_DOWN, KEY_UP, KEY_BACKSPACE}
MCMenus  == UNION {[1..n -> Label] : n \in 2..3}

Entry(d, pattern) == d \o <<COMMA, "u", COMMA, "0", COMMA, "2", COMMA>> \o pattern
D == <<"d">>

\* Three accounts.
Named(domains) == Entry(domains[1], <<>>) \o <<NEWLINE>>
                     \o Entry(domains[2], <<>>) \o <<NEWLINE>>
                     \o Entry(domains[3], <<>>) \o <<NEWLINE>>

MCFiles == {
    Entry(D, <<"abc">>) \o <<NEWLINE>>,
    Entry(D, <<"abc">>),                                     \* no line end
    Entry(D, <<"c-a">>) \o <<NEWLINE>>,                      \* nothing permitted
    Entry(D, <<"a..z">>) \o <<NEWLINE>>,                     \* too long
    <<"d", COMMA, "u", COMMA, "abc", NEWLINE>>,              \* no iteration
    <<"d">>,                                                 \* no domain
    <<"d", COMMA, "u", COMMA, "0", COMMA, "abc", NEWLINE>>,  \* no length
    <<"d", COMMA, "u", COMMA, "0", COMMA, "0", COMMA, NEWLINE>>,  \* refused
    Entry(D, <<"abc">>) \o <<NEWLINE>> \o Entry(<<"u">>, <<"a b">>) \o <<NEWLINE>>,
    Entry(D, <<>>) \o <<NEWLINE, "u", COMMA, NEWLINE>> \o Entry(<<>>, <<"abc">>) \o <<NEWLINE>>,
    Entry(<<>>, <<"abc">>) \o <<NEWLINE>> \o Entry(D, <<"abc">>) \o <<NEWLINE>>,
    Named(<<D, <<"u">>, <<"0">>>>), Named(<<D, <<"u">>, <<>>>>), Named(<<D, <<>>, <<"0">>>>),
    <<>>}

\* A read error may cut a pattern.
MCCut == [w \in MCWord |-> IF w = "abc" THEN {"ab"} ELSE {}]

Opt(key, word)   == [key |-> key, arg |-> <<word>>]
Call(opts, args) == [opts |-> opts, args |-> args]
U == <<"u">>

Typical == {
    Call(<<>>, <<>>),
    Call(<<>>, <<<<"0">>>>),
    Call(<<Opt("l", "2"), Opt("c", "abc")>>, <<MCSTDIN>>),   \* of no use here
    Call(<<>>, <<D, U>>),
    Call(<<Opt("c", "c-a"), Opt("i", "2"), Opt("l", "2"), Opt("c", "abc")>>, <<D, U>>),
    Call(<<Opt("l", "2"), Opt("l", "0")>>, <<D, U>>),        \* refused
    Call(<<>>, <<<<>>, U>>),
    Call(<<>>, <<D, U, U>>),
    Call(<<Opt("help", "-")>>, <<>>),
    Call(<<Opt("i", "0"), Opt("unknown", "-")>>, <<D>>)}

Options == {Opt(k, w) : k \in {"c", "i"}, w \in {"2", "7"}}
           \cup {Opt("l", w) : w \in {"2", "7", "0", "-"}}
           \cup {[key |-> k, arg |-> <<>>] : k \in {"help", "unknown", "l"}}
Arguments == {<<>>, <<D>>, <<D, U>>, <<D, U, U>>, <<<<>>, <<"-">>>>}

MCCommandLines == Typical \cup [opts : BoundedSeq(Options, 3), args : Arguments]

MCInit == /\ Init
          /\ argv \in Typical \/ (disk = <<>> /\ drained)
MCSpec == MCInit /\ [][Next]_vars /\ Fairness

\* The two entries that `make test` sends through a pipe.
MCPipeFiles == {Entry(D, <<"abc">>) \o <<NEWLINE>> \o Entry(<<"u">>, <<>>) \o <<NEWLINE>>}
MCPipeCommandLines == {Call(<<>>, <<MCSTDIN>>)}

MCMembers(pattern) ==
    CASE pattern = <<>>       -> <<"!", "~">>
      [] pattern = <<"c-a">>  -> <<>>
      [] pattern = <<"a..z">> -> TOO_LONG
      [] pattern = <<"a b">>  -> ENDLESS
      [] OTHER                -> <<"a", "b", "c">>

Weight(w) == CASE w = "d" -> 3 [] w = "u" -> 5 [] w = "2" -> 7 [] OTHER -> 11
MCScrypt(pwd, salt, length) ==
    LET sum[i \in 0..Len(pwd) + Len(salt)] ==
            IF i = 0 THEN 0
            ELSE sum[i-1] + i * (IF i <= Len(pwd) THEN pwd[i]
                                 ELSE Weight(salt[i - Len(pwd)]))
    IN  [i \in 1..length |-> (sum[Len(pwd) + Len(salt)] * i) % 256]
================================================================================
