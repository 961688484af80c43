-------------------------------- MODULE Charset --------------------------------
(***************************************************************************)
(* enumerate_charset and push_char of padre.c: the loop that expands a     *)
(* character list into the array `chars` and returns a copy of it.  One    *)
(* action is one iteration of the scanning loop, of the range loop inside  *)
(* it, or the straight-line code before and after them.                    *)
(***************************************************************************)
EXTENDS CharsetSpec

CONSTANTS CAPACITY,    \* the size of the array chars
          Requests     \* the arguments: [class, list], see Request

\* A list is not empty and is not the spelling of a class name: those are the
\* requests whose class is the name (the empty one included).
Request == [class : ClassName \cup {"nullptr"}, list : {<<>>}]
             \cup [class : {"list"}, list : Seq(Char \ {NUL}) \ {<<>>}]

ASSUME CapacityAssumption == CAPACITY \in Nat \ {0}
ASSUME RequestsAssumption == Requests \subseteq Request

VARIABLES
    given,    \* the argument of the call
    spec,     \* what of the list is still to be scanned
    out,      \* the bytes stored in chars; full says that `result` is nullptr
    l,        \* the left side of a range, or NUL
    op,       \* 1 when a dash was found after l
    pc,       \* where the call is
    ret,      \* how it returned
    res,      \* the string returned
    block     \* the size of the memory it is returned in

vars == <<given, spec, out, l, op, pc, ret, res, block>>

Init == /\ given \in Requests
        /\ spec = <<>>
        /\ out = [chars |-> <<>>, full |-> FALSE]
        /\ l = NUL
        /\ op = 0
        /\ pc = "enter"
        /\ ret = "none"
        /\ res = <<>>
        /\ block = 0

--------------------------------------------------------------------------------
\* Mutant: push_char compares with <=.
PushCharTooFar(o, c) == IF ~o.full /\ Len(o.chars) <= CAPACITY
                        THEN [o EXCEPT !.chars = Append(@, c)]
                        ELSE [o EXCEPT !.full = TRUE]

\* Mutant: push_char returns `begin` when there is no room.
PushCharSilent(o, c) == IF Len(o.chars) < CAPACITY
                        THEN [o EXCEPT !.chars = Append(@, c)]
                        ELSE o

PushChar(o, c) == IF ~o.full /\ Len(o.chars) < CAPACITY
                  THEN [o EXCEPT !.chars = Append(@, c)]
                  ELSE [o EXCEPT !.full = TRUE]

Return(status, string) == /\ pc' = "returned"
                          /\ ret' = status
                          /\ res' = string

RejectNull == /\ pc = "enter"
              /\ given.class = "nullptr"
              /\ Return("EINVAL", <<>>)
              /\ UNCHANGED <<given, spec, out, l, op, block>>

Resolved == IF given.class \in ClassName THEN ClassSpec[given.class] ELSE given.list

Resolve == /\ pc = "enter"
           /\ given.class # "nullptr"
           /\ spec' = Resolved
           /\ pc' = "scan"
           /\ UNCHANGED <<given, out, l, op, ret, res, block>>

\* The `continue` of the loop: it leaves the cursor where it is.
SkipSpace == /\ pc = "scan" /\ spec # <<>> /\ Head(spec) \in Space
             /\ UNCHANGED vars

Scanning(c) == pc = "scan" /\ spec # <<>> /\ c = Head(spec) /\ c \notin Space

\* Mutant: the scan does not go on behind a literal dash.
LeadingDashStays == /\ Scanning(Dash) /\ l = NUL
                    /\ out' = PushChar(out, Dash)
                    /\ UNCHANGED <<given, spec, l, op, pc, ret, res, block>>

LeadingDash == /\ Scanning(Dash) /\ l = NUL
               /\ out' = PushChar(out, Dash)
               /\ spec' = Tail(spec)
               /\ UNCHANGED <<given, l, op, pc, ret, res, block>>

TakeLeft == \E c \in Char \ {Dash} :
               /\ Scanning(c) /\ l = NUL
               /\ l' = c
               /\ spec' = Tail(spec)
               /\ UNCHANGED <<given, out, op, pc, ret, res, block>>

SeeDash == /\ Scanning(Dash) /\ l # NUL
           /\ op' = 1
           /\ spec' = Tail(spec)
           /\ UNCHANGED <<given, out, l, pc, ret, res, block>>

BeginRange == \E c \in Char \ {Dash} :
                 /\ Scanning(c) /\ l # NUL /\ op = 1
                 /\ pc' = "range"
                 /\ UNCHANGED <<given, spec, out, l, op, ret, res, block>>

\* Mutant: the left side is an int.
RangePushInt == /\ pc = "range" /\ l <= Head(spec)
                /\ out' = PushChar(out, l)
                /\ l' = l + 1
                /\ UNCHANGED <<given, spec, op, pc, ret, res, block>>

\* l++ on a signed char: 127 is followed by -128.
RangePush == /\ pc = "range" /\ l <= Head(spec)
             /\ out' = PushChar(out, l)
             /\ l' = IF l = 127 THEN -128 ELSE l + 1
             /\ UNCHANGED <<given, spec, op, pc, ret, res, block>>

\* Mutant: the range loop compares with <.
EndRangeEarly == /\ pc = "range" /\ l >= Head(spec)
                 /\ op' = 0
                 /\ l' = NUL
                 /\ spec' = Tail(spec)
                 /\ pc' = "scan"
                 /\ UNCHANGED <<given, out, ret, res, block>>

\* Mutant: the operator is not reset behind a range.
EndRangeKeepsOp == /\ pc = "range" /\ l > Head(spec)
                   /\ l' = NUL
                   /\ spec' = Tail(spec)
                   /\ pc' = "scan"
                   /\ UNCHANGED <<given, out, op, ret, res, block>>

EndRange == /\ pc = "range" /\ l > Head(spec)
            /\ op' = 0
            /\ l' = NUL
            /\ spec' = Tail(spec)
            /\ pc' = "scan"
            /\ UNCHANGED <<given, out, ret, res, block>>

PushLiteral == \E c \in Char \ {Dash} :
                  /\ Scanning(c) /\ l # NUL /\ op = 0
                  /\ out' = PushChar(out, l)
                  /\ l' = c
                  /\ spec' = Tail(spec)
                  /\ UNCHANGED <<given, op, pc, ret, res, block>>

\* What the loop left over, then the terminator.
Finish == /\ pc = "scan" /\ spec = <<>>
          /\ LET literal == IF l # NUL THEN PushChar(out, l) ELSE out
                 dash    == IF op = 1 THEN PushChar(literal, Dash) ELSE literal
             IN  out' = PushChar(dash, NUL)
          /\ IF out'.full THEN Return("EINVAL", <<>>)
                          ELSE pc' = "copy" /\ UNCHANGED <<ret, res>>
          /\ UNCHANGED <<given, spec, l, op, block>>

\* rlen bytes are allocated, and rlen + 1 are copied.
Copy == /\ pc = "copy"
        /\ Return("ok", CString(out.chars))
        /\ block' = Len(CString(out.chars))
        /\ UNCHANGED <<given, spec, out, l, op>>

AllocationFails == /\ pc = "copy"
                   /\ Return("ENOMEM", <<>>)
                   /\ UNCHANGED <<given, spec, out, l, op, block>>

Next == \/ RejectNull \/ Resolve
        \/ SkipSpace \/ LeadingDash \/ TakeLeft \/ SeeDash
        \/ BeginRange \/ RangePush \/ EndRange \/ PushLiteral
        \/ Finish \/ Copy \/ AllocationFails

\* One thread runs the call: while it can step, it does.
Spec == Init /\ [][Next]_vars /\ WF_vars(Next)

--------------------------------------------------------------------------------
\* The type invariant.
TypeOK == /\ given \in Request
          /\ spec \in Seq(Char \ {NUL})
          /\ out \in [chars : Seq(Char), full : BOOLEAN]
          /\ l \in Char
          /\ op \in {0, 1}
          /\ pc \in {"enter", "scan", "range", "copy", "returned"}
          /\ ret \in {"none", "ok", "EINVAL", "ENOMEM"}
          /\ res \in Seq(Char)
          /\ block \in Nat

\* Nothing is ever stored past the end of chars, and the array that is copied
\* holds its terminator, so that strlen stops inside it (padre.c:103-153).
WritesInBounds == /\ Len(out.chars) <= CAPACITY
                  /\ pc = "copy" => /\ out.chars # <<>>
                                    /\ out.chars[Len(out.chars)] = NUL

\* The string a successful call returns is what the list denotes: literals,
\* dashes and ranges in the order written, whatever their arrangement.
ReturnsDenotation == ret = "ok" => res = CString(Denotes(Resolved))

\* EINVAL means a missing argument or a list whose characters and terminator
\* do not fit the array, and every such list is refused.
RefusesOnlyTooLong ==
    pc = "returned" => (ret = "EINVAL" <=> \/ given.class = "nullptr"
                                           \/ Len(Denotes(Resolved)) >= CAPACITY)

\* The classes of <ctype.h> in the C locale, and :word: and "*" as the tests
\* of the repository spell them out.
Upper == 65..90
Lower == 97..122
Digit == 48..57
Posix(class) ==
    CASE class = ":alnum:"  -> Upper \cup Lower \cup Digit
      [] class = ":alpha:"  -> Upper \cup Lower
      [] class = ":digit:"  -> Digit
      [] class = ":lower:"  -> Lower
      [] class = ":punct:"  -> (33..126) \ (Upper \cup Lower \cup Digit)
      [] class = ":upper:"  -> Upper
      [] class = ":word:"   -> Upper \cup Lower \cup Digit \cup {95}
      [] class = ":xdigit:" -> 65..70 \cup 97..102 \cup Digit
      [] OTHER              -> 33..126

\* A class name yields the members of that class, each exactly once (a repeated
\* member would be chosen twice as often by to_chars).
ClassIsPosix ==
    ret = "ok" /\ given.class \in ClassName =>
        /\ {res[i] : i \in 1..Len(res)} = Posix(given.class)
        /\ \A i, j \in 1..Len(res) : res[i] = res[j] => i = j

\* A call returns when no character of its list is white space or DEL, the
\* largest char (with one of them the scanning or the range loop may not end).
Returns == <>(pc = "returned")
TameReturns ==
    (\A i \in 1..Len(given.list) : given.list[i] \notin Space \cup {127}) => Returns

\* A call returns for every list without DEL: "List of characters or the name of
\* a POSIX character class" (cli.c:87) leaves no character of a list out.
EveryListReturns == (\A i \in 1..Len(given.list) : given.list[i] # 127) => Returns

\* "TEST_ASSERT_EQUAL_STRING(expected, res)" (padre_test.c:77) reads the result as
\* a string: the NUL at its end is a byte of the result.
TerminatorInBlock == ret = "ok" => Len(res) < block
================================================================================
