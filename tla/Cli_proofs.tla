------------------------------- MODULE Cli_proofs ------------------------------
(***************************************************************************)
(* Proofs about Cli for all command lines.  At every callback the options  *)
(* are what the options and arguments delivered so far mean, and whatever  *)
(* ends the parsing early is the first thing that is wrong with the line.  *)
(***************************************************************************)
EXTENDS Cli, SequenceTheorems, TLAPS

\* What is known of the options and arguments that were delivered.
Delivered == /\ opt_num < Len(argv.opts) => arg_num = 0
             /\ arg_num <= 2
             /\ \A i \in 1..opt_num : /\ argv.opts[i].key \in {"c", "l", "i"}
                                      /\ ~RejectedAt(i)

\* Why the parsing ended.
Ended == LET stopped == opt_num < Len(argv.opts)
             next    == argv.opts[opt_num + 1].key
         IN  /\ parsing = "help" => stopped /\ next = "help"
             /\ parsing = "usage" => \/ stopped /\ next = "unknown"
                                     \/ Len(argv.args) \notin 1..2
             /\ parsing = "returned" =>
                   \/ stopped /\ RejectedAt(opt_num + 1)
                   \/ ~stopped /\ arg_num = Len(argv.args) /\ arg_num >= 1

CliInv == /\ CliTypeOK
          /\ options = Meaning(opt_num, arg_num)
          /\ Delivered
          /\ Ended

--------------------------------------------------------------------------------
\* The command line is made of sequences.
LEMMA LineTyped ==
  ASSUME argv \in CommandLines
  PROVE  /\ argv.opts \in Seq([key : Key, arg : Seq(Word)])
         /\ argv.args \in Seq(Seq(Word))
         /\ Len(argv.opts) \in Nat /\ Len(argv.args) \in Nat
         /\ \A i \in 1..Len(argv.opts) : /\ argv.opts[i].key \in Key
                                         /\ argv.opts[i].arg \in Seq(Word)
         /\ \A i \in 1..Len(argv.args) : argv.args[i] \in Seq(Word)
<1>1. argv \in [opts : Seq([key : Key, arg : Seq(Word)]), args : Seq(Seq(Word))]
  BY CommandLineAssumption
<1>2. /\ argv.opts \in Seq([key : Key, arg : Seq(Word)])
      /\ argv.args \in Seq(Seq(Word))
  BY <1>1
<1>3. Len(argv.opts) \in Nat /\ Len(argv.args) \in Nat
  BY <1>2, LenProperties
<1>4. \A i \in 1..Len(argv.opts) : argv.opts[i] \in [key : Key, arg : Seq(Word)]
  BY <1>2, ElementOfSeq
<1>5. \A i \in 1..Len(argv.args) : argv.args[i] \in Seq(Word)
  BY <1>2, ElementOfSeq
<1>6. QED
  BY <1>2, <1>3, <1>4, <1>5

\* One more option of the key is the last one, and one of another key changes
\* nothing.
LEMMA OneMore ==
  ASSUME NEW n \in Nat, NEW key
  PROVE  IF argv.opts[n + 1].key = key
         THEN Given(n + 1, key) # {} /\ LastArg(n + 1, key) = argv.opts[n + 1].arg
         ELSE Given(n + 1, key) = Given(n, key) /\ LastArg(n + 1, key) = LastArg(n, key)
<1>1. CASE argv.opts[n + 1].key = key
  <2>1. n + 1 \in Given(n + 1, key) /\ \A j \in Given(n + 1, key) : j <= n + 1
    BY <1>1 DEF Given
  <2>2. \A i \in Given(n + 1, key) :
           (\A j \in Given(n + 1, key) : j <= i) => i = n + 1
    BY <2>1 DEF Given
  <2>3. (CHOOSE i \in Given(n + 1, key) : \A j \in Given(n + 1, key) : j <= i) = n + 1
    BY <2>1, <2>2
  <2>4. QED
    BY <1>1, <2>1, <2>3 DEF LastArg
<1>2. CASE argv.opts[n + 1].key # key
  <2>1. Given(n + 1, key) = Given(n, key)
    BY <1>2 DEF Given
  <2>2. QED
    BY <1>2, <2>1 DEF LastArg
<1>3. QED
  BY <1>1, <1>2

LEMMA InitCli == CliInit => CliInv
<1> SUFFICES ASSUME CliInit PROVE CliInv
  OBVIOUS
<1>1. Len(argv.opts) \in Nat /\ Len(argv.args) \in Nat
  BY LineTyped DEF CliInit
<1>2. \A key : Given(0, key) = {}
  BY DEF Given
<1>3. options = Meaning(opt_num, arg_num)
  BY <1>2 DEF CliInit, NoOptions, Meaning, OrNull
<1>4. CliTypeOK
  BY <1>1 DEF CliInit, CliTypeOK, NoOptions
<1>5. QED
  BY <1>1, <1>3, <1>4 DEF CliInv, CliInit, Delivered, Ended

--------------------------------------------------------------------------------
\* parse_opt takes an option.
LEMMA TakenInv ==
  CliInv /\ (TakeCharacters \/ TakeIteration \/ TakeLength) => CliInv'
<1> SUFFICES ASSUME CliInv, TakeCharacters \/ TakeIteration \/ TakeLength PROVE CliInv'
  OBVIOUS
<1> DEFINE n == opt_num
           o == argv.opts[n + 1]
<1>1. /\ parsing = "parsing" /\ parsing' = "parsing"
      /\ n \in Nat /\ n < Len(argv.opts) /\ n' = n + 1
      /\ argv' = argv /\ arg_num' = arg_num /\ arg_num = 0
      /\ argv \in CommandLines /\ Len(argv.opts) \in Nat /\ Len(argv.args) \in Nat
  BY LineTyped DEF CliInv, CliTypeOK, Delivered, TakeCharacters, TakeIteration, TakeLength,
     AtOption, Taken
<1>2. /\ o.key \in {"c", "l", "i"} /\ ~RejectedAt(n + 1) /\ o.arg \in Seq(Word)
      /\ atoi(o.arg) \in Int
  <2>1. n + 1 \in 1..Len(argv.opts)
    BY <1>1
  <2>2. o.arg \in Seq(Word)
    BY <1>1, <2>1, LineTyped
  <2>3. o.key = "l" => atoi(o.arg) > 0
    BY DEF TakeCharacters, TakeIteration, TakeLength, AtOption, OptionArg
  <2>4. atoi(o.arg) \in Int
    <3>1. o.arg # <<>> => o.arg[1] \in Word
      BY <2>2, EmptySeq, LenProperties, ElementOfSeq
    <3>2. o.arg # <<>> => Number[o.arg[1]] \in Int
      BY <3>1, TokenAssumption
    <3>3. QED
      BY <3>2 DEF atoi
  <2>5. QED
    BY <2>2, <2>3, <2>4 DEF TakeCharacters, TakeIteration, TakeLength, AtOption, RejectedAt
<1>3. Delivered'
  <2>1. ASSUME NEW i \in 1..n' PROVE argv.opts[i].key \in {"c", "l", "i"} /\ ~RejectedAt(i)
    <3>1. i \in 1..n \/ i = n + 1
      BY <1>1
    <3>2. QED
      BY <1>2, <3>1 DEF CliInv, Delivered
  <2>2. QED
    BY <1>1, <2>1 DEF Delivered, RejectedAt
<1>4. options' = Meaning(n, arg_num)'
  <2> DEFINE m == Meaning(n + 1, 0)
  <2>1. Meaning(n, arg_num)' = m
    BY <1>1 DEF Meaning, OrNull, LastArg, Given
  <2>2. options = Meaning(n, 0)
    BY <1>1 DEF CliInv
  <2>3. options' = m
    <3>1. CASE TakeCharacters
      BY <1>1, <2>2, <3>1, OneMore DEF TakeCharacters, AtOption, Taken, OptionArg, Meaning, OrNull
    <3>2. CASE TakeIteration
      BY <1>1, <2>2, <3>2, OneMore DEF TakeIteration, AtOption, Taken, OptionArg, Meaning, OrNull
    <3>3. CASE TakeLength
      BY <1>1, <2>2, <3>3, OneMore DEF TakeLength, AtOption, Taken, OptionArg, Meaning, OrNull
    <3>4. QED
      BY <3>1, <3>2, <3>3
  <2>4. QED
    BY <2>1, <2>3
<1>5. QED
  <2>1. options' \in [domain_or_database : Seq(Word) \cup {NONE},
                      username : Seq(Word) \cup {NONE},
                      iteration : Seq(Word) \cup {NONE},
                      characters : Seq(Word) \cup {NONE}, length : Nat]
    <3>1. CASE TakeCharacters
      BY <1>2, <3>1 DEF TakeCharacters, Taken, OptionArg, CliInv, CliTypeOK
    <3>2. CASE TakeIteration
      BY <1>2, <3>2 DEF TakeIteration, Taken, OptionArg, CliInv, CliTypeOK
    <3>3. CASE TakeLength
      <4>1. options' = [options EXCEPT !.length = atoi(o.arg)] /\ atoi(o.arg) > 0
        BY <3>3 DEF TakeLength, Taken, OptionArg
      <4>2. atoi(o.arg) \in Nat
        BY <1>2, <4>1
      <4> HIDE DEF o
      <4>3. QED
        BY <4>1, <4>2 DEF CliInv, CliTypeOK
    <3>4. QED
      BY <3>1, <3>2, <3>3
  <2>2. CliTypeOK'
    BY <1>1, <2>1 DEF CliInv, CliTypeOK
  <2>3. QED
    BY <1>1, <1>3, <1>4, <2>2 DEF CliInv, Ended

\* parse_opt takes an argument.
LEMMA TakeArgumentInv == CliInv /\ TakeArgument => CliInv'
<1> SUFFICES ASSUME CliInv, TakeArgument PROVE CliInv'
  OBVIOUS
<1> DEFINE m == arg_num
           arg == argv.args[m + 1]
<1>1. /\ parsing = "parsing" /\ parsing' = "parsing"
      /\ m \in Nat /\ m < 2 /\ m < Len(argv.args) /\ m' = m + 1
      /\ argv' = argv /\ opt_num' = opt_num /\ opt_num = Len(argv.opts)
      /\ argv \in CommandLines /\ Len(argv.opts) \in Nat /\ Len(argv.args) \in Nat
      /\ options' = IF m = 0 THEN [options EXCEPT !.domain_or_database = arg]
                    ELSE [options EXCEPT !.username = arg]
  <2>1. /\ m \in 0..Len(argv.args) /\ argv \in CommandLines
        /\ Len(argv.opts) \in Nat /\ Len(argv.args) \in Nat
    BY LineTyped DEF CliInv, CliTypeOK
  <2>2. /\ parsing = "parsing" /\ parsing' = "parsing"
        /\ m < 2 /\ m < Len(argv.args) /\ m' = m + 1
        /\ argv' = argv /\ opt_num' = opt_num /\ opt_num = Len(argv.opts)
    BY DEF TakeArgument, AtArgument
  <2>3. options' = IF m = 0 THEN [options EXCEPT !.domain_or_database = arg]
                   ELSE [options EXCEPT !.username = arg]
    BY DEF TakeArgument
  <2>4. QED
    BY <2>1, <2>2, <2>3
<1>2. arg \in Seq(Word)
  <2>1. m + 1 \in 1..Len(argv.args)
    BY <1>1
  <2>2. QED
    BY <1>1, <2>1, LineTyped
<1>3. CliTypeOK'
  <2> HIDE DEF arg
  <2>1. options' \in [domain_or_database : Seq(Word) \cup {NONE},
                      username : Seq(Word) \cup {NONE},
                      iteration : Seq(Word) \cup {NONE},
                      characters : Seq(Word) \cup {NONE}, length : Nat]
    BY <1>1, <1>2 DEF CliInv, CliTypeOK
  <2>2. QED
    BY <1>1, <2>1 DEF CliInv, CliTypeOK
<1>4. options' = Meaning(opt_num, m)'
  <2>1. Meaning(opt_num, m)' = Meaning(opt_num, m + 1)
    BY <1>1 DEF Meaning, OrNull, LastArg, Given
  <2>2. options = Meaning(opt_num, m)
    BY DEF CliInv
  <2>3. m = 0 \/ m = 1
    BY <1>1
  <2>4. options' = Meaning(opt_num, m + 1)
    BY <1>1, <2>2, <2>3 DEF Meaning
  <2>5. QED
    BY <2>1, <2>4
<1>5. Delivered'
  BY <1>1 DEF CliInv, Delivered, RejectedAt
<1>6. QED
  BY <1>1, <1>3, <1>4, <1>5 DEF CliInv, Ended

\* None, or more than the two that parse_opt takes.
LEMMA CountRange ==
  ASSUME NEW k \in Nat, NEW m \in 0..k
  PROVE  /\ m >= 2 /\ m < k => k \notin 1..2
         /\ m = k /\ m < 1 => k \notin 1..2
         /\ m = k /\ 1 <= m /\ m <= 2 => k \in 1..2
  OBVIOUS

\* argp_parse returns or exits.
LEMMA StopInv ==
  CliInv /\ (RejectLength \/ Help \/ UnknownOption \/ TooManyArguments \/ End) => CliInv'
<1> SUFFICES ASSUME CliInv, RejectLength \/ Help \/ UnknownOption \/ TooManyArguments \/ End
             PROVE  CliInv'
  OBVIOUS
<1>1. /\ parsing' \in {"returned", "usage", "help"}
      /\ UNCHANGED <<argv, opt_num, arg_num, options>>
  BY DEF RejectLength, Help, UnknownOption, TooManyArguments, End, Stop
<1>2. CliTypeOK' /\ Delivered'
  BY <1>1 DEF CliInv, CliTypeOK, Delivered, RejectedAt
<1>3. Meaning(opt_num, arg_num)' = Meaning(opt_num, arg_num)
  BY <1>1 DEF Meaning, OrNull, LastArg, Given
<1>4. Ended'
  <2>1. /\ Len(argv.opts) \in Nat /\ Len(argv.args) \in Nat
        /\ arg_num \in 0..Len(argv.args)
    BY LineTyped DEF CliInv, CliTypeOK
  <2>2. CASE RejectLength
    BY <1>1, <2>1, <2>2 DEF RejectLength, AtOption, Stop, Ended, RejectedAt, OptionArg
  <2>3. CASE Help
    BY <1>1, <2>1, <2>3 DEF Help, AtOption, Stop, Ended
  <2>4. CASE UnknownOption
    BY <1>1, <2>1, <2>4 DEF UnknownOption, AtOption, Stop, Ended
  <2>5. CASE TooManyArguments
    <3>1. parsing' = "usage" /\ arg_num >= 2 /\ arg_num < Len(argv.args)
      BY <2>5 DEF TooManyArguments, AtArgument, Stop
    <3>2. Len(argv.args) \notin 1..2
      BY ONLY <2>1, <3>1, CountRange
    <3>3. Len(argv'.args) \notin 1..2
      BY <1>1, <3>2
    <3>4. QED
      BY <3>1, <3>3 DEF Ended
  <2>6. CASE End
    <3>1. /\ opt_num = Len(argv.opts) /\ arg_num = Len(argv.args)
          /\ \/ arg_num < 1 /\ parsing' = "usage"
             \/ arg_num >= 1 /\ parsing' = "returned"
      BY <2>1, <2>6 DEF End, AtEnd, Stop
    <3>2. arg_num < 1 => Len(argv'.args) \notin 1..2
      <4>1. arg_num < 1 => Len(argv.args) \notin 1..2
        BY ONLY <2>1, <3>1, CountRange
      <4>2. QED
        BY <1>1, <4>1
    <3>3. ~(opt_num' < Len(argv'.opts)) /\ arg_num' = Len(argv'.args)
      <4>1. ~(opt_num < Len(argv.opts))
        BY ONLY <2>1, <3>1
      <4>2. QED
        BY <1>1, <3>1, <4>1
    <3>4. QED
      BY <1>1, <3>1, <3>2, <3>3 DEF Ended
  <2>7. QED
    BY <2>2, <2>3, <2>4, <2>5, <2>6
<1>5. QED
  BY <1>1, <1>2, <1>3, <1>4 DEF CliInv

LEMMA CliStepInv == CliInv /\ [CliStep]_cliVars => CliInv'
<1>1. CliInv /\ UNCHANGED cliVars => CliInv'
  BY DEF CliInv, CliTypeOK, Delivered, Ended, RejectedAt, Meaning, OrNull, LastArg, Given, cliVars
<1>2. QED
  BY <1>1, TakenInv, TakeArgumentInv, StopInv DEF CliStep

LEMMA CliInvariance == CliSpec => []CliInv
  BY InitCli, CliStepInv, PTL DEF CliSpec

--------------------------------------------------------------------------------
\* The struct, the counters and the verdict keep their types.
THEOREM CliTypeCorrect == CliSpec => []CliTypeOK
<1>1. CliInv => CliTypeOK
  BY DEF CliInv
<1>2. QED
  BY CliInvariance, <1>1, PTL

\* cli_parse returns what the command line means, unless a length was rejected.
LEMMA InvReturnsMeaning == CliInv => ReturnsMeaning
<1> SUFFICES ASSUME CliInv, parsing = "returned", ~Rejected
             PROVE  options = Meaning(Len(argv.opts), Len(argv.args))
  BY DEF ReturnsMeaning
<1>1. Len(argv.opts) \in Nat /\ opt_num \in 0..Len(argv.opts)
  BY LineTyped DEF CliInv, CliTypeOK
<1>2. ~(opt_num < Len(argv.opts) /\ RejectedAt(opt_num + 1))
  BY <1>1 DEF Rejected
<1>3. opt_num = Len(argv.opts) /\ arg_num = Len(argv.args)
  BY <1>1, <1>2 DEF CliInv, Ended
<1>4. QED
  BY <1>3 DEF CliInv

\* It returns a domain or a database for exactly the proper command lines.
LEMMA InvWorksOnProperLines == CliInv => WorksOnProperLines
<1> SUFFICES ASSUME CliInv, parsing # "parsing"
             PROVE  parsing = "returned" /\ options.domain_or_database # NONE <=> Proper
  BY DEF WorksOnProperLines
<1>1. /\ Len(argv.opts) \in Nat /\ opt_num \in 0..Len(argv.opts)
      /\ Len(argv.args) \in Nat /\ arg_num \in 0..Len(argv.args)
      /\ \A i \in 1..Len(argv.args) : argv.args[i] \in Seq(Word)
  BY LineTyped DEF CliInv, CliTypeOK
<1>2. ASSUME parsing = "returned", options.domain_or_database # NONE PROVE Proper
  <2>1. arg_num >= 1
    BY <1>1, <1>2 DEF CliInv, Meaning
  <2>2. opt_num = Len(argv.opts) /\ arg_num = Len(argv.args)
    BY <1>1, <1>2, <2>1 DEF CliInv, Delivered, Ended
  <2>3. Len(argv.args) \in 1..2
    <3>1. arg_num <= 2
      BY DEF CliInv, Delivered
    <3>2. 1 <= arg_num
      BY <1>1, <2>1
    <3>3. QED
      BY ONLY <1>1, <2>2, <3>1, <3>2, CountRange
  <2>4. \A i \in 1..Len(argv.opts) :
           argv.opts[i].key \in {"c", "l", "i"} /\ ~RejectedAt(i)
    <3>1. \A i \in 1..opt_num :
             argv.opts[i].key \in {"c", "l", "i"} /\ ~RejectedAt(i)
      BY DEF CliInv, Delivered
    <3>2. 1..opt_num = 1..Len(argv.opts)
      BY <2>2
    <3>3. QED
      BY ONLY <3>1, <3>2, Zenon
  <2>5. QED
    BY <2>3, <2>4 DEF Proper
<1>3. ASSUME Proper PROVE parsing = "returned" /\ options.domain_or_database # NONE
  <2>1. ASSUME opt_num < Len(argv.opts)
        PROVE  argv.opts[opt_num + 1].key \in {"c", "l", "i"} /\ ~RejectedAt(opt_num + 1)
    <3>1. opt_num + 1 \in 1..Len(argv.opts)
      BY <1>1, <2>1
    <3>2. QED
      BY <1>3, <3>1 DEF Proper
  <2>2. parsing = "returned"
    BY <1>3, <2>1 DEF CliInv, CliTypeOK, Ended, Proper
  <2>3. arg_num >= 1
    BY <2>1, <2>2 DEF CliInv, Ended
  <2>4. options.domain_or_database = argv.args[1]
    BY <1>1, <2>3 DEF CliInv, Meaning
  <2>5. argv.args[1] \in Seq(Word)
    BY <1>1, <2>3
  <2>6. QED
    BY <2>2, <2>4, <2>5, NullAssumption
<1>4. QED
  BY <1>2, <1>3

\* For all command lines the last of several options of one kind counts.
THEOREM CliReturnsMeaning == CliSpec => []ReturnsMeaning
  BY CliInvariance, InvReturnsMeaning, PTL

\* For all command lines, what is not proper gives the program nothing to work on.
THEOREM CliWorksOnProperLines == CliSpec => []WorksOnProperLines
  BY CliInvariance, InvWorksOnProperLines, PTL
================================================================================
