---------------------------------- MODULE Cli ----------------------------------
(***************************************************************************)
(* cli.c: what cli_parse makes of the command line.  argp permutes it: it  *)
(* calls parse_opt for every option in the order they are given, then for  *)
(* every argument, then for the end, and returns early when parse_opt      *)
(* returns an error.  A callback may also end the program.                 *)
(***************************************************************************)
EXTENDS Csv

CONSTANTS CommandLines    \* strings in them are words: nothing separates them

Key == {"c", "l", "i", "help", "unknown"}

ASSUME CommandLineAssumption ==
    CommandLines \subseteq [opts : Seq([key : Key, arg : Seq(Word)]),
                            args : Seq(Seq(Word))]

VARIABLES
    argv,       \* the command line
    opt_num,    \* how many options parse_opt was called for
    arg_num,    \* how many arguments it was called for
    options,    \* the struct it fills
    parsing     \* "parsing", "returned", "usage" and "help" (argp exits)

cliVars == <<argv, opt_num, arg_num, options, parsing>>

NoOptions == [domain_or_database |-> NONE, username |-> NONE, iteration |-> NONE,
              characters |-> NONE, length |-> 0]

CliInit == /\ argv \in CommandLines
           /\ opt_num = 0
           /\ arg_num = 0
           /\ options = NoOptions
           /\ parsing = "parsing"

--------------------------------------------------------------------------------
\* The callback is about the next option, an argument, or the end.
AtOption(key) == /\ parsing = "parsing" /\ opt_num < Len(argv.opts)
                 /\ argv.opts[opt_num + 1].key = key
AtArgument    == /\ parsing = "parsing" /\ opt_num = Len(argv.opts)
                 /\ arg_num < Len(argv.args)
AtEnd         == /\ parsing = "parsing" /\ opt_num = Len(argv.opts)
                 /\ arg_num = Len(argv.args)

OptionArg == argv.opts[opt_num + 1].arg

\* parse_opt returns 0 for an option.
Taken(opts) == /\ options' = opts
               /\ opt_num' = opt_num + 1
               /\ UNCHANGED <<argv, arg_num, parsing>>

\* argp_parse returns, or exits, with the options as they are.
Stop(how) == /\ parsing' = how
             /\ UNCHANGED <<argv, opt_num, arg_num, options>>

TakeCharacters == /\ AtOption("c")
                  /\ Taken([options EXCEPT !.characters = OptionArg])

\* Mutant: the first one counts.
TakeIterationOnce ==
    /\ AtOption("i")
    /\ Taken(IF options.iteration = NONE THEN [options EXCEPT !.iteration = OptionArg]
             ELSE options)

TakeIteration == /\ AtOption("i")
                 /\ Taken([options EXCEPT !.iteration = OptionArg])

\* Mutant: only zero is refused.
TakeLengthNegative == /\ AtOption("l") /\ atoi(OptionArg) # 0
                      /\ Taken([options EXCEPT !.length = atoi(OptionArg)])

TakeLength == /\ AtOption("l") /\ atoi(OptionArg) > 0
              /\ Taken([options EXCEPT !.length = atoi(OptionArg)])

\* Mutant: the error is reported, and the parser goes on.
RejectLengthAndGoOn == /\ AtOption("l") /\ atoi(OptionArg) <= 0
                       /\ Taken(options)

\* EINVAL ends the parsing, and cli_parse does not look at it.
RejectLength == /\ AtOption("l") /\ atoi(OptionArg) <= 0
                /\ Stop("returned")

Help == AtOption("help") /\ Stop("help")

\* argp itself refuses an unknown option, or one without its argument.
UnknownOption == AtOption("unknown") /\ Stop("usage")

TakeArgument == /\ AtArgument /\ arg_num < 2
                /\ LET arg == argv.args[arg_num + 1]
                   IN  options' = IF arg_num = 0
                                  THEN [options EXCEPT !.domain_or_database = arg]
                                  ELSE [options EXCEPT !.username = arg]
                /\ arg_num' = arg_num + 1
                /\ UNCHANGED <<argv, opt_num, parsing>>

TooManyArguments == AtArgument /\ arg_num >= 2 /\ Stop("usage")

\* Mutant: the end is not looked at.
EndUnchecked == AtEnd /\ Stop("returned")

End == AtEnd /\ Stop(IF arg_num < 1 THEN "usage" ELSE "returned")

CliStep == \/ TakeCharacters \/ TakeIteration \/ TakeLength \/ RejectLength
           \/ Help \/ UnknownOption \/ TakeArgument \/ TooManyArguments \/ End

CliSpec == CliInit /\ [][CliStep]_cliVars /\ WF_cliVars(CliStep)

--------------------------------------------------------------------------------
\* The argument of the last of the first n options with this key.
Given(n, key)   == {i \in 1..n : argv.opts[i].key = key}
LastArg(n, key) == argv.opts[CHOOSE i \in Given(n, key) :
                                 \A j \in Given(n, key) : j <= i].arg
OrNull(n, key)  == IF Given(n, key) = {} THEN NONE ELSE LastArg(n, key)

\* What n options and m arguments ask for.
Meaning(n, m) ==
    [domain_or_database |-> IF m < 1 THEN NONE ELSE argv.args[1],
     username           |-> IF m < 2 THEN NONE ELSE argv.args[2],
     iteration          |-> OrNull(n, "i"),
     characters         |-> OrNull(n, "c"),
     length             |-> IF Given(n, "l") = {} THEN 0 ELSE atoi(LastArg(n, "l"))]

RejectedAt(i) == argv.opts[i].key = "l" /\ atoi(argv.opts[i].arg) <= 0
Rejected      == \E i \in 1..Len(argv.opts) : RejectedAt(i)
Proper        == /\ Len(argv.args) \in 1..2
                 /\ \A i \in 1..Len(argv.opts) :
                        argv.opts[i].key \in {"c", "l", "i"} /\ ~RejectedAt(i)

\* The type invariant.
CliTypeOK == /\ argv \in CommandLines
             /\ opt_num \in 0..Len(argv.opts)
             /\ arg_num \in 0..Len(argv.args)
             /\ options \in [domain_or_database : Seq(Word) \cup {NONE},
                             username : Seq(Word) \cup {NONE},
                             iteration : Seq(Word) \cup {NONE},
                             characters : Seq(Word) \cup {NONE}, length : Nat]
             /\ parsing \in {"parsing", "returned", "usage", "help"}

\* What cli_parse returns for a proper command line is what the line means: the
\* last of several options of one kind counts, wherever the arguments stand.
ReturnsMeaning ==
    parsing = "returned" /\ ~Rejected =>
        options = Meaning(Len(argv.opts), Len(argv.args))

\* "padre with too many arguments yields an error", and "without arguments"
\* (Makefile:26-29): the program gets something to work on from exactly the proper
\* command lines.  After a rejected length cli_parse returns without a domain.
WorksOnProperLines ==
    parsing # "parsing" =>
        (parsing = "returned" /\ options.domain_or_database # NONE <=> Proper)
================================================================================
