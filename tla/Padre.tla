--------------------------------- MODULE Padre ---------------------------------
(***************************************************************************)
(* main.c, with derive_password and to_chars of padre.c: from the command  *)
(* line to the derived password or the failure.  The command line is       *)
(* parsed as in Cli.  The database is read as CsvReader says, which        *)
(* Accounts implements, and the terminal behaves as in Tui, so that keys,  *)
(* the end of the input and the program's own steps interleave.            *)
(***************************************************************************)
EXTENDS Tui, Cli

CONSTANTS
    Files, Slacks,    \* as in CsvReader
    Cut,              \* Cut[w]: the words that are beginnings of w
    STDIN,            \* the path "-"
    ZERO,             \* the iteration "0"
    Members(_),       \* the characters a pattern stands for, see Charset, or
    TOO_LONG,         \*   that it stands for more than its array holds, or
    ENDLESS,          \*   that the scan of it never ends
    Scrypt(_, _, _)   \* the key derived from password, salt and length

ASSUME FilesAssumption == /\ Files \subseteq Seq(Token) /\ Slacks \subseteq Seq(Word)
                          /\ Cut \in [Word -> SUBSET Word]
ASSUME ZeroAssumption  == ZERO \in Seq(Word)

VARIABLES
    disk,        \* the database as it is stored
    file, table, taken, verdict,    \* the database, as in CsvReader
    account,     \* the account determined
    password,    \* the derived bytes
    chars,       \* the charset enumerated
    printed,     \* what was written to stdout
    pc,          \* where main is
    status       \* "running", "success", "failure", "helped", "crashed", or
                 \*   "starved": crashed for want of memory

database == <<disk, file, table, taken, verdict>>
vars     == <<tuiVars, cliVars, database, account, password, chars, printed, pc, status>>

Reader == INSTANCE CsvReader

NullAccount == [domain |-> NONE, username |-> NONE, iteration |-> NONE,
                characters |-> NONE, length |-> 0]

Init == /\ TuiInit
        /\ CliInit
        /\ Reader!Init
        /\ disk = file
        /\ account = NullAccount
        /\ password = <<>>
        /\ chars = <<>>
        /\ printed = NONE
        /\ pc = "parse arguments"
        /\ status = "running"

--------------------------------------------------------------------------------
At(label) == status = "running" /\ pc = label
Goto(label) == pc' = label /\ UNCHANGED status
Exit(how)   == status' = how /\ UNCHANGED pc

ParseArguments ==
    /\ At("parse arguments")
    /\ CliStep
    /\ UNCHANGED <<tuiVars, database, account, password, chars, printed, pc, status>>

\* cli_parse returns, or argp has ended the program.
ArgumentsParsed ==
    /\ At("parse arguments") /\ parsing # "parsing"
    /\ CASE parsing = "returned" -> Goto("determine")
         [] parsing = "usage"    -> Exit("failure")
         [] parsing = "help"     -> Exit("helped")
    /\ UNCHANGED <<tuiVars, cliVars, database, account, password, chars, printed>>

\* determine_account returns a: without a domain main ends here.
Determined(a) == /\ account' = a
                 /\ IF a.domain = NONE THEN Exit("failure") ELSE Goto("allocate")

FromCommandLine ==
    /\ At("determine") /\ options.username # NONE
    /\ Determined([domain     |-> options.domain_or_database,
                   username   |-> options.username,
                   iteration  |-> IF options.iteration = NONE THEN ZERO
                                  ELSE options.iteration,
                   characters |-> IF options.characters = NONE THEN <<>>
                                  ELSE options.characters,
                   length     |-> IF options.length = 0 THEN 64 ELSE options.length])
    /\ UNCHANGED <<tuiVars, cliVars, database, password, chars, printed>>

\* strcmp(path, "-") of a null path.
NullPath == /\ At("determine") /\ options.username = NONE
            /\ options.domain_or_database = NONE
            /\ Exit("crashed")
            /\ UNCHANGED <<tuiVars, cliVars, database, account, password, chars, printed>>

\* What a file read up to its end, or up to an error, leaves in the buffer.
Beginnings(f) ==
    {SubSeq(f, 1, n) : n \in 0..Len(f)}
    \cup UNION {{Append(SubSeq(f, 1, n), w) : w \in Cut[f[n + 1]]} :
                  n \in {i \in 0..Len(f) - 1 : f[i + 1] \in Word}}

\* Nobody asks whether fread failed.  Reading from stdin uses up a pipe, while a
\* terminal may go on.
ReadDatabase == /\ At("determine") /\ options.username = NONE
                /\ options.domain_or_database # NONE
                /\ file' \in Beginnings(disk)
                /\ \/ drained' = drained
                   \/ options.domain_or_database = STDIN /\ drained' = TRUE
                /\ Goto("parse")
                /\ UNCHANGED <<screen, call, items, current, passwd, answer, cliVars,
                               disk, table, taken, verdict, account, password, chars,
                               printed>>

\* The file cannot be opened, it is too large, or there is no memory for it and
\* nothing more to read.
NoDatabase == /\ At("determine") /\ options.username = NONE
              /\ options.domain_or_database # NONE
              /\ Determined(NullAccount)
              /\ UNCHANGED <<tuiVars, cliVars, database, password, chars, printed>>

Parse == /\ At("parse")
         /\ Reader!Next
         /\ UNCHANGED <<tuiVars, cliVars, disk, account, password, chars, printed, pc, status>>

Parsed == At("parse") /\ verdict \in {"done", "refused"}

EmptyTable == /\ Parsed /\ Len(table) = 0
              /\ Determined(NullAccount)
              /\ UNCHANGED <<tuiVars, cliVars, database, password, chars, printed>>

OnlyAccount == /\ Parsed /\ Len(table) = 1
               /\ Determined(table[1])
               /\ UNCHANGED <<tuiVars, cliVars, database, password, chars, printed>>

OfferMenu == /\ Parsed /\ Len(table) > 1
             /\ ShowMenu([i \in 1..Len(table) |-> IF table[i].domain \in {NONE, <<>>}
                                                 THEN "nameless" ELSE "named"])
             /\ Goto("menu")
             /\ UNCHANGED <<cliVars, database, account, password, chars, printed>>

\* A null pointer that nobody asked for is written through: there is no memory
\* for what is read, for the accounts, for the items of the menu, or for curses'.
Starves == /\ \/ /\ At("determine") /\ options.username = NONE
                 /\ options.domain_or_database # NONE /\ disk # <<>>
              \/ At("parse") /\ verdict = "crashed"
              \/ Parsed /\ Len(table) > 1
              \/ At("menu") /\ call = "crashed"
           /\ Exit("starved")
           /\ UNCHANGED <<tuiVars, cliVars, database, account, password, chars, printed>>

MenuEnds == /\ At("menu") /\ call = "none"
            /\ Determined(IF answer >= 0 THEN table[answer + 1] ELSE NullAccount)
            /\ UNCHANGED <<tuiVars, cliVars, database, password, chars, printed>>

--------------------------------------------------------------------------------
Allocate == /\ At("allocate")
            /\ AskPassword
            /\ Goto("ask")
            /\ UNCHANGED <<cliVars, database, account, password, chars, printed>>

\* malloc fails here, or initscr, here or for the menu, finds no terminal.
CannotAsk == /\ At("allocate") \/ (Parsed /\ Len(table) > 1)
             /\ Exit("failure")
             /\ UNCHANGED <<tuiVars, cliVars, database, account, password, chars, printed>>

UserActs == /\ At("menu") \/ At("ask")
            /\ TuiStep
            /\ UNCHANGED <<cliVars, database, account, password, chars, printed, pc, status>>

\* ret != 0: main returns without having cleared the buffer.
PromptFails == /\ At("ask") /\ call = "none" /\ answer = FAILED
               /\ Exit("failure")
               /\ UNCHANGED <<tuiVars, cliVars, database, account, password, chars, printed>>

Salt(a) == a.domain \o a.username \o a.iteration

Incomplete(a) == NONE \in {a.username, a.iteration}

\* strlen of a null pointer.
DeriveCrashes == /\ At("ask") /\ call = "none" /\ answer # FAILED
                 /\ Incomplete(account)
                 /\ Exit("crashed")
                 /\ UNCHANGED <<tuiVars, cliVars, database, account, password, chars, printed>>

Derive == /\ At("ask") /\ call = "none" /\ answer # FAILED
          /\ ~Incomplete(account)
          /\ password' = Scrypt(passwd, Salt(account), account.length)
          /\ Goto("clear")
          /\ UNCHANGED <<tuiVars, cliVars, database, account, chars, printed>>

\* Mutant: the prompt is shown once more when scrypt fails.
DeriveRetries == /\ At("ask") /\ call = "none" /\ answer # FAILED
                 /\ ~Incomplete(account)
                 /\ Goto("allocate")
                 /\ UNCHANGED <<tuiVars, cliVars, database, account, password, chars, printed>>

\* There is no memory for the salt, or scrypt fails.
DeriveFails == /\ At("ask") /\ call = "none" /\ answer # FAILED
               /\ ~Incomplete(account)
               /\ Goto("clear after failure")
               /\ UNCHANGED <<tuiVars, cliVars, database, account, password, chars, printed>>

\* Mutant: the failure is looked at before the buffer is cleared.
ClearLate == /\ At("clear") \/ At("clear after failure")
             /\ IF pc = "clear"
                THEN passwd' = [i \in 1..Len(passwd) |-> 0] /\ Goto("charset")
                ELSE UNCHANGED passwd /\ Exit("failure")
             /\ UNCHANGED <<screen, call, items, current, drained, answer,
                            cliVars, database, account, password, chars, printed>>

Clear == /\ At("clear") \/ At("clear after failure")
         /\ passwd' = [i \in 1..Len(passwd) |-> 0]
         /\ IF pc = "clear" THEN Goto("charset") ELSE Exit("failure")
         /\ UNCHANGED <<screen, call, items, current, drained, answer,
                        cliVars, database, account, password, chars, printed>>

\* Mutant: nobody looks at what enumerate_charset returned.
EnumerateUnchecked ==
    /\ At("charset") /\ Members(account.characters) # ENDLESS
    /\ chars' = IF Members(account.characters) = TOO_LONG THEN <<>>
                ELSE Members(account.characters)
    /\ Goto("print")
    /\ UNCHANGED <<tuiVars, cliVars, database, account, password, printed>>

Enumerate == /\ At("charset") /\ Members(account.characters) \notin {TOO_LONG, ENDLESS}
             /\ chars' = Members(account.characters)
             /\ Goto("print")
             /\ UNCHANGED <<tuiVars, cliVars, database, account, password, printed>>

\* The pattern is too long, or there is no memory for its characters.
EnumerateFails == /\ At("charset") /\ Members(account.characters) # ENDLESS
                  /\ Exit("failure")
                  /\ UNCHANGED <<tuiVars, cliVars, database, account, password, chars, printed>>

Spin == /\ At("charset") /\ Members(account.characters) = ENDLESS
        /\ UNCHANGED vars

\* Mutant: the last byte becomes the terminator.
to_chars_short(bytes, cs) == [i \in 1..Len(bytes) - 1 |-> cs[(bytes[i] % Len(cs)) + 1]]

to_chars(bytes, cs) == [i \in 1..Len(bytes) |-> cs[(bytes[i] % Len(cs)) + 1]]

PrintPassword == /\ At("print") /\ (chars # <<>> \/ password = <<>>)
                 /\ printed' = to_chars(password, chars)
                 /\ Exit("success")
                 /\ UNCHANGED <<tuiVars, cliVars, database, account, password, chars>>

\* The remainder of a division by an empty charset.
PrintCrashes == /\ At("print") /\ chars = <<>> /\ password # <<>>
                /\ Exit("crashed")
                /\ UNCHANGED <<tuiVars, cliVars, database, account, password, chars, printed>>

Next == \/ ParseArguments \/ ArgumentsParsed
        \/ FromCommandLine \/ NullPath \/ ReadDatabase \/ NoDatabase
        \/ Parse \/ EmptyTable \/ OnlyAccount \/ OfferMenu \/ MenuEnds
        \/ Starves \/ Allocate \/ CannotAsk \/ UserActs \/ PromptFails
        \/ DeriveCrashes \/ Derive \/ DeriveFails \/ Clear
        \/ Enumerate \/ EnumerateFails \/ Spin \/ PrintPassword \/ PrintCrashes

\* The process runs while it can, and the user, who may browse the menu for as
\* long as he likes, selects an item or quits in the end.
Fairness == /\ WF_vars(Next)
            /\ WF_vars(UserActs /\ call = "menu" /\ call' = "none")

Spec == Init /\ [][Next]_vars /\ Fairness

--------------------------------------------------------------------------------
String  == Seq(Token) \cup {NONE}
Account == [domain : String, username : String, iteration : String,
            characters : String, length : Nat]

\* The type invariant.
TypeOK == /\ screen \in {"normal", "curses"}
          /\ call \in {"none", "posting", "menu", "prompt", "crashed"}
          /\ current \in Nat
          /\ passwd \in Seq(0..255)
          /\ answer \in Int
          /\ table \in Seq(Account)
          /\ account \in Account
          /\ password \in Seq(0..255)
          /\ pc \in {"parse arguments", "determine", "parse", "menu", "allocate", "ask",
                     "clear", "clear after failure", "charset", "print"}
          /\ status \in {"running", "success", "failure", "helped", "crashed", "starved"}

Secret == \E i \in 1..Len(passwd) : passwd[i] # 0

\* Once the charset is looked at, the master password is gone from memory: it is
\* still there at an exit only if the prompt failed, or the program crashed on an
\* account whose fields it had not checked (main.c:140-161).
SecretForgotten ==
    Secret => \/ status = "running" /\ pc \in {"ask", "clear", "clear after failure"}
              \/ status # "running" /\ pc = "ask" /\ (answer = FAILED \/ Incomplete(account))

Chosen == pc \in {"allocate", "ask", "clear", "clear after failure", "charset", "print"}

\* What a command line with two arguments asks for.
Requested == LET m == Meaning(Len(argv.opts), 2)
             IN  [domain     |-> m.domain_or_database,
                  username   |-> m.username,
                  iteration  |-> IF m.iteration = NONE THEN ZERO ELSE m.iteration,
                  characters |-> IF m.characters = NONE THEN <<>> ELSE m.characters,
                  length     |-> IF m.length = 0 THEN 64 ELSE m.length]

\* The account the password is derived for is the one that was asked for, by a
\* proper command line: the one with the last of all options given there, the only
\* one of the database, or the one under the cursor when the menu was left, in a
\* table that is still complete.
AccountIsTheOneChosen ==
    Chosen => /\ Proper
              /\ account.domain # NONE
              /\ IF Len(argv.args) = 2 THEN account = Requested
                 ELSE /\ verdict = "done"
                      /\ IF Len(table) = 1 THEN account = table[1]
                         ELSE current < Len(table) /\ account = table[current + 1]

\* a is an entry of the file as it is stored.
OnDisk(a) == \E k \in 1..Lines(disk) + 1 : /\ ~Skipped(Line(disk, k))
                                           /\ a = EntryOf(Line(disk, k))

\* A read error nobody notices, or a missing line end, spoils the last account of
\* the table and no other (main.c:52, padre.c:255): whichever else is used is an
\* entry of the file as it is stored.
SpoilsOnlyTheLast ==
    Chosen /\ Len(argv.args) = 1 =>
        \/ OnDisk(account)
        \/ account = table[Len(table)] /\ Fragment(file) # <<>>

\* Success means a password on stdout, and failure none: one of the length asked
\* for, of characters of its account's pattern only.  On the command line no length
\* but a positive one is accepted, so that there it is never empty.
SuccessIsPrinted ==
    /\ status = "success" <=> printed # NONE
    /\ status = "success" =>
          LET permitted == Members(account.characters)
          IN  /\ Len(printed) = account.length
              /\ Len(argv.args) = 2 => printed # <<>>
              /\ \A i \in 1..Len(printed) :
                    \E j \in 1..Len(permitted) : printed[i] = permitted[j]

\* The length "may not be negative or zero" (padre.c:238): no password is empty,
\* in a database whose lines are all complete.
PasswordNotEmpty == status = "success" /\ Fragment(file) = <<>> => printed # <<>>

\* Given the memory it allocates, the program crashes in three places only: on the
\* null path a rejected length leaves; in strlen, for an account of the database
\* without an iteration, which no line is checked for, or, in a last line without
\* a line end, without a username; and in the division by the number of permitted
\* characters, for a pattern whose ranges are all reversed.
CrashesOnlyOnDefects ==
    status = "crashed" =>
        \/ pc = "determine" /\ Rejected
        \/ /\ pc = "ask" /\ Len(argv.args) = 1 /\ Incomplete(account)
           /\ account.username = NONE =>
                 account = table[Len(table)] /\ Fragment(file) # <<>>
        \/ pc = "print" /\ Members(account.characters) = <<>>

\* Whatever way the program ends, the terminal is back to normal, unless there
\* was no memory for the items of the menu.
TerminalRestored ==
    status # "running" => \/ screen = "normal"
                          \/ status = "starved" /\ call = "crashed"

\* The master password is asked for once, and only for an account with a domain.
AskedOnce ==
    [][call' = "prompt" /\ call # "prompt" => /\ passwd = <<>> /\ pc = "allocate"
                                              /\ account.domain # NONE]_vars

\* Once the master password has been asked for, the program ends, whatever is
\* typed and whether or not the input ends there: nothing is asked twice and no
\* failure is tried again, unless the scan of the pattern never ends.
EndsOncePrompted ==
    pc = "ask" /\ Members(account.characters) # ENDLESS ~> status # "running"

\* The program ends, if its database is read without an error.
Terminates == [](file = disk) => <>(status # "running")

\* "no program exit between here ... and here" (main.c:140, 154): the program does
\* not exit with the master password in memory.
NoExitWithSecret == status \in {"success", "failure"} => ~Secret
================================================================================
