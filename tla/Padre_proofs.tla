----------------------------- MODULE Padre_proofs ------------------------------
(***************************************************************************)
(* Proofs about Padre for all databases, options, keys and patterns.  The  *)
(* invariant says what main may rely on at each place: that no call of the *)
(* terminal is under way but where it waits for one, that the buffer of    *)
(* the master password is empty before the prompt and zero after Clear,    *)
(* and that the menu is about the table, which stays as it is.             *)
(***************************************************************************)
EXTENDS Padre, Terminal_proofs, Cli_proofs, Csv_proofs

BeforePrompt == {"parse arguments", "determine", "parse", "menu", "allocate"}

\* Where a call may be under way, and how the terminal looks.
Calls == /\ call \in {"none", "posting", "menu", "prompt", "crashed"}
         /\ screen = "curses" <=> call # "none"
         /\ screen \in {"normal", "curses"}
         /\ call # "none" => status = "running" \/ (status = "starved" /\ call = "crashed")
         /\ call \in {"posting", "menu", "crashed"} => pc = "menu"
         /\ call = "prompt" => pc = "ask"

\* What the buffer of the master password holds.
Buffer == /\ passwd \in Seq(0..255)
          /\ pc \in BeforePrompt => passwd = <<>>
          /\ SecretForgotten

\* What is known of the database.
Database == /\ table \in Seq({table[i] : i \in DOMAIN table})
            /\ verdict \in {"reading", "done", "refused", "crashed"}
            /\ verdict = "refused" => table = <<>>

\* What the command line was, once it is parsed.
Arguments == /\ CliInv
             /\ pc # "parse arguments" => parsing = "returned"
             /\ pc \in {"parse", "menu"} => Proper /\ Len(argv.args) = 1

\* The menu is about the table, and its cursor is on one of its rows.
Offer == pc = "menu" =>
            /\ verdict = "done" /\ Len(table) > 1
            /\ items \in Seq(Label) /\ Len(items) = Len(table)
            /\ current \in Nat
            /\ call = "posting" => current = 0
            /\ call = "menu" => current < Shown
            /\ call = "none" /\ answer >= 0 => answer = current /\ current < Len(table)

\* Where the program may crash.
CrashSites ==
    status = "crashed" => \/ pc = "determine" /\ Rejected
                          \/ pc = "ask" /\ Len(argv.args) = 1 /\ Incomplete(account)
                          \/ pc = "print" /\ Members(account.characters) = <<>>

IInv == /\ Calls
        /\ Buffer
        /\ Database
        /\ Arguments
        /\ Offer
        /\ AccountIsTheOneChosen
        /\ pc = "print" => chars = Members(account.characters)
        /\ CrashSites

--------------------------------------------------------------------------------
\* A sequence that grows is a sequence of its own elements.
LEMMA OwnElements ==
  ASSUME NEW s, s \in Seq({s[i] : i \in DOMAIN s}), NEW e, NEW t, t = Append(s, e)
  PROVE  t \in Seq({t[i] : i \in DOMAIN t})
<1> DEFINE S == {s[i] : i \in DOMAIN s} \cup {e}
<1>1. s \in Seq(S) /\ e \in S
  BY SeqMonotonic
<1> HIDE DEF S
<1>2. t \in Seq(S)
  BY <1>1, AppendProperties
<1>3. PICK n \in Nat : t \in [1..n -> S]
  <2>1. t \in UNION {[1..n -> S] : n \in Nat}
    BY ONLY <1>2, SeqDef
  <2>2. QED
    BY ONLY <2>1, Zenon
<1> DEFINE R == {t[i] : i \in DOMAIN t}
<1>4. t \in [1..n -> R]
  <2>1. t = [i \in 1..n |-> t[i]] /\ DOMAIN t = 1..n
    BY ONLY <1>3
  <2>2. \A i \in 1..n : t[i] \in R
    BY <2>1
  <2> HIDE DEF R
  <2>3. QED
    BY ONLY <2>1, <2>2
<1> HIDE DEF R
<1>5. t \in Seq(R)
  BY ONLY <1>4, n \in Nat, SeqDef
<1>6. QED
  BY <1>5 DEF R

\* A function on 1..n is a sequence of length n.
LEMMA FunctionIsSeq ==
  ASSUME NEW n \in Nat, NEW S, NEW f \in [1..n -> S]
  PROVE  f \in Seq(S) /\ Len(f) = n
<1>1. f \in Seq(S)
  BY SeqDef
<1>2. DOMAIN f = 1..n /\ Len(f) \in Nat /\ DOMAIN f = 1..Len(f)
  BY <1>1, LenProperties
<1>3. QED
  BY ONLY <1>1, <1>2, n \in Nat

--------------------------------------------------------------------------------
\* What steps that leave the command line alone leave alone.
LEMMA CliSame ==
  ASSUME UNCHANGED cliVars
  PROVE  /\ UNCHANGED <<argv, options, parsing>>
         /\ CliInv => CliInv'
         /\ Proper' <=> Proper
         /\ Rejected' <=> Rejected
         /\ Requested' = Requested
<1>1. UNCHANGED <<argv, opt_num, arg_num, options, parsing>>
  BY DEF cliVars
<1>2. CliInv => CliInv'
  BY CliStepInv
<1>3. QED
  BY <1>1, <1>2 DEF Proper, Rejected, RejectedAt, Requested, Meaning, OrNull, LastArg, Given

\* What cli_parse may have returned.
LEMMA Returned ==
  ASSUME CliInv, parsing = "returned"
  PROVE  /\ options.username # NONE =>
               Proper /\ Len(argv.args) = 2 /\ options = Meaning(Len(argv.opts), 2)
         /\ options.username = NONE /\ options.domain_or_database # NONE =>
               Proper /\ Len(argv.args) = 1
         /\ options.domain_or_database = NONE => Rejected
<1>1. /\ Len(argv.opts) \in Nat /\ opt_num \in 0..Len(argv.opts)
      /\ Len(argv.args) \in Nat /\ arg_num \in 0..Len(argv.args)
      /\ \A i \in 1..Len(argv.args) : argv.args[i] \in Seq(Word)
  BY LineTyped DEF CliInv, CliTypeOK
<1>2. /\ options.domain_or_database = IF arg_num < 1 THEN NONE ELSE argv.args[1]
      /\ options.username = IF arg_num < 2 THEN NONE ELSE argv.args[2]
      /\ options = Meaning(opt_num, arg_num)
  BY DEF CliInv, Meaning
<1>3. arg_num >= 1 => opt_num = Len(argv.opts) /\ arg_num = Len(argv.args) /\ arg_num <= 2
  <2>1. /\ opt_num < Len(argv.opts) => arg_num = 0
        /\ arg_num <= 2
        /\ opt_num < Len(argv.opts) \/ arg_num = Len(argv.args)
    BY DEF CliInv, Delivered, Ended
  <2>2. QED
    BY ONLY <1>1, <2>1
<1>4. arg_num >= 1 => options.domain_or_database # NONE
  BY <1>1, <1>2, NullAssumption
<1>5. arg_num >= 2 => options.username # NONE
  BY <1>1, <1>2, NullAssumption
<1>6. arg_num >= 1 => Proper
  BY <1>4, InvWorksOnProperLines DEF WorksOnProperLines
<1>7. CASE arg_num >= 2
  <2>1. opt_num = Len(argv.opts) /\ arg_num = 2 /\ Len(argv.args) = 2
    <3>1. arg_num \in Int /\ arg_num <= 2 /\ arg_num >= 2
      BY <1>1, <1>3, <1>7
    <3>2. arg_num = 2
      BY ONLY <3>1
    <3>3. QED
      BY <1>3, <1>7, <3>2
  <2>2. options = Meaning(Len(argv.opts), 2)
    BY <1>2, <2>1
  <2>3. options.username # NONE /\ options.domain_or_database # NONE /\ Proper
    BY <1>4, <1>5, <1>6, <2>1
  <2>4. QED
    BY <2>1, <2>2, <2>3
<1>8. CASE arg_num = 1
  BY <1>1, <1>2, <1>3, <1>4, <1>6, <1>8
<1>9. CASE arg_num = 0
  <2>1. opt_num < Len(argv.opts) /\ RejectedAt(opt_num + 1)
    BY <1>9 DEF CliInv, Ended
  <2>2. Rejected
    BY <1>1, <2>1 DEF Rejected
  <2>3. QED
    BY <1>2, <1>9, <2>2
<1>10. QED
  BY <1>1, <1>7, <1>8, <1>9

\* What two arguments ask for has a username and an iteration.
LEMMA RequestedIsComplete ==
  ASSUME CliInv, Len(argv.args) = 2
  PROVE  ~Incomplete(Requested)
<1>1. argv.args[2] \in Seq(Word)
  BY LineTyped DEF CliInv, CliTypeOK
<1> DEFINE m == Meaning(Len(argv.opts), 2)
<1>2. m.username = argv.args[2]
  BY DEF Meaning
<1>3. /\ Requested.username = m.username
      /\ Requested.iteration = IF m.iteration = NONE THEN ZERO ELSE m.iteration
  BY DEF Requested
<1> HIDE DEF m
<1>4. Requested.username # NONE /\ Requested.iteration # NONE
  BY <1>1, <1>2, <1>3, ZeroAssumption, NullAssumption
<1>5. QED
  BY <1>4 DEF Incomplete

\* The length they ask for is not zero: it is the default, or was not rejected.
LEMMA RequestedLength == Requested.length # 0
<1> DEFINE m == Meaning(Len(argv.opts), 2)
<1>1. Requested.length = IF m.length = 0 THEN 64 ELSE m.length
  BY DEF Requested
<1> HIDE DEF m
<1>2. QED
  BY ONLY <1>1

\* After the command line, what is known of it stays.
LEMMA ArgumentsStay ==
  ASSUME Arguments, UNCHANGED cliVars,
         pc # "parse arguments" \/ pc' = pc,
         pc' \in {"parse", "menu"} => pc \in {"parse", "menu"}
  PROVE  Arguments'
  BY CliSame DEF Arguments

\* So does the account.
LEMMA AccountStays ==
  ASSUME AccountIsTheOneChosen, UNCHANGED cliVars,
         UNCHANGED <<account, table, verdict, current>>, Chosen' => Chosen
  PROVE  AccountIsTheOneChosen'
  BY CliSame DEF AccountIsTheOneChosen

--------------------------------------------------------------------------------
LEMMA InitIInv == Init => IInv
<1> SUFFICES ASSUME Init PROVE IInv
  OBVIOUS
<1>1. CliInv
  BY InitCli DEF Init
<1>2. Arguments
  BY <1>1 DEF Init, Arguments
<1>3. Calls /\ Buffer
  <2>1. passwd = <<>> /\ pc = "parse arguments" /\ status = "running"
    BY DEF Init, TuiInit
  <2>2. Buffer
    <3>1. passwd \in Seq(0..255) /\ Len(passwd) = 0
      <4>1. <<>> \in Seq(0..255) /\ Len(<<>>) = 0
        BY EmptySeq, Zenon
      <4>2. QED
        BY ONLY <2>1, <4>1, Zenon
    <3>2. ~Secret
      BY <3>1 DEF Secret
    <3>3. QED
      BY <2>1, <3>1, <3>2 DEF Buffer, SecretForgotten
  <2>3. QED
    BY <2>2 DEF Init, TuiInit, Calls
<1>4. Database
  BY EmptySeq DEF Init, Reader!Init, Database
<1>5. pc = "parse arguments" /\ status = "running"
  BY DEF Init
<1>6. Offer /\ AccountIsTheOneChosen /\ CrashSites
  BY <1>5 DEF Offer, AccountIsTheOneChosen, Chosen, CrashSites
<1>7. QED
  BY <1>2, <1>3, <1>4, <1>5, <1>6 DEF IInv

--------------------------------------------------------------------------------
\* What the user does in a call, and how it leaves the rest alone.
LEMMA UserActsIInv == IInv /\ UserActs => IInv'
<1> SUFFICES ASSUME IInv, UserActs PROVE IInv'
  OBVIOUS
<1>1. /\ status = "running" /\ pc \in {"menu", "ask"} /\ TuiStep
      /\ UNCHANGED <<cliVars, database, account, password, chars, printed, pc, status>>
  BY DEF UserActs, At
<1>2. UNCHANGED <<file, table, taken, verdict>>
  BY <1>1 DEF database
<1>3. call \notin {"none", "crashed"}
  BY <1>1 DEF TuiStep, PostMenu, PostFails, NoMemory, MoveDown, MoveUp, Select, Quit,
     Ignore, TypeKey, Accept, InputEnds
<1>4. CASE pc = "menu"
  <2>1. call \in {"posting", "menu"} /\ items \in Seq(Label) /\ current \in Nat
    BY <1>3, <1>4 DEF IInv, Calls, Offer
  <2>2. /\ UNCHANGED <<items, passwd>> /\ current' \in Nat
        /\ \/ call' = "posting" /\ current' = 0 /\ screen' = screen
           \/ call' = "menu" /\ current' < Shown' /\ screen' = screen
           \/ call' = "crashed" /\ screen' = screen
           \/ /\ call' = "none" /\ screen' = "normal"
              /\ answer' >= 0 => answer' = current' /\ current' < Len(items)
    BY <1>1, <1>4, <2>1, MenuStep DEF IInv, Offer
  <2>3. Calls'
    BY <1>1, <1>3, <1>4, <2>2 DEF IInv, Calls
  <2>4. Buffer'
    BY <1>1, <1>4, <2>2 DEF IInv, Buffer, BeforePrompt, SecretForgotten, Secret
  <2>5. Offer'
    BY <1>1, <1>2, <1>4, <2>2 DEF IInv, Offer
  <2>6. AccountIsTheOneChosen' /\ CrashSites'
    BY <1>1, <1>4 DEF AccountIsTheOneChosen, Chosen, CrashSites
  <2>7. Arguments'
    BY <1>1, <1>4, ArgumentsStay DEF IInv
  <2>8. QED
    BY <1>1, <1>2, <1>4, <2>3, <2>4, <2>5, <2>6, <2>7 DEF IInv, Database
<1>5. CASE pc = "ask"
  <2>1. call = "prompt" /\ passwd \in Seq(0..255)
    BY <1>3, <1>5 DEF IInv, Calls, Buffer
  <2>2. /\ UNCHANGED <<items, current>> /\ passwd' \in Seq(0..255)
        /\ \/ call' = "prompt" /\ screen' = screen
           \/ call' = "none" /\ screen' = "normal"
    BY <1>1, <2>1, PromptStep
  <2>3. Calls'
    BY <1>1, <1>3, <1>5, <2>2 DEF IInv, Calls
  <2>4. Buffer'
    BY <1>1, <1>5, <2>2 DEF Buffer, BeforePrompt, SecretForgotten
  <2>5. Offer'
    BY <1>1, <1>5 DEF Offer
  <2>6. AccountIsTheOneChosen'
    BY <1>1, <1>2, <1>5, <2>2, AccountStays DEF IInv, Chosen
  <2>7. CrashSites' /\ Arguments'
    BY <1>1, <1>5, ArgumentsStay DEF IInv, CrashSites
  <2>8. QED
    BY <1>1, <1>2, <1>5, <2>3, <2>4, <2>5, <2>6, <2>7 DEF IInv, Database
<1>6. QED
  BY <1>1, <1>4, <1>5

\* Reading the next line of the database.
LEMMA ParseIInv == IInv /\ Parse => IInv'
<1> SUFFICES ASSUME IInv, Parse PROVE IInv'
  OBVIOUS
<1>1. /\ status = "running" /\ pc = "parse" /\ Reader!Next
      /\ UNCHANGED <<tuiVars, cliVars, disk, account, password, chars, printed, pc, status>>
  BY DEF Parse, At
<1>2. UNCHANGED <<screen, call, items, current, passwd, drained, answer>>
  BY <1>1 DEF tuiVars
<1>3. Database'
  <2>1. /\ verdict = "reading" /\ verdict' \in {"reading", "done", "refused", "crashed"}
        /\ \/ table' = <<>>
           \/ verdict' # "refused" /\ table' = table
           \/ verdict' # "refused" /\ \E e : table' = Append(table, e)
    <3>1. CASE Reader!TakeLine
      BY <3>1 DEF Reader!TakeLine, Reader!Refuse
    <3>2. CASE Reader!TakeFragment
      BY <3>2 DEF Reader!TakeFragment, Reader!Refuse
    <3>3. CASE Reader!NoMemory
      BY <3>3 DEF Reader!NoMemory
    <3>4. QED
      BY <1>1, <3>1, <3>2, <3>3 DEF Reader!Next
  <2>2. CASE table' = <<>>
    BY <2>1, <2>2, EmptySeq DEF Database
  <2>3. CASE table' = table /\ verdict' # "refused"
    BY <2>1, <2>3 DEF IInv, Database
  <2>4. CASE (\E e : table' = Append(table, e)) /\ verdict' # "refused"
    <3>1. PICK e : table' = Append(table, e)
      BY <2>4
    <3>2. table' \in Seq({table'[i] : i \in DOMAIN table'})
      BY <3>1, OwnElements DEF IInv, Database
    <3>3. QED
      BY <2>1, <2>4, <3>2 DEF Database
  <2>5. QED
    BY <2>1, <2>2, <2>3, <2>4
<1>4. Calls' /\ Buffer'
  BY <1>1, <1>2 DEF IInv, Calls, Buffer, BeforePrompt, SecretForgotten, Secret
<1>5. Offer' /\ AccountIsTheOneChosen' /\ CrashSites'
  BY <1>1 DEF IInv, Offer, AccountIsTheOneChosen, Chosen, CrashSites
<1>6. Arguments'
  BY <1>1, ArgumentsStay DEF IInv
<1>7. QED
  BY <1>1, <1>3, <1>4, <1>5, <1>6 DEF IInv

\* The steps that determine the account leave the terminal and the database alone.
LEMMA DeterminedIInv ==
  ASSUME IInv, NEW a, Determined(a), status = "running",
         pc \in {"determine", "parse", "menu"}, call = "none",
         UNCHANGED <<tuiVars, cliVars, database, password, chars, printed>>,
         a.domain # NONE =>
            /\ Proper
            /\ IF Len(argv.args) = 2 THEN a = Requested
               ELSE /\ verdict = "done"
                    /\ IF Len(table) = 1 THEN a = table[1]
                       ELSE current < Len(table) /\ a = table[current + 1]
  PROVE  IInv'
<1>1. /\ UNCHANGED <<screen, call, items, current, passwd, drained, answer, file, table,
                     taken, verdict, password, chars, printed>>
      /\ UNCHANGED cliVars
  BY DEF tuiVars, database
<1>2. passwd = <<>> /\ passwd \in Seq(0..255)
  BY DEF IInv, Buffer, BeforePrompt
<1>3. /\ account' = a
      /\ \/ a.domain = NONE /\ status' = "failure" /\ pc' = pc
         \/ a.domain # NONE /\ pc' = "allocate" /\ status' = "running"
  BY DEF Determined, Exit, Goto
<1>4. Calls'
  BY <1>1, <1>3 DEF IInv, Calls
<1>5. Buffer'
  BY <1>1, <1>2, <1>3 DEF Buffer, BeforePrompt, SecretForgotten, Secret
<1>6. Offer'
  <2>1. Shown' = Shown
    BY <1>1 DEF Shown
  <2>2. QED
    BY <1>1, <1>3, <2>1 DEF IInv, Offer
<1>7. AccountIsTheOneChosen'
  BY <1>1, <1>3, CliSame DEF AccountIsTheOneChosen, Chosen
<1>8. Arguments'
  BY <1>1, <1>3, ArgumentsStay DEF IInv
<1>9. QED
  BY <1>1, <1>3, <1>4, <1>5, <1>6, <1>7, <1>8 DEF IInv, Database, CrashSites

LEMMA DeterminingIInv ==
  IInv /\ (FromCommandLine \/ NoDatabase \/ EmptyTable \/ OnlyAccount \/ MenuEnds) => IInv'
<1> SUFFICES ASSUME IInv, FromCommandLine \/ NoDatabase \/ EmptyTable \/ OnlyAccount \/ MenuEnds
             PROVE  IInv'
  OBVIOUS
<1>1. NullAccount.domain = NONE
  BY DEF NullAccount
<1>2. pc \in {"determine", "parse"} => call = "none"
  BY DEF IInv, Calls
<1>3. CASE FromCommandLine
  <2> DEFINE a == [domain     |-> options.domain_or_database,
                   username   |-> options.username,
                   iteration  |-> IF options.iteration = NONE THEN ZERO
                                  ELSE options.iteration,
                   characters |-> IF options.characters = NONE THEN <<>>
                                  ELSE options.characters,
                   length     |-> IF options.length = 0 THEN 64 ELSE options.length]
  <2>1. /\ Determined(a) /\ status = "running" /\ pc = "determine"
        /\ options.username # NONE
        /\ UNCHANGED <<tuiVars, cliVars, database, password, chars, printed>>
    BY <1>3 DEF FromCommandLine, At
  <2>2. Proper /\ Len(argv.args) = 2 /\ options = Meaning(Len(argv.opts), 2)
    BY <2>1, Returned DEF IInv, Arguments
  <2>3. a = Requested
    BY <2>2 DEF Requested
  <2> HIDE DEF a
  <2>4. QED
    BY <1>2, <2>1, <2>2, <2>3, DeterminedIInv
<1>4. CASE NoDatabase
  <2>1. /\ Determined(NullAccount) /\ status = "running" /\ pc = "determine"
        /\ UNCHANGED <<tuiVars, cliVars, database, password, chars, printed>>
    BY <1>4 DEF NoDatabase, At
  <2>2. QED
    BY <1>1, <1>2, <2>1, DeterminedIInv
<1>5. CASE EmptyTable
  <2>1. /\ Determined(NullAccount) /\ status = "running" /\ pc = "parse"
        /\ UNCHANGED <<tuiVars, cliVars, database, password, chars, printed>>
    BY <1>5 DEF EmptyTable, Parsed, At
  <2>2. QED
    BY <1>1, <1>2, <2>1, DeterminedIInv
<1>6. CASE OnlyAccount
  <2>1. /\ Determined(table[1]) /\ status = "running" /\ pc = "parse"
        /\ verdict \in {"done", "refused"} /\ Len(table) = 1
        /\ UNCHANGED <<tuiVars, cliVars, database, password, chars, printed>>
    BY <1>6 DEF OnlyAccount, Parsed, At
  <2>2. Proper /\ Len(argv.args) = 1 /\ verdict = "done"
    <3>1. Proper /\ Len(argv.args) = 1
      BY <2>1 DEF IInv, Arguments
    <3>2. table # <<>>
      BY <2>1, EmptySeq
    <3>3. verdict = "done"
      BY <2>1, <3>2 DEF IInv, Database
    <3>4. QED
      BY <3>1, <3>3
  <2> DEFINE a == table[1]
  <2>3. a = table[1] /\ Determined(a)
    BY <2>1
  <2> HIDE DEF a
  <2>4. QED
    BY <1>2, <2>1, <2>2, <2>3, DeterminedIInv
<1>7. CASE MenuEnds
  <2> DEFINE a == IF answer >= 0 THEN table[answer + 1] ELSE NullAccount
  <2>1. /\ Determined(a) /\ status = "running" /\ pc = "menu" /\ call = "none"
        /\ UNCHANGED <<tuiVars, cliVars, database, password, chars, printed>>
    BY <1>7 DEF MenuEnds, At
  <2>2. /\ Proper /\ Len(argv.args) = 1 /\ verdict = "done" /\ Len(table) > 1
        /\ answer >= 0 => answer = current /\ current < Len(table)
    BY <2>1 DEF IInv, Offer, Arguments
  <2>3. a.domain # NONE => a = table[current + 1] /\ current < Len(table)
    BY <1>1, <2>2
  <2> HIDE DEF a
  <2>4. Len(table) # 1
    <3>1. Len(table) \in Nat
      BY LenProperties DEF IInv, Database
    <3>2. Len(table) > 1
      BY <2>2
    <3>3. \A n \in Nat : n > 1 => n # 1
      OBVIOUS
    <3>4. QED
      BY ONLY <3>1, <3>2, <3>3, Zenon
  <2>5. QED
    BY <2>1, <2>2, <2>3, <2>4, DeterminedIInv
<1>8. QED
  BY <1>3, <1>4, <1>5, <1>6, <1>7

\* The steps that start a call of the terminal.
LEMMA StartIInv == IInv /\ (OfferMenu \/ Allocate) => IInv'
<1> SUFFICES ASSUME IInv, OfferMenu \/ Allocate PROVE IInv'
  OBVIOUS
<1>1. CASE OfferMenu
  <2>1. /\ status = "running" /\ pc = "parse" /\ status' = "running" /\ pc' = "menu"
        /\ verdict \in {"done", "refused"} /\ Len(table) > 1
        /\ UNCHANGED <<file, table, taken, verdict, cliVars, account, password, chars,
                       printed, passwd, drained>>
        /\ call' = "posting" /\ screen' = "curses" /\ answer' = NO_ANSWER /\ current' = 0
        /\ items' = [i \in 1..Len(table) |-> IF table[i].domain \in {NONE, <<>>}
                                             THEN "nameless" ELSE "named"]
    BY <1>1 DEF OfferMenu, Parsed, At, Goto, ShowMenu, initscr, database
  <2>2. Len(table) \in Nat
    BY LenProperties DEF IInv, Database
  <2>3. verdict = "done"
    BY <2>1 DEF IInv, Database
  <2>4. items' \in Seq(Label) /\ Len(items') = Len(table)
    <3>1. items' \in [1..Len(table) -> Label]
      BY <2>1 DEF Label
    <3>2. QED
      BY ONLY <2>2, <3>1, FunctionIsSeq
  <2>5. Offer'
    BY <2>1, <2>3, <2>4 DEF IInv, Offer
  <2>6. Calls' /\ Buffer'
    BY <2>1 DEF IInv, Calls, Buffer, BeforePrompt, SecretForgotten, Secret
  <2>7. Arguments'
    BY <2>1, ArgumentsStay DEF IInv
  <2>8. QED
    BY <2>1, <2>5, <2>6, <2>7 DEF IInv, Database, AccountIsTheOneChosen, Chosen,
       CrashSites
<1>2. CASE Allocate
  <2>1. /\ status = "running" /\ pc = "allocate" /\ status' = "running" /\ pc' = "ask"
        /\ UNCHANGED <<file, table, taken, verdict, cliVars, account, password, chars,
                       printed, items, current, drained>>
        /\ call' = "prompt" /\ screen' = "curses" /\ passwd' = <<>>
    BY <1>2 DEF Allocate, At, Goto, AskPassword, initscr, database
  <2>2. Calls' /\ Buffer'
    BY <2>1, EmptySeq DEF IInv, Calls, Buffer, BeforePrompt, SecretForgotten, Secret
  <2>3. AccountIsTheOneChosen' /\ Arguments'
    BY <2>1, AccountStays, ArgumentsStay DEF IInv, Chosen
  <2>4. QED
    BY <2>1, <2>2, <2>3 DEF IInv, Database, Offer, CrashSites
<1>3. QED
  BY <1>1, <1>2

\* A step of main that goes from one place to another, or ends the program, while
\* terminal and table stay as they are.
LEMMA QuietIInv ==
  ASSUME IInv, status = "running",
         call = "none" \/ (call = "crashed" /\ pc' = pc /\ status' = "starved"),
         UNCHANGED <<screen, call, items, current, passwd, answer>>,
         UNCHANGED <<table, taken, verdict, account>>,
         UNCHANGED cliVars,
         \/ /\ status' = "running"
            /\ \/ pc = "parse arguments" /\ pc' = "determine" /\ parsing = "returned"
               \/ /\ pc = "determine" /\ pc' = "parse"
                  /\ options.username = NONE /\ options.domain_or_database # NONE
               \/ pc = "ask" /\ pc' \in {"clear", "clear after failure"}
               \/ pc = "charset" /\ pc' = "print" /\ chars' = Members(account.characters)
         \/ /\ status' # "running" /\ UNCHANGED <<pc, chars>>
            /\ pc \notin {"clear", "clear after failure"}
            /\ pc = "ask" => answer = FAILED \/ Incomplete(account)
            /\ status' = "crashed" => \/ pc = "determine" /\ options.domain_or_database = NONE
                                      \/ pc = "ask" /\ Incomplete(account)
                                      \/ pc = "print" /\ Members(account.characters) = <<>>
  PROVE  IInv'
<1>1. Shown' = Shown
  <2>1. items' = items
    OBVIOUS
  <2>2. QED
    BY ONLY <2>1, SMTT(30) DEF Shown
<1>2. Calls'
  BY DEF IInv, Calls
<1>3. Buffer'
  BY DEF IInv, Buffer, BeforePrompt, SecretForgotten, Secret, Incomplete
<1>4. Offer'
  BY <1>1 DEF IInv, Offer
<1>5. AccountIsTheOneChosen'
  BY AccountStays DEF IInv, Chosen
<1>6. CrashSites'
  <2>1. pc = "determine" /\ options.domain_or_database = NONE => Rejected
    BY Returned DEF IInv, Arguments
  <2>2. pc = "ask" /\ Incomplete(account) => Len(argv.args) = 1
    <3>1. SUFFICES ASSUME pc = "ask", Incomplete(account) PROVE Len(argv.args) = 1
      OBVIOUS
    <3>2. CliInv /\ Len(argv.args) \in 1..2
      BY <3>1 DEF IInv, Arguments, AccountIsTheOneChosen, Chosen, Proper
    <3>3. Len(argv.args) # 2
      BY <3>1, <3>2, RequestedIsComplete DEF IInv, AccountIsTheOneChosen, Chosen
    <3>4. QED
      BY ONLY <3>2, <3>3
  <2>3. QED
    BY <2>1, <2>2, CliSame DEF CrashSites, Incomplete
<1>7. Arguments'
  <2>1. CliInv' /\ parsing' = parsing /\ argv' = argv /\ (Proper' <=> Proper)
    BY CliSame DEF IInv, Arguments
  <2>2. pc # "parse arguments" => parsing = "returned"
    BY DEF IInv, Arguments
  <2>3. pc' \in {"parse", "menu"} => Proper /\ Len(argv.args) = 1
    BY <2>2, Returned DEF IInv, Arguments
  <2>4. QED
    BY <2>1, <2>2, <2>3 DEF Arguments
<1>8. Database' /\ (pc' = "print" => chars' = Members(account'.characters))
  BY DEF IInv, Database
<1>9. QED
  BY <1>2, <1>3, <1>4, <1>5, <1>6, <1>7, <1>8 DEF IInv

\* The steps of main that are of this kind.
LEMMA MainIInv ==
  ASSUME IInv, \/ ArgumentsParsed \/ NullPath \/ ReadDatabase \/ CannotAsk \/ PromptFails
               \/ Starves
               \/ DeriveCrashes \/ Derive \/ DeriveFails
               \/ Enumerate \/ EnumerateFails \/ PrintPassword \/ PrintCrashes
  PROVE  IInv'
<1>1. pc \in {"parse arguments", "determine", "parse", "allocate", "charset", "print"} =>
         call = "none"
  BY DEF IInv, Calls
<1> USE DEF At, Goto, Exit, tuiVars, database
<1>2. CASE NullPath
  BY <1>1, <1>2, QuietIInv DEF NullPath
<1>3. CASE ReadDatabase
  BY <1>1, <1>3, QuietIInv DEF ReadDatabase
<1>4. CASE CannotAsk
  BY <1>1, <1>4, QuietIInv DEF CannotAsk, Parsed
<1>5. CASE PromptFails
  BY <1>5, QuietIInv DEF PromptFails
<1>6. CASE DeriveCrashes
  BY <1>6, QuietIInv DEF DeriveCrashes
<1>7. CASE Derive
  BY <1>7, QuietIInv DEF Derive
<1>8. CASE DeriveFails
  BY <1>8, QuietIInv DEF DeriveFails
<1>9. CASE Enumerate
  BY <1>1, <1>9, QuietIInv DEF Enumerate
<1>10. CASE EnumerateFails
  BY <1>1, <1>10, QuietIInv DEF EnumerateFails
<1>11. CASE PrintPassword
  BY <1>1, <1>11, QuietIInv DEF PrintPassword
<1>12. CASE PrintCrashes
  BY <1>1, <1>12, QuietIInv DEF PrintCrashes, IInv
<1>13. CASE ArgumentsParsed
  <2>1. parsing \in {"returned", "usage", "help"}
    BY <1>13 DEF ArgumentsParsed, IInv, Arguments, CliInv, CliTypeOK
  <2>2. QED
    BY <1>1, <1>13, <2>1, QuietIInv DEF ArgumentsParsed
<1>14. CASE Starves
  <2>1. /\ status = "running" /\ status' = "starved" /\ pc' = pc
        /\ pc \in {"determine", "parse", "menu"}
        /\ pc = "menu" => call = "crashed"
        /\ UNCHANGED <<tuiVars, cliVars, database, account, password, chars, printed>>
    BY <1>14 DEF Starves, Parsed
  <2>2. QED
    BY <1>1, <2>1, QuietIInv
<1>15. QED
  BY <1>2, <1>3, <1>4, <1>5, <1>6, <1>7, <1>8, <1>9, <1>10, <1>11, <1>12, <1>13, <1>14

\* A callback of argp.
LEMMA ParseArgumentsIInv == IInv /\ ParseArguments => IInv'
<1> SUFFICES ASSUME IInv, ParseArguments PROVE IInv'
  OBVIOUS
<1>1. /\ status = "running" /\ pc = "parse arguments" /\ CliStep
      /\ UNCHANGED <<screen, call, items, current, passwd, answer, table, verdict, account,
                     chars, pc, status>>
  BY DEF ParseArguments, At, tuiVars, database
<1>2. Arguments'
  BY <1>1, CliStepInv DEF IInv, Arguments
<1>3. Calls' /\ Buffer' /\ Database'
  BY <1>1 DEF IInv, Calls, Buffer, BeforePrompt, SecretForgotten, Secret, Database
<1>4. QED
  BY <1>1, <1>2, <1>3 DEF IInv, Offer, AccountIsTheOneChosen, Chosen, CrashSites

LEMMA ClearIInv == IInv /\ Clear => IInv'
<1> SUFFICES ASSUME IInv, Clear PROVE IInv'
  OBVIOUS
<1>1. /\ status = "running" /\ pc \in {"clear", "clear after failure"}
      /\ passwd' = [i \in 1..Len(passwd) |-> 0]
      /\ UNCHANGED <<screen, call, items, current, drained, answer, file, table, taken,
                     verdict, cliVars, account, password, chars, printed>>
      /\ \/ pc' = "charset" /\ status' = "running"
         \/ pc' = "clear after failure" /\ status' = "failure"
  BY DEF Clear, At, Goto, Exit, database
<1>2. Len(passwd) \in Nat
  BY LenProperties DEF IInv, Buffer
<1>3. passwd' \in Seq(0..255) /\ Len(passwd') = Len(passwd)
  <2> DEFINE n == Len(passwd)
             f == [i \in 1..n |-> 0]
  <2>1. n \in Nat /\ passwd' = f
    BY <1>1, <1>2
  <2> HIDE DEF n
  <2>2. f \in [1..n -> 0..255]
    OBVIOUS
  <2> HIDE DEF f
  <2>3. f \in Seq(0..255) /\ Len(f) = n
    BY ONLY <2>1, <2>2, FunctionIsSeq
  <2>4. QED
    BY <2>1, <2>3 DEF n
<1>4. ~Secret'
  BY <1>1, <1>3 DEF Secret
<1>5. Buffer'
  BY <1>1, <1>3, <1>4 DEF Buffer, BeforePrompt, SecretForgotten
<1>6. Calls' /\ Offer'
  BY <1>1 DEF IInv, Calls, Offer
<1>7. AccountIsTheOneChosen' /\ Arguments'
  BY <1>1, AccountStays, ArgumentsStay DEF IInv, Chosen
<1>8. QED
  BY <1>1, <1>5, <1>6, <1>7 DEF IInv, Database, CrashSites

LEMMA NextIInv == IInv /\ [Next]_vars => IInv'
<1> SUFFICES ASSUME IInv, [Next]_vars PROVE IInv'
  OBVIOUS
<1>1. CASE UNCHANGED vars
  <2>1. /\ UNCHANGED <<screen, call, items, current, passwd, answer, table, taken, verdict,
                       account, chars, pc, status>>
        /\ UNCHANGED cliVars
    BY <1>1 DEF vars, tuiVars, database
  <2>2. Shown' = Shown
    <3>1. items' = items
      BY <2>1
    <3>2. QED
      BY ONLY <3>1, SMTT(30) DEF Shown
  <2>3. Arguments' /\ AccountIsTheOneChosen'
    BY <2>1, AccountStays, ArgumentsStay DEF IInv, Chosen
  <2>4. QED
    BY <2>1, <2>2, <2>3, CliSame DEF IInv, Calls, Buffer, SecretForgotten, Secret, Database,
       Offer, CrashSites, BeforePrompt
<1>2. CASE Spin
  BY <1>1, <1>2 DEF Spin
<1>3. QED
  BY <1>1, <1>2, ParseArgumentsIInv, UserActsIInv, ParseIInv, DeterminingIInv, StartIInv,
     MainIInv, ClearIInv
     DEF Next

LEMMA Invariance == Spec => []IInv
  BY InitIInv, NextIInv, PTL DEF Spec

--------------------------------------------------------------------------------
\* The master password is in memory only from the prompt to Clear, and at an exit
\* only if the prompt failed or the program crashed on an unchecked account.
THEOREM SecretIsForgotten == Spec => []SecretForgotten
<1>1. IInv => SecretForgotten
  BY DEF IInv, Buffer
<1>2. QED
  BY Invariance, <1>1, PTL

\* The password is derived for the account that was asked for.
THEOREM RightAccount == Spec => []AccountIsTheOneChosen
<1>1. IInv => AccountIsTheOneChosen
  BY DEF IInv
<1>2. QED
  BY Invariance, <1>1, PTL

\* Every way the program ends leaves the terminal in its normal mode.
THEOREM TerminalIsRestored == Spec => []TerminalRestored
<1>1. IInv => TerminalRestored
  BY DEF IInv, Calls, TerminalRestored
<1>2. QED
  BY Invariance, <1>1, PTL

\* The prompt starts with an empty buffer, for an account with a domain.
THEOREM AsksOnce == Spec => AskedOnce
<1>1. IInv /\ [Next]_vars =>
        [call' = "prompt" /\ call # "prompt" =>
            passwd = <<>> /\ pc = "allocate" /\ account.domain # NONE]_vars
  <2> SUFFICES ASSUME IInv, Next, call' = "prompt", call # "prompt"
               PROVE  passwd = <<>> /\ pc = "allocate" /\ account.domain # NONE
    OBVIOUS
  <2>1. CASE Allocate
    BY <2>1 DEF Allocate, At, IInv, Buffer, BeforePrompt, AccountIsTheOneChosen, Chosen
  <2>2. CASE UserActs
    BY <2>2 DEF UserActs, TuiStep, PostMenu, PostFails, NoMemory, MoveDown, MoveUp,
       Select, Quit, Ignore, TypeKey, Accept, InputEnds, Answer
  <2>3. CASE ~Allocate /\ ~UserActs
    <3>1. UNCHANGED call \/ call' = "posting"
      BY <2>3 DEF Next, ParseArguments, ArgumentsParsed, FromCommandLine, NullPath, ReadDatabase, NoDatabase, Parse,
         EmptyTable, OnlyAccount, OfferMenu, MenuEnds, Starves, CannotAsk, PromptFails,
         DeriveCrashes, Derive, DeriveFails, Clear, Enumerate, EnumerateFails, Spin, PrintPassword,
         PrintCrashes, vars, tuiVars, ShowMenu, initscr
    <3>2. QED
      BY <3>1
  <2>4. QED
    BY <2>1, <2>2, <2>3
<1>2. QED
  BY Invariance, <1>1, PTL DEF Spec, AskedOnce

--------------------------------------------------------------------------------
\* The salt tells the iterations of an account apart: it ends with the iteration
\* behind a beginning that is the same for all of them (padre.c:38-40).
THEOREM IterationsDiffer ==
  ASSUME NEW S, NEW a, NEW b,
         a.domain \in Seq(S), a.username \in Seq(S), a.iteration \in Seq(S),
         b.iteration \in Seq(S),
         a.domain = b.domain, a.username = b.username, Salt(a) = Salt(b)
  PROVE  a.iteration = b.iteration
<1> DEFINE s == a.domain \o a.username
<1>1. s \in Seq(S)
  BY ConcatProperties
<1>2. s \o a.iteration = s \o b.iteration
  BY DEF Salt
<1> HIDE DEF s
<1>3. QED
  BY ONLY <1>1, <1>2, a.iteration \in Seq(S), b.iteration \in Seq(S), ConcatSimplifications

\* to_chars replaces every byte by a character of the charset, and any character
\* of it is the image of some byte (padre.c:52-62).
THEOREM CharactersOfCharset ==
  ASSUME NEW S, NEW cs \in Seq(S), cs # <<>>, NEW bytes \in Seq(0..255)
  PROVE  /\ to_chars(bytes, cs) \in Seq(S)
         /\ Len(to_chars(bytes, cs)) = Len(bytes)
         /\ \A i \in 1..Len(bytes) : \E j \in 1..Len(cs) : to_chars(bytes, cs)[i] = cs[j]
         /\ Len(cs) <= 256 => \A j \in 1..Len(cs) : \E b \in 0..255 : cs[(b % Len(cs)) + 1] = cs[j]
<1> DEFINE n == Len(cs)
           m == Len(bytes)
<1>1. n \in Nat /\ n > 0 /\ m \in Nat
  BY LenProperties, EmptySeq
<1>2. \A i \in 1..m : bytes[i] \in 0..255
  BY ElementOfSeq
<1>3. \A j \in 1..n : cs[j] \in S
  BY ElementOfSeq
<1>4. ASSUME NEW b \in 0..255 PROVE (b % n) + 1 \in 1..n
  <2> HIDE DEF n
  <2>1. QED
    BY ONLY <1>1, b \in 0..255
<1>5. ASSUME n <= 256, NEW j \in 1..n PROVE \E b \in 0..255 : (b % n) + 1 = j
  <2> HIDE DEF n
  <2>1. j - 1 \in 0..255 /\ (j - 1) % n = j - 1
    BY ONLY <1>1, <1>5
  <2>2. QED
    BY ONLY <2>1, <1>1, j \in 1..n
<1> DEFINE r == [i \in 1..m |-> cs[(bytes[i] % n) + 1]]
<1>6. to_chars(bytes, cs) = r
  BY DEF to_chars
<1> HIDE DEF n, m
<1>7. \A i \in 1..m : (bytes[i] % n) + 1 \in 1..n
  BY ONLY <1>2, <1>4
<1>8. \A i \in 1..m : r[i] = cs[(bytes[i] % n) + 1]
  OBVIOUS
<1>9. r \in [1..m -> S]
  BY ONLY <1>3, <1>7
<1> HIDE DEF r
<1>10. r \in Seq(S) /\ Len(r) = m
  BY ONLY <1>1, <1>9, FunctionIsSeq
<1>11. \A i \in 1..m : \E j \in 1..n : r[i] = cs[j]
  BY ONLY <1>7, <1>8, Zenon
<1>12. n <= 256 => \A j \in 1..n : \E b \in 0..255 : cs[(b % n) + 1] = cs[j]
  BY ONLY <1>5, Zenon
<1>13. QED
  BY ONLY <1>6, <1>10, <1>11, <1>12, Zenon DEF n, m

--------------------------------------------------------------------------------
\* What is known of the data: the file is a beginning of the one on disk, and so
\* the rows of the table are entries of that one, but for the one that was made
\* of what follows the last line end.
Row(i) == \/ OnDisk(table[i])
          \/ verdict = "done" /\ i = Len(table) /\ Fragment(file) # <<>>

Data == /\ disk \in Files /\ file \in Beginnings(disk)
        /\ taken \in 0..Lines(file)
        /\ table \in Seq(Account)
        /\ \A i \in 1..Len(table) : Row(i)
        /\ pc \in {"parse arguments", "determine"} =>
              taken = 0 /\ table = <<>> /\ verdict = "reading"
        /\ account \in Account
        /\ current \in Nat /\ answer \in Int
        /\ pc \in {"parse arguments", "determine", "parse", "menu", "allocate", "ask",
                   "clear", "clear after failure", "charset", "print"}
        /\ status \in {"running", "success", "failure", "helped", "crashed", "starved"}

LEMMA ReaderSame ==
  /\ \A f : Reader!Lines(f) = Lines(f)
  /\ \A f, k : Reader!Line(f, k) = Line(f, k)
  /\ \A f : Reader!Fragment(f) = Fragment(f)
  /\ \A l : Reader!Refused(l) <=> Refused(l)
  /\ \A l : Reader!Skipped(l) <=> Skipped(l)
  /\ \A l : Reader!EntryOf(l) = EntryOf(l)
  /\ \A l : Reader!Rest(l) = Rest(l)
<1>1. /\ \A s, c : Reader!Positions(s, c) = Positions(s, c)
      /\ \A s, c : Reader!Count(s, c) = Count(s, c)
      /\ \A s, c, k : Reader!Nth(s, c, k) = Nth(s, c, k)
      /\ \A l : Reader!atoi(l) = atoi(l)
  <2>0. ASSUME NEW S PROVE Reader!Cardinality(S) = Cardinality(S)
    BY ONLY Zenon DEF Reader!Cardinality, Cardinality
  <2>1. ASSUME NEW s, NEW c PROVE Reader!Positions(s, c) = Positions(s, c)
    BY DEF Reader!Positions, Positions
  <2>2. \A s, c : Reader!Count(s, c) = Count(s, c)
    BY <2>0, <2>1 DEF Reader!Count, Count
  <2>3. ASSUME NEW s, NEW c, NEW k PROVE Reader!Nth(s, c, k) = Nth(s, c, k)
    <3>1. Reader!Positions(s, c) = Positions(s, c)
      BY <2>1
    <3>2. QED
      BY ONLY <2>0, <3>1, Zenon DEF Reader!Nth, Nth
  <2>4. \A l : Reader!atoi(l) = atoi(l)
    BY DEF Reader!atoi, atoi
  <2>5. QED
    BY <2>1, <2>2, <2>3, <2>4
<1>2. /\ \A s, c, k : Reader!PieceStart(s, c, k) = PieceStart(s, c, k)
      /\ \A s, c, k : Reader!Piece(s, c, k) = Piece(s, c, k)
  BY <1>1 DEF Reader!PieceStart, PieceStart, Reader!Piece, Piece
<1>3. /\ \A l, k : Reader!Field(l, k) = Field(l, k)
      /\ \A l : Reader!Rest(l) = Rest(l)
  BY <1>1, <1>2 DEF Reader!Field, Field, Reader!Rest, Rest
<1>4. \A l : Reader!Length(l) = Length(l)
  BY <1>1, <1>3 DEF Reader!Length, Length
<1>5. QED
  BY <1>1, <1>2, <1>3, <1>4 DEF Reader!Lines, Lines, Reader!Line, Line, Reader!Fragment,
     Fragment, Reader!Refused, Refused, Reader!Skipped, Skipped, Reader!EntryOf, EntryOf

\* A beginning of a file has its first lines.
LEMMA LinesOfBeginning ==
  ASSUME NEW d \in Files, NEW f \in Beginnings(d)
  PROVE  /\ d \in Seq(Token) /\ f \in Seq(Token)
         /\ \A k \in 1..Lines(f) : k \in 1..Lines(d) /\ Line(f, k) = Line(d, k)
<1>1. d \in Seq(Token) /\ Len(d) \in Nat /\ \A i \in 1..Len(d) : d[i] \in Token
  BY FilesAssumption, LenProperties, ElementOfSeq
<1>2. ASSUME NEW n \in 0..Len(d)
      PROVE  LET g == SubSeq(d, 1, n)
             IN  /\ g \in Seq(Token) /\ Len(g) = n
                 /\ \A i \in 1..n : g[i] = d[i]
  <2> DEFINE g == SubSeq(d, 1, n)
  <2>1. \A i \in 1..n : d[i] \in Token
    BY <1>1
  <2>2. /\ g \in Seq(Token)
        /\ Len(g) = IF 1 <= n THEN n - 1 + 1 ELSE 0
        /\ \A i \in 1..n-1+1 : g[i] = d[1+i-1]
    BY <2>1, SubSeqProperties
  <2> HIDE DEF g
  <2>3. n \in Nat
    BY <1>1
  <2>4. Len(g) = n /\ \A i \in 1..n : g[i] = d[i]
    BY ONLY <2>2, <2>3
  <2>5. QED
    BY <2>2, <2>4 DEF g
<1>3. PICK n \in 0..Len(d) : /\ f \in Seq(Token) /\ n <= Len(f)
                             /\ \A i \in 1..n : f[i] = d[i]
                             /\ \A i \in n+1..Len(f) : f[i] # NEWLINE
  <2>1. CASE \E n \in 0..Len(d) : f = SubSeq(d, 1, n)
    <3>1. PICK n \in 0..Len(d) : f = SubSeq(d, 1, n)
      BY <2>1
    <3>2. f \in Seq(Token) /\ Len(f) = n /\ \A i \in 1..n : f[i] = d[i]
      BY <1>2, <3>1
    <3>3. n \in Int /\ n <= n /\ \A i \in n+1..n : FALSE
      BY <1>1
    <3>4. QED
      BY <3>2, <3>3
  <2>2. CASE \E n \in 0..Len(d)-1 : /\ d[n+1] \in Word
                                    /\ \E w \in Cut[d[n+1]] : f = Append(SubSeq(d, 1, n), w)
    <3>1. PICK n \in 0..Len(d)-1 : /\ d[n+1] \in Word
                                   /\ \E w \in Cut[d[n+1]] : f = Append(SubSeq(d, 1, n), w)
      BY <2>2
    <3>2. PICK w \in Cut[d[n+1]] : f = Append(SubSeq(d, 1, n), w)
      BY <3>1
    <3>3. w \in Word /\ w \in Token /\ w # NEWLINE
      BY <3>1, <3>2, FilesAssumption, TokenAssumption DEF Token
    <3> DEFINE g == SubSeq(d, 1, n)
    <3>4. n \in 0..Len(d) /\ n \in Nat
      BY <1>1
    <3>5. g \in Seq(Token) /\ Len(g) = n /\ \A i \in 1..n : g[i] = d[i]
      BY <1>2, <3>4
    <3>6. f = Append(g, w)
      BY <3>2
    <3> HIDE DEF g
    <3>7. /\ f \in Seq(Token) /\ Len(f) = Len(g) + 1
          /\ \A i \in 1..Len(g) : f[i] = g[i]
          /\ f[Len(g)+1] = w
      BY <3>3, <3>5, <3>6, AppendProperties
    <3>8. \A i \in n+1..Len(f) : i = Len(g) + 1
      BY ONLY <3>4, <3>5, <3>7
    <3>9. n <= Len(f)
      BY ONLY <3>4, <3>5, <3>7
    <3>10. \A i \in n+1..Len(f) : f[i] # NEWLINE
      BY ONLY <3>3, <3>7, <3>8
    <3>11. \A i \in 1..n : f[i] = d[i]
      BY ONLY <3>5, <3>7
    <3>12. QED
      BY ONLY <3>4, <3>7, <3>9, <3>10, <3>11
  <2>3. QED
    BY <2>1, <2>2 DEF Beginnings
<1>4. ASSUME NEW k \in 1..Lines(f) PROVE k \in 1..Lines(d) /\ Line(f, k) = Line(d, k)
  BY <1>1, <1>3, PiecesOfBeginning DEF Lines, Line
<1>5. QED
  BY <1>1, <1>3, <1>4

\* The entry of a line that is not refused is an account, whatever follows it in
\* the buffer.
LEMMA EntryIsAccount ==
  ASSUME NEW f \in Seq(Token), NEW k \in 1..Lines(f) + 1, ~Refused(Line(f, k)),
         NEW slack \in Seq(Word)
  PROVE  /\ EntryOf(Line(f, k)) \in Account
         /\ [EntryOf(Line(f, k)) EXCEPT !.characters = @ \o slack] \in Account
<1> DEFINE line == Line(f, k)
           e == EntryOf(line)
           r == [e EXCEPT !.characters = @ \o slack]
<1>1. line \in Seq(Word \cup {COMMA})
  <2>1. line \in Seq(Token \ {NEWLINE})
    BY PieceType DEF Lines, Line
  <2>2. Token \ {NEWLINE} = Word \cup {COMMA}
    BY TokenAssumption DEF Token
  <2>3. QED
    BY <2>1, <2>2
<1> HIDE DEF line
<1>2. /\ \A j \in 1..4 : Field(line, j) \in Seq(Word) \cup {NONE}
      /\ Rest(line) \in Seq(Word \cup {COMMA})
      /\ Length(line) \in Nat
  BY <1>1, EntryType DEF line
<1>3. \A t : t \in Seq(Word) => t \in Seq(Token)
  BY SeqMonotonic DEF Token
<1>4. Rest(line) \in Seq(Token) /\ Rest(line) \o slack \in Seq(Token)
  <2>1. Rest(line) \in Seq(Token)
    BY <1>2, SeqMonotonic DEF Token
  <2>2. QED
    BY <1>3, <2>1, ConcatProperties
<1>5. \A j \in 1..4 : Field(line, j) \in String
  BY <1>2, <1>3 DEF String
<1>6. /\ Field(line, 1) \in String /\ Field(line, 2) \in String /\ Field(line, 3) \in String
      /\ Rest(line) \in String /\ Rest(line) \o slack \in String
  BY <1>4, <1>5 DEF String
<1>7. e = [domain |-> Field(line, 1), username |-> Field(line, 2), iteration |-> Field(line, 3),
           characters |-> Rest(line), length |-> Length(line)]
  BY DEF EntryOf
<1>8. e \in Account /\ e.characters = Rest(line)
  BY <1>2, <1>6, <1>7 DEF Account
<1> HIDE DEF e
<1>9. r \in Account
  <2> DEFINE x == Rest(line) \o slack
  <2>1. r = [e EXCEPT !.characters = x] /\ x \in String
    BY <1>6, <1>8
  <2> HIDE DEF x, r
  <2>2. QED
    BY ONLY <1>8, <2>1 DEF Account
<1>10. QED
  BY <1>8, <1>9 DEF e, line

--------------------------------------------------------------------------------
LEMMA NothingIsAccount == NullAccount \in Account
  BY DEF NullAccount, Account, String

LEMMA InitData == Init => Data
<1> SUFFICES ASSUME Init PROVE Data
  OBVIOUS
<1>1. /\ disk \in Files /\ file = disk /\ table = <<>> /\ taken = 0 /\ verdict = "reading"
      /\ account = NullAccount /\ current = 0 /\ answer = NO_ANSWER
      /\ pc = "parse arguments" /\ status = "running"
  BY DEF Init, Reader!Init, TuiInit
<1>2. disk \in Seq(Token) /\ Len(disk) \in Nat
  BY <1>1, FilesAssumption, LenProperties
<1>3. file \in Beginnings(disk)
  <2>1. SubSeq(disk, 1, Len(disk)) = disk
    BY <1>2, SubSeqFull
  <2>2. Len(disk) \in 0..Len(disk)
    BY <1>2
  <2>3. disk \in {SubSeq(disk, 1, n) : n \in 0..Len(disk)}
    BY ONLY <2>1, <2>2, Zenon
  <2>4. disk \in Beginnings(disk)
    BY ONLY <2>3, Zenon DEF Beginnings
  <2>5. QED
    BY <1>1, <2>4
<1>4. taken \in 0..Lines(file)
  <2>1. Lines(disk) \in Nat
    BY <1>2, BeforeEnds DEF Lines
  <2>2. file = disk /\ taken = 0
    BY <1>1, Zenon
  <2>3. QED
    BY ONLY <2>1, <2>2
<1>5. table \in Seq(Account) /\ Len(table) = 0
  BY <1>1, EmptySeq
<1>6. \A i \in 1..Len(table) : Row(i)
  BY <1>5
<1>7. QED
  <2>1. answer \in Int /\ current \in Nat
    <3>1. answer = NO_ANSWER /\ current = 0
      BY <1>1, Zenon
    <3>2. QED
      BY ONLY <3>1 DEF NO_ANSWER
  <2>2. QED
    BY <1>1, <1>3, <1>4, <1>5, <1>6, <2>1, NothingIsAccount DEF Data

\* Steps that leave the database alone keep what is known of it.
LEMMA DataStays ==
  ASSUME Data, UNCHANGED database, account' \in Account, current' \in Nat, answer' \in Int,
         pc' \in {"determine"} => pc \in {"parse arguments", "determine"},
         pc' \in {"parse arguments"} => pc \in {"parse arguments"},
         pc' \in {"parse arguments", "determine", "parse", "menu", "allocate", "ask",
                  "clear", "clear after failure", "charset", "print"},
         status' \in {"running", "success", "failure", "helped", "crashed", "starved"}
  PROVE  Data'
<1>1. UNCHANGED <<disk, file, table, taken, verdict>>
  BY DEF database
<1>2. ASSUME NEW i PROVE Row(i)' <=> Row(i)
  BY <1>1 DEF Row, OnDisk
<1>3. QED
  BY <1>1, <1>2 DEF Data

LEMMA ParseData == Data /\ Parse => Data'
<1> SUFFICES ASSUME Data, Parse PROVE Data'
  OBVIOUS
<1>1. /\ pc = "parse" /\ Reader!Next
      /\ UNCHANGED <<current, answer, disk, account, pc, status>>
  BY DEF Parse, At, tuiVars
<1>2. /\ file \in Seq(Token) /\ Lines(file) \in Nat /\ Len(table) \in Nat
      /\ taken \in 0..Lines(file) /\ table \in Seq(Account)
  BY LinesOfBeginning, BeforeEnds, LenProperties DEF Data, Lines
<1>3. ASSUME verdict = "reading", NEW i \in 1..Len(table) PROVE OnDisk(table[i])
  BY <1>3 DEF Data, Row
<1>4. ASSUME file' = file, taken' \in 0..Lines(file), table' \in Seq(Account),
             \A i \in 1..Len(table') : \/ OnDisk(table'[i])
                                       \/ /\ verdict' = "done" /\ i = Len(table')
                                          /\ Fragment(file) # <<>>
      PROVE  Data'
  <2>1. ASSUME NEW i PROVE OnDisk(table[i])' <=> OnDisk(table'[i])
    BY <1>1 DEF OnDisk
  <2>2. QED
    BY <1>1, <1>4, <2>1 DEF Data, Row
<1>5. ASSUME table' = <<>>, UNCHANGED <<file, taken>> PROVE Data'
  <2>1. table' \in Seq(Account) /\ Len(table') = 0
    BY <1>5, EmptySeq
  <2>2. QED
    BY <1>2, <1>4, <1>5, <2>1
<1>6. ASSUME table' = table, file' = file, taken' \in 0..Lines(file), verdict = "reading"
      PROVE  Data'
  BY <1>2, <1>3, <1>4, <1>6
<1>7. ASSUME NEW e \in Account, table' = Append(table, e), file' = file,
             taken' \in 0..Lines(file), verdict = "reading",
             OnDisk(e) \/ (verdict' = "done" /\ Fragment(file) # <<>>)
      PROVE  Data'
  <2>1. /\ table' \in Seq(Account) /\ Len(table') = Len(table) + 1
        /\ \A i \in 1..Len(table) : table'[i] = table[i]
        /\ table'[Len(table) + 1] = e
    BY <1>2, <1>7, AppendProperties
  <2>2. ASSUME NEW i \in 1..Len(table')
        PROVE  i \in 1..Len(table) \/ i = Len(table) + 1
    BY <1>2, <2>1
  <2>3. QED
    BY <1>3, <1>4, <1>7, <2>1, <2>2
<1>8. CASE Reader!TakeLine
  <2> DEFINE k == taken + 1
             line == Line(file, k)
  <2>1. /\ verdict = "reading" /\ taken < Lines(file)
        /\ \/ table' = <<>> /\ UNCHANGED <<file, taken>>
           \/ /\ ~Refused(line) /\ taken' = taken + 1 /\ file' = file
              /\ \/ Skipped(line) /\ table' = table
                 \/ ~Skipped(line) /\ table' = Append(table, EntryOf(line))
    BY <1>8, ReaderSame DEF Reader!TakeLine, Reader!Refuse
  <2>2. k \in 1..Lines(file) /\ k \in 1..Lines(file) + 1 /\ taken + 1 \in 0..Lines(file)
    BY <1>2, <2>1
  <2>3. k \in 1..Lines(disk) /\ line = Line(disk, k)
    BY <2>2, LinesOfBeginning DEF Data
  <2> HIDE DEF k
  <2>4. k \in 1..Lines(disk) + 1
    <3>1. Lines(disk) \in Nat
      BY LinesOfBeginning, BeforeEnds DEF Data, Lines
    <3>2. QED
      BY <2>3, <3>1
  <2>5. ASSUME ~Refused(line), ~Skipped(line), taken' = taken + 1, file' = file,
               table' = Append(table, EntryOf(line))
        PROVE  Data'
    <3>1. EntryOf(line) \in Account
      BY <1>2, <2>2, <2>5, EntryIsAccount, EmptySeq
    <3>2. OnDisk(EntryOf(line))
      BY <2>3, <2>4, <2>5 DEF OnDisk
    <3>3. PICK x \in Account : OnDisk(x) /\ table' = Append(table, x)
      BY <2>5, <3>1, <3>2
    <3>4. taken' \in 0..Lines(file) /\ verdict = "reading" /\ file' = file
      BY <2>1, <2>2, <2>5
    <3>5. QED
      BY ONLY <1>7, x \in Account, <3>3, <3>4, Zenon
  <2>6. QED
    BY <1>5, <1>6, <2>1, <2>2, <2>5
<1>9. CASE Reader!TakeFragment
  <2> DEFINE line == Fragment(file)
             k == Lines(file) + 1
  <2>1. /\ verdict = "reading"
        /\ \/ table' = <<>> /\ UNCHANGED <<file, taken>>
           \/ /\ ~Refused(line) /\ taken' = taken /\ file' = file /\ verdict' = "done"
              /\ \/ table' = table
                 \/ /\ Rest(line) # <<>>
                    /\ \E slack \in Slacks :
                          table' = Append(table, [EntryOf(line) EXCEPT !.characters = @ \o slack])
    BY <1>9, ReaderSame DEF Reader!TakeFragment, Reader!Refuse
  <2>2. k \in 1..Lines(file) + 1 /\ line = Line(file, k)
    BY <1>2 DEF Fragment, Line, Lines
  <2>3. Rest(line) # <<>> => line # <<>>
    <3>1. SUFFICES ASSUME line = <<>> PROVE Rest(line) = <<>>
      OBVIOUS
    <3>2. line \in Seq(Token) /\ Len(line) = 0
      BY <3>1, EmptySeq
    <3>3. Rest(line) = SubSeq(line, PieceStart(line, COMMA, 1), 0)
      <4>1. Positions(line, COMMA) = {}
        BY <3>2 DEF Positions
      <4>2. Count(line, COMMA) = 0
        BY <4>1, FS_EmptySet DEF Count
      <4>3. QED
        BY <3>2, <4>2 DEF Rest
    <3>4. SubSeq(line, 1, 0) = <<>>
      BY <3>1, SubSeqEmpty
    <3>5. QED
      BY <3>3, <3>4 DEF PieceStart
  <2> HIDE DEF k
  <2>4. ASSUME ~Refused(line), taken' = taken, file' = file, verdict' = "done",
               Rest(line) # <<>>, NEW slack \in Slacks,
               table' = Append(table, [EntryOf(line) EXCEPT !.characters = @ \o slack])
        PROVE  Data'
    <3> DEFINE e == [EntryOf(line) EXCEPT !.characters = @ \o slack]
    <3>1. slack \in Seq(Word)
      BY FilesAssumption
    <3>2. e \in Account
      BY <1>2, <2>2, <2>4, <3>1, EntryIsAccount
    <3>3. table' = Append(table, e)
      BY <2>4
    <3> HIDE DEF e
    <3>4. QED
      BY <1>2, <1>7, <2>1, <2>3, <2>4, <3>2, <3>3
  <2>5. QED
    BY <1>2, <1>5, <1>6, <2>1, <2>4
<1>10. CASE Reader!NoMemory
  BY <1>2, <1>6, <1>10 DEF Reader!NoMemory
<1>11. QED
  BY <1>1, <1>8, <1>9, <1>10 DEF Reader!Next

\* The file that is read is a beginning of the one on disk.
LEMMA ReadData == Data /\ ReadDatabase => Data'
<1> SUFFICES ASSUME Data, ReadDatabase PROVE Data'
  OBVIOUS
<1>1. /\ pc = "determine" /\ pc' = "parse" /\ file' \in Beginnings(disk)
      /\ UNCHANGED <<current, answer, disk, table, taken, verdict, account, status>>
  BY DEF ReadDatabase, At, Goto
<1>2. taken' = 0 /\ table' = <<>> /\ disk' \in Files
  BY <1>1 DEF Data
<1>3. Lines(file') \in Nat
  <2>1. file' \in Seq(Token)
    BY <1>1, LinesOfBeginning DEF Data
  <2>2. QED
    BY <2>1, BeforeEnds DEF Lines
<1>4. taken' \in 0..Lines(file')
  BY ONLY <1>2, <1>3
<1>5. table' \in Seq(Account) /\ Len(table') = 0
  BY <1>2, EmptySeq
<1>6. \A i \in 1..Len(table') : Row(i)'
  BY <1>5
<1>7. Beginnings(disk)' = Beginnings(disk')
  BY DEF Beginnings
<1>8. QED
  BY <1>1, <1>2, <1>4, <1>5, <1>6 DEF Data

\* The account determined is an account.
LEMMA DeterminedData ==
  ASSUME Data, NEW a \in Account, Determined(a),
         UNCHANGED <<tuiVars, cliVars, database, password, chars, printed>>
  PROVE  Data'
<1>1. /\ account' = a /\ UNCHANGED <<current, answer>> /\ UNCHANGED database
      /\ \/ status' = "failure" /\ pc' = pc
         \/ pc' = "allocate" /\ status' = status
  BY DEF Determined, Exit, Goto, tuiVars
<1>2. QED
  BY <1>1, DataStays DEF Data

LEMMA DeterminingData ==
  IInv /\ Data /\ (FromCommandLine \/ NoDatabase \/ EmptyTable \/ OnlyAccount \/ MenuEnds) => Data'
<1> SUFFICES ASSUME IInv, Data,
                    FromCommandLine \/ NoDatabase \/ EmptyTable \/ OnlyAccount \/ MenuEnds
             PROVE  Data'
  OBVIOUS
<1>1. CASE FromCommandLine
  <2> DEFINE a == [domain     |-> options.domain_or_database,
                   username   |-> options.username,
                   iteration  |-> IF options.iteration = NONE THEN ZERO
                                  ELSE options.iteration,
                   characters |-> IF options.characters = NONE THEN <<>>
                                  ELSE options.characters,
                   length     |-> IF options.length = 0 THEN 64 ELSE options.length]
  <2>1. /\ Determined(a)
        /\ UNCHANGED <<tuiVars, cliVars, database, password, chars, printed>>
    BY <1>1 DEF FromCommandLine
  <2>2. /\ options.domain_or_database \in Seq(Word) \cup {NONE}
        /\ options.username \in Seq(Word) \cup {NONE}
        /\ options.iteration \in Seq(Word) \cup {NONE}
        /\ options.characters \in Seq(Word) \cup {NONE}
        /\ options.length \in Nat
    BY DEF IInv, Arguments, CliInv, CliTypeOK
  <2>3. \A w \in Seq(Word) \cup {NONE} : w \in String
    BY SeqMonotonic DEF String, Token
  <2>4. ZERO \in String /\ <<>> \in String
    BY <2>3, ZeroAssumption, EmptySeq DEF String
  <2>5. a \in Account
    BY <2>2, <2>3, <2>4 DEF Account
  <2> HIDE DEF a
  <2>6. QED
    BY <2>1, <2>5, DeterminedData
<1>2. CASE NoDatabase
  BY <1>2, NothingIsAccount, DeterminedData DEF NoDatabase
<1>3. CASE EmptyTable
  BY <1>3, NothingIsAccount, DeterminedData DEF EmptyTable
<1>4. CASE OnlyAccount
  <2>1. /\ Len(table) = 1 /\ Determined(table[1])
        /\ UNCHANGED <<tuiVars, cliVars, database, password, chars, printed>>
    BY <1>4 DEF OnlyAccount
  <2>2. table[1] \in Account
    <3>1. table \in Seq(Account)
      BY DEF Data
    <3>2. Len(table) = 1
      BY <2>1
    <3>3. 1 \in 1..Len(table)
      BY ONLY <3>2
    <3>4. QED
      BY ONLY <3>1, <3>3, ElementOfSeq
  <2>3. QED
    BY <2>1, <2>2, DeterminedData
<1>5. CASE MenuEnds
  <2> DEFINE a == IF answer >= 0 THEN table[answer + 1] ELSE NullAccount
  <2>1. /\ Determined(a) /\ pc = "menu" /\ call = "none"
        /\ UNCHANGED <<tuiVars, cliVars, database, password, chars, printed>>
    BY <1>5 DEF MenuEnds, At
  <2>2. a \in Account
    <3>1. answer >= 0 => answer = current /\ current < Len(table)
      BY <2>1 DEF IInv, Offer
    <3>2. table \in Seq(Account) /\ Len(table) \in Nat /\ current \in Nat /\ answer \in Int
      BY LenProperties DEF Data
    <3>3. answer >= 0 => answer + 1 \in 1..Len(table)
      BY ONLY <3>1, <3>2
    <3>4. answer >= 0 => table[answer + 1] \in Account
      BY <3>2, <3>3, ElementOfSeq
    <3>5. QED
      BY <3>4, NothingIsAccount
  <2> HIDE DEF a
  <2>3. QED
    BY <2>1, <2>2, DeterminedData
<1>6. QED
  BY <1>1, <1>2, <1>3, <1>4, <1>5

LEMMA UserActsData == IInv /\ Data /\ UserActs => Data'
<1> SUFFICES ASSUME IInv, Data, UserActs PROVE Data'
  OBVIOUS
<1>1. /\ pc \in {"menu", "ask"} /\ TuiStep
      /\ UNCHANGED <<database, account, pc, status>>
  BY DEF UserActs, At
<1>2. call \notin {"none", "crashed"} /\ current \in Nat /\ answer \in Int /\ Len(passwd) \in Nat
  <2>1. call \notin {"none", "crashed"}
    BY <1>1 DEF TuiStep, PostMenu, PostFails, NoMemory, MoveDown, MoveUp, Select, Quit,
       Ignore, TypeKey, Accept, InputEnds
  <2>2. QED
    BY <2>1, LenProperties DEF Data, IInv, Buffer
<1>3. current' \in Nat
  <2>1. CASE pc = "menu"
    <3>1. /\ call \in {"posting", "menu"} /\ items \in Seq(Label)
          /\ call = "posting" => current = 0
          /\ call = "menu" => current < Shown
      BY <1>2, <2>1 DEF IInv, Calls, Offer
    <3>2. QED
      BY <1>1, <1>2, <3>1, MenuStep
  <2>2. CASE pc = "ask"
    <3>1. call = "prompt" /\ passwd \in Seq(0..255)
      BY <1>2, <2>2 DEF IInv, Calls, Buffer
    <3>2. QED
      BY <1>1, <1>2, <3>1, PromptStep
  <2>3. QED
    BY <1>1, <2>1, <2>2
<1>4. answer' \in Int
  <2>1. \/ answer' = answer
        \/ answer' = FAILED
        \/ answer' = current
        \/ answer' = Len(passwd)
    BY <1>1 DEF TuiStep, PostMenu, PostFails, NoMemory, MoveDown, MoveUp, Select, Quit,
       Ignore, TypeKey, Accept, InputEnds, Answer
  <2>2. QED
    BY <1>2, <2>1 DEF FAILED
<1>5. QED
  BY <1>1, <1>3, <1>4, DataStays DEF Data

\* All other steps leave the account and the database alone.
LEMMA MainData ==
  ASSUME IInv, Data,
               \/ ParseArguments \/ ArgumentsParsed \/ NullPath \/ CannotAsk \/ PromptFails
               \/ Starves \/ DeriveCrashes \/ Derive \/ DeriveFails \/ Clear
               \/ Enumerate \/ EnumerateFails \/ PrintPassword \/ PrintCrashes
               \/ OfferMenu \/ Allocate \/ UNCHANGED vars
  PROVE  Data'
<1>1. UNCHANGED database /\ account' = account
  BY DEF ParseArguments, ArgumentsParsed, NullPath, CannotAsk, PromptFails, Starves, DeriveCrashes,
     Derive, DeriveFails, Clear, Enumerate, EnumerateFails, PrintPassword, PrintCrashes,
     OfferMenu, Allocate, vars
<1>2. /\ current' = current \/ current' = 0
      /\ answer' = answer \/ answer' = NO_ANSWER
  BY DEF ParseArguments, ArgumentsParsed, NullPath, CannotAsk, PromptFails, Starves, DeriveCrashes,
     Derive, DeriveFails, Clear, Enumerate, EnumerateFails, PrintPassword, PrintCrashes,
     OfferMenu, Allocate, vars, tuiVars, ShowMenu, AskPassword, initscr
<1>3. /\ pc' \in {pc, "determine", "menu", "ask", "clear", "clear after failure", "charset",
                  "print"}
      /\ pc' = "determine" => pc \in {"parse arguments", "determine"}
      /\ status' \in {status, "success", "failure", "helped", "crashed", "starved"}
  <2>1. CASE ArgumentsParsed
    <3>1. parsing \in {"parsing", "returned", "usage", "help"}
      BY DEF IInv, Arguments, CliInv, CliTypeOK
    <3>2. QED
      BY <2>1, <3>1 DEF ArgumentsParsed, At, Goto, Exit
  <2>2. CASE ~ArgumentsParsed
    BY <2>2 DEF ParseArguments, NullPath, CannotAsk, PromptFails, Starves, DeriveCrashes,
       Derive, DeriveFails, Clear, Enumerate, EnumerateFails, PrintPassword, PrintCrashes,
       OfferMenu, Allocate, vars, At, Goto, Exit, Parsed
  <2>3. QED
    BY <2>1, <2>2
<1>4. current' \in Nat /\ answer' \in Int
  <2>1. current \in Nat /\ answer \in Int
    BY DEF Data
  <2>2. QED
    BY ONLY <1>2, <2>1 DEF NO_ANSWER
<1>5. pc' \in {"parse arguments", "determine", "parse", "menu", "allocate", "ask",
               "clear", "clear after failure", "charset", "print"}
  BY <1>3 DEF Data
<1>6. status' \in {"running", "success", "failure", "helped", "crashed", "starved"}
  BY <1>3 DEF Data
<1>7. account' \in Account
  BY <1>1 DEF Data
<1>8. QED
  BY <1>1, <1>3, <1>4, <1>5, <1>6, <1>7, DataStays

LEMMA NextData == IInv /\ Data /\ [Next]_vars => Data'
  BY MainData, ReadData, ParseData, DeterminingData, UserActsData DEF Next, Spin

LEMMA DataInvariance == Spec => []Data
<1>1. IInv /\ Data /\ [Next]_vars => Data'
  BY NextData
<1>2. QED
  BY Invariance, InitData, <1>1, PTL DEF Spec

--------------------------------------------------------------------------------
\* An account used is a row of the table.
LEMMA UsedIsRow == IInv /\ Data => SpoilsOnlyTheLast
<1> SUFFICES ASSUME IInv, Data, Chosen, Len(argv.args) = 1
             PROVE  \/ OnDisk(account)
                    \/ account = table[Len(table)] /\ Fragment(file) # <<>>
  BY DEF SpoilsOnlyTheLast
<1>1. IF Len(table) = 1 THEN account = table[1]
      ELSE current < Len(table) /\ account = table[current + 1]
  BY DEF IInv, AccountIsTheOneChosen
<1>2. Len(table) \in Nat /\ current \in Nat
  BY LenProperties DEF Data
<1>3. PICK i \in 1..Len(table) : account = table[i]
  <2>1. CASE Len(table) = 1
    BY <1>1, <2>1
  <2>2. CASE Len(table) # 1
    BY <1>1, <1>2, <2>2
  <2>3. QED
    BY <2>1, <2>2
<1>4. Row(i)
  BY DEF Data
<1>5. QED
  BY <1>3, <1>4 DEF Row

\* An account that comes from the database is an entry of a line of the file on
\* disk, or the last one of the table, made of what follows the last line end of
\* what was read (main.c:52, padre.c:255).
THEOREM OnlyTheLastIsSpoiled == Spec => []SpoilsOnlyTheLast
  BY Invariance, DataInvariance, UsedIsRow, PTL

\* Given the memory it allocates, the program crashes only on a rejected length,
\* on an account of the database without an iteration or, in an unfinished last
\* line, without a username, and on a pattern whose ranges are all reversed.
THEOREM CrashesAreDefects == Spec => []CrashesOnlyOnDefects
<1>1. IInv /\ Data => CrashesOnlyOnDefects
  <2> SUFFICES ASSUME IInv, Data, status = "crashed", pc = "ask", Len(argv.args) = 1,
                      account.username = NONE
               PROVE  account = table[Len(table)] /\ Fragment(file) # <<>>
    BY DEF IInv, CrashSites, CrashesOnlyOnDefects
  <2>1. \/ OnDisk(account)
        \/ account = table[Len(table)] /\ Fragment(file) # <<>>
    BY UsedIsRow DEF SpoilsOnlyTheLast, Chosen
  <2>2. ~OnDisk(account)
    BY DEF OnDisk, Skipped, EntryOf
  <2>3. QED
    BY <2>1, <2>2
<1>2. QED
  BY Invariance, DataInvariance, <1>1, PTL

--------------------------------------------------------------------------------
\* What the theorems below take from the outside: scrypt gives as many bytes as it
\* is asked for, and a pattern stands for a sequence of characters, unless its
\* scan is refused or never ends.
ScryptGivesBytes == \A pwd \in Seq(0..255), salt \in Seq(Token), n \in Nat :
                       Scrypt(pwd, salt, n) \in [1..n -> 0..255]
PatternsGive(S) == /\ \A p \in String : Members(p) \in Seq(S) \cup {TOO_LONG, ENDLESS}
                   /\ NONE \notin Seq(S)

\* The derived bytes are as many as the account asks for.
Derived == /\ password \in Seq(0..255)
           /\ pc \in {"clear", "charset", "print"} => Len(password) = account.length

LEMMA InitDerived == Init => Derived
  BY EmptySeq DEF Init, Derived

LEMMA NextDerived ==
  ASSUME ScryptGivesBytes, IInv, Data, Derived, [Next]_vars
  PROVE  Derived'
<1>1. CASE Derive
  <2>1. /\ pc = "ask" /\ ~Incomplete(account) /\ account' = account /\ pc' = "clear"
        /\ password' = Scrypt(passwd, Salt(account), account.length)
    BY <1>1 DEF Derive, At, Goto
  <2>2. passwd \in Seq(0..255) /\ account.domain # NONE
    BY <2>1 DEF IInv, Buffer, AccountIsTheOneChosen, Chosen
  <2>3. /\ account.domain \in String /\ account.username \in String
        /\ account.iteration \in String /\ account.length \in Nat
    BY DEF Data, Account
  <2>4. Salt(account) \in Seq(Token)
    <3>1. /\ account.domain \in Seq(Token) /\ account.username \in Seq(Token)
          /\ account.iteration \in Seq(Token)
      BY <2>1, <2>2, <2>3 DEF String, Incomplete
    <3>2. account.domain \o account.username \in Seq(Token)
      BY <3>1, ConcatProperties
    <3>3. QED
      BY <3>1, <3>2, ConcatProperties DEF Salt
  <2> DEFINE n == account.length
             key == Scrypt(passwd, Salt(account), n)
  <2>5. key \in [1..n -> 0..255]
    BY <2>2, <2>3, <2>4 DEF ScryptGivesBytes
  <2>6. n \in Nat /\ password' = key /\ account'.length = n
    BY <2>1, <2>3
  <2> HIDE DEF n, key
  <2>7. key \in Seq(0..255) /\ Len(key) = n
    BY ONLY <2>5, <2>6, FunctionIsSeq
  <2>8. QED
    BY <2>6, <2>7 DEF Derived
<1>2. CASE ~Derive /\ pc' \notin {"clear", "charset", "print"}
  <2>1. password' = password
    BY <1>2 DEF Next, ParseArguments, ArgumentsParsed, FromCommandLine, NullPath, ReadDatabase,
       NoDatabase, Parse, EmptyTable, OnlyAccount, OfferMenu, MenuEnds, Starves, Allocate, CannotAsk,
       UserActs, PromptFails, DeriveCrashes, DeriveFails, Clear, Enumerate, EnumerateFails,
       Spin, PrintPassword, PrintCrashes, vars
  <2>2. QED
    BY <1>2, <2>1 DEF Derived
<1>3. CASE ~Derive /\ pc' \in {"clear", "charset", "print"}
  <2>1. CASE ArgumentsParsed
    <3>1. parsing \in {"parsing", "returned", "usage", "help"}
      BY DEF IInv, Arguments, CliInv, CliTypeOK
    <3>2. pc' \in {"parse arguments", "determine"}
      BY <2>1, <3>1 DEF ArgumentsParsed, At, Goto, Exit
    <3>3. QED
      BY <1>3, <3>2
  <2>2. CASE FromCommandLine \/ NoDatabase \/ EmptyTable \/ OnlyAccount \/ MenuEnds
    <3>1. pc' \in {"determine", "parse", "menu", "allocate"}
      BY <2>2 DEF FromCommandLine, NoDatabase, EmptyTable, OnlyAccount, MenuEnds, Parsed, At,
         Determined, Goto, Exit
    <3>2. QED
      BY <1>3, <3>1
  <2>3. CASE /\ ~ArgumentsParsed
             /\ ~(FromCommandLine \/ NoDatabase \/ EmptyTable \/ OnlyAccount \/ MenuEnds)
    <3>1. UNCHANGED <<password, account>> /\ pc \in {"clear", "charset", "print"}
      BY <1>3, <2>3 DEF Next, ParseArguments, NullPath, ReadDatabase, Parse, OfferMenu, Starves, Allocate,
         CannotAsk, UserActs, PromptFails, DeriveCrashes, DeriveFails, Clear, Enumerate,
         EnumerateFails, Spin, PrintPassword, PrintCrashes, vars, At, Goto, Exit, Parsed
    <3>2. QED
      BY <3>1 DEF Derived
  <2>4. QED
    BY <2>1, <2>2, <2>3
<1>4. QED
  BY <1>1, <1>2, <1>3

\* main's variables have their types: what is stored of the accounts, of the keys
\* and of the derived password, and the places it can be at.
THEOREM TypeCorrect == ASSUME ScryptGivesBytes PROVE Spec => []TypeOK
<1>1. Derived /\ IInv /\ Data /\ [Next]_vars => Derived'
  BY NextDerived
<1>2. IInv /\ Data /\ Derived => TypeOK
  BY DEF IInv, Calls, Buffer, Data, Derived, TypeOK
<1>3. QED
  BY Invariance, DataInvariance, InitDerived, <1>1, <1>2, PTL DEF Spec

--------------------------------------------------------------------------------
\* Success is the print, and before it the charset is a sequence of characters.
Prints(S) == /\ pc = "print" => chars \in Seq(S)
             /\ SuccessIsPrinted

\* Steps that print nothing.
LEMMA NothingPrinted ==
  ASSUME IInv, [Next]_vars, ~PrintPassword
  PROVE  /\ printed' = printed
         /\ \/ UNCHANGED vars
            \/ status = "running" /\ status' # "success"
<1>1. printed' = printed
  BY DEF Next, ParseArguments, ArgumentsParsed, FromCommandLine, NullPath, ReadDatabase,
     NoDatabase, Parse, EmptyTable, OnlyAccount, OfferMenu, MenuEnds, Starves, Allocate, CannotAsk,
     UserActs, PromptFails, DeriveCrashes, Derive, DeriveFails, Clear, Enumerate,
     EnumerateFails, Spin, PrintCrashes, vars
<1>2. \/ UNCHANGED vars
      \/ status = "running" /\ status' # "success"
  <2>1. CASE ArgumentsParsed
    <3>1. parsing \in {"parsing", "returned", "usage", "help"}
      BY DEF IInv, Arguments, CliInv, CliTypeOK
    <3>2. QED
      BY <2>1, <3>1 DEF ArgumentsParsed, At, Goto, Exit
  <2>2. CASE FromCommandLine \/ NoDatabase \/ EmptyTable \/ OnlyAccount \/ MenuEnds
    BY <2>2 DEF FromCommandLine, NoDatabase, EmptyTable, OnlyAccount, MenuEnds, Parsed, At,
       Determined, Goto, Exit
  <2>3. CASE /\ ~ArgumentsParsed
             /\ ~(FromCommandLine \/ NoDatabase \/ EmptyTable \/ OnlyAccount \/ MenuEnds)
    BY <2>3 DEF Next, ParseArguments, NullPath, ReadDatabase, Parse, OfferMenu, Starves, Allocate,
       CannotAsk, UserActs, PromptFails, DeriveCrashes, Derive, DeriveFails, Clear, Enumerate,
       EnumerateFails, Spin, PrintCrashes, At, Goto, Exit, Parsed
  <2>4. QED
    BY <2>1, <2>2, <2>3
<1>3. QED
  BY <1>1, <1>2

LEMMA NextPrints ==
  ASSUME NEW S, PatternsGive(S), IInv, Data, Derived, Prints(S), [Next]_vars
  PROVE  Prints(S)'
<1>1. ASSUME pc' = "print" PROVE chars' \in Seq(S)
  <2>1. CASE Enumerate
    <3>1. /\ chars' = Members(account.characters)
          /\ Members(account.characters) \notin {TOO_LONG, ENDLESS}
      BY <2>1 DEF Enumerate
    <3>2. account.characters \in String
      BY DEF Data, Account
    <3>3. QED
      BY <3>1, <3>2 DEF PatternsGive
  <2>2. CASE ~Enumerate /\ ~ArgumentsParsed
    <3>1. chars' = chars /\ pc = "print"
      BY <1>1, <2>2 DEF Next, ParseArguments, FromCommandLine, NullPath, ReadDatabase,
         NoDatabase, Parse, EmptyTable, OnlyAccount, OfferMenu, MenuEnds, Starves, Allocate, CannotAsk,
         UserActs, PromptFails, DeriveCrashes, Derive, DeriveFails, Clear, EnumerateFails,
         Spin, PrintPassword, PrintCrashes, vars, At, Goto, Exit, Determined, Parsed
    <3>2. QED
      BY <3>1 DEF Prints
  <2>3. CASE ArgumentsParsed
    <3>1. parsing \in {"parsing", "returned", "usage", "help"}
      BY DEF IInv, Arguments, CliInv, CliTypeOK
    <3>2. pc' \in {"parse arguments", "determine"}
      BY <2>3, <3>1 DEF ArgumentsParsed, At, Goto, Exit
    <3>3. QED
      BY <1>1, <3>2
  <2>4. QED
    BY <2>1, <2>2, <2>3
<1>2. SuccessIsPrinted'
  <2>1. CASE PrintPassword
    <3> DEFINE word == to_chars(password, chars)
    <3>1. /\ pc = "print" /\ printed' = word /\ status' = "success" /\ account' = account
          /\ chars # <<>> \/ password = <<>>
      BY <2>1 DEF PrintPassword, At, Exit
    <3>2. /\ chars \in Seq(S) /\ chars = Members(account.characters)
          /\ password \in Seq(0..255) /\ Len(password) = account.length
      BY <3>1 DEF Prints, IInv, Derived
    <3>3. /\ word \in Seq(S) /\ Len(word) = Len(password)
          /\ \A i \in 1..Len(password) : \E j \in 1..Len(chars) : word[i] = chars[j]
      <4>1. CASE chars # <<>>
        BY <3>2, <4>1, CharactersOfCharset
      <4>2. CASE password = <<>>
        <5>1. Len(password) = 0 /\ 1..0 = {}
          BY <4>2, EmptySeq
        <5>2. word \in [1..0 -> S]
          BY <5>1 DEF to_chars
        <5> HIDE DEF word
        <5>3. word \in Seq(S) /\ Len(word) = 0
          BY ONLY <5>2, 0 \in Nat, FunctionIsSeq
        <5>4. QED
          BY <5>1, <5>3
      <4>3. QED
        BY <3>1, <4>1, <4>2
    <3> HIDE DEF word
    <3>4. word # NONE
      BY <3>3 DEF PatternsGive
    <3>5. Len(argv.args) = 2 => word # <<>>
      <4>1. SUFFICES ASSUME Len(argv.args) = 2 PROVE word # <<>>
        OBVIOUS
      <4>2. Len(word) = Requested.length /\ Requested.length # 0
        BY <3>1, <3>2, <3>3, <4>1, RequestedLength DEF IInv, AccountIsTheOneChosen, Chosen
      <4>3. QED
        BY ONLY <4>2, EmptySeq
    <3>6. argv' = argv
      BY <2>1 DEF PrintPassword, cliVars
    <3>7. QED
      BY <3>1, <3>2, <3>3, <3>4, <3>5, <3>6 DEF SuccessIsPrinted
  <2>2. CASE ~PrintPassword
    <3>1. CASE UNCHANGED vars
      BY <3>1 DEF Prints, SuccessIsPrinted, vars, cliVars
    <3>2. CASE status = "running" /\ status' # "success" /\ printed' = printed
      BY <3>2 DEF Prints, SuccessIsPrinted
    <3>3. QED
      BY <2>2, <3>1, <3>2, NothingPrinted
  <2>3. QED
    BY <2>1, <2>2
<1>3. QED
  BY <1>1, <1>2 DEF Prints

\* The program succeeds exactly when it has printed a password, and that one has
\* the length of its account and only characters of its account's pattern.
THEOREM SuccessPrints ==
  ASSUME NEW S, ScryptGivesBytes, PatternsGive(S)
  PROVE  Spec => []SuccessIsPrinted
<1>1. Derived /\ IInv /\ Data /\ [Next]_vars => Derived'
  BY NextDerived
<1>2. Prints(S) /\ Derived /\ IInv /\ Data /\ [Next]_vars => Prints(S)'
  BY NextPrints
<1>3. Init => Prints(S)
  BY DEF Init, Prints, SuccessIsPrinted
<1>4. Prints(S) => SuccessIsPrinted
  BY DEF Prints
<1>5. QED
  BY Invariance, DataInvariance, InitDerived, <1>1, <1>2, <1>3, <1>4, PTL DEF Spec
================================================================================
