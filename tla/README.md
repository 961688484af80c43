# Padre in TLA+

Padre derives a password from a master password and an account, which is given
on the command line or chosen from a CSV file in a terminal menu.  It is one
short-lived, single-threaded C program of four files that are built as one
(`src/main.c` includes the others).  Its tests use the unit-test framework Unity,
which the repository carries in `lib/unity`.  The modules of this directory
model the program from the command line to the printed password, and Unity from
the assertion macros to the counters it returns; TLC checks them on small
instances, and TLAPS proves what matters most for all instances.

Paths below are those of the repository without the leading `src/`
(`padre.c:111` is line 111 of `src/padre.c`).

## The system

| Component | Source | State | Operations | Module |
|---|---|---|---|---|
| charset | `padre.c:64-156` | array of 95 chars, `l`, `op`, the cursor | `enumerate_charset`, `push_char` | `CharsetSpec`, `Charset` |
| database parser | `padre.c:158-259` | the buffer it cuts up, `str`, `cur`, the account under construction, the list | `parse_accounts`, `push_account`, `new_account_list`, `free_account_list` | `Csv`, `CsvReader`, `Accounts` |
| database file | `main.c:22-67` | `struct buffer` | `read_entire_file` | `DatabaseFile` |
| terminal UI | `tui.c` | curses mode, menu items and cursor, the caller's password buffer | `tui_show_menu`, `tui_ask_password` | `Tui`, `Terminal` |
| program flow | `main.c:69-174`, `padre.c:27-62` | the account, the derived bytes, the charset, the exit status | `main`, `determine_account`, `derive_password`, `to_chars` | `Padre` |
| command line | `cli.c` | `struct cli_opts`, argp's position | `cli_parse`, `parse_opt` | `Cli` |
| configuration | `padre.h` | | the limits | CONSTANTS of the modules |
| libraries | argp, ncurses, scrypt-kdf, libc | | | only what the code relies on |
| test framework | `lib/unity` | `struct UNITY_STORAGE_T`: counters, the flags of the current test, details; what was printed | `UNITY_BEGIN`, `RUN_TEST`, `UNITY_END`, `UnityFail`, `UnityIgnore`, the assertions | `UnityNumbers`, `UnityAsserts`, `UnityFloats`, `UnityCalls`, `Unity` |
| tests, build | `padre_test.c`, `Makefile` | | | not modelled; a source of claims |

Everything is synchronous calls.  `main` calls `cli_parse`, whose callback argp
calls for every option, argument and the end, then `determine_account`, which either takes the account from the options or reads
the file, parses it, and shows the menu if there is more than one account.
`main` then asks for the master password, derives, clears the buffer,
enumerates the account's charset, and prints.  Three things make this harder
than it looks:

* **The user and the input.**  `getch` delivers keys in any order, or reports
  the end of the input, at once and for ever if the database came through a
  pipe.  Menu and prompt treat it differently.
* **Memory shared without copies.**  The accounts are pointers into the buffer
  the parser goes on writing NULs to.  The buffer has more bytes than the file.
  The menu is a truncated view of the list its answer is an index into.
* **Failures between the steps.**  Every allocation, the file, curses, scrypt
  and the enumeration can fail, some with the master password in memory.  Some
  failures are not looked at (`ferror`, the result of `argp_parse`, the
  allocations of the file's buffer, the list and the menu), and accounts from an
  unfinished last line are not validated, so that later steps meet null
  pointers.
* **Control that leaves by the side.**  argp's callback may exit, or return an
  error that nobody looks at.  Unity's assertions leave a test with `longjmp`,
  out of `setUp`, the test or `tearDown`, and `tearDown` runs with the flags of
  the failed test still set.
* **Numbers in several types.**  Unity's macros convert their arguments to the
  type in their name, carry them in eight bytes, compare them signed or
  unsigned, and print them in yet another notation.

What makes each component correct: *command line*: the struct means what the
line means, or the program ends.  *Charset*: never past the array; exactly
the characters the list denotes, or a refusal exactly when they do not fit; it
returns.  *Parser*: the table is what reading the file line by line gives; no
string reaches into another line; the list grows in time.  *File*: a chunk
fits whenever `fread` is called; all of the file or nothing.  *Terminal*:
curses mode lasts exactly as long as a call; the answer is an index of the
caller's own list; the password fits.  *Flow*: the password is for the account
asked for; the secret is cleared; a crash or a failure prints nothing.
*Unity*: the verdict of each test is that of its own first statement that does
not hold; the report names what differs; the counters are those of the
verdicts printed; a suite ends.

## Modules

`CharsetSpec` is pure: characters as signed char values, the class table
(`ClassSpec`), and `Denotes`, what a list stands for, defined by the positions
of its dashes and not by the scan.  It is the reference for `Charset`.

`Charset` has one action per iteration of the scanning loop (`SkipSpace`,
`LeadingDash`, `TakeLeft`, `SeeDash`, `PushLiteral`), one per iteration of the
range loop inside it (`BeginRange`, `RangePush`, `EndRange`), and the code
before and after (`RejectNull`, `Resolve`, `Finish`, `Copy`,
`AllocationFails`).  `out.full` is `result == nullptr`, which later pushes
leave as it is.  `l` is a char and wraps.  `block` is the size of the memory the
result is copied to.

`Csv` says what a line is, what its fields are, and which lines are skipped or
refused, in terms of the positions of separators.  A file is a sequence of
tokens: a *word* is a run of characters without a separator, which the parser
only passes over or gives to `atoi`.  `CsvReader` is the abstract
specification of the parser: it takes complete lines one by one, then the
fragment behind the last line end, to which it adds whatever the buffer holds.
Where an account is listed, there may be no memory for it (`NoMemory`).

`Accounts` is the parser as it is: it writes NULs into `memory`, keeps
positions instead of strings, and grows its list.  One action is one token:
each `case` and branch of the `switch` is an action.  Under the refinement
mapping the table is read back from the pointers with `String`, and the lines
taken are the line ends passed.

`DatabaseFile` has sizes instead of bytes.  `fread` returns any number of
bytes up to a chunk; fewer than were available only with an error, after which
the loop may go on.  `allocated` is what `malloc` and `realloc` really gave,
which nobody asks: without memory the next byte read is a crash.

`Tui` holds the actions of the menu and the prompt; `Terminal` composes them
with a caller that calls in any order; `Padre` composes them with `main`.  An
item is its label, named or nameless: `new_item` refuses the empty name, and
the null pointer it returns ends the menu.  The array of items is not checked:
`NoMemory` is the crash in curses mode.

`Cli` has one action per callback argp makes, for the options in the order they
are given, then the arguments, then the end (argp permutes the line this way),
and for each case of `parse_opt`.  `RejectLength` is the early return with
`EINVAL`, after which `cli_parse` returns the struct as it is.  `Meaning` says
what a whole command line asks for, without a parser.

`Padre` composes `Cli`, `Tui` and `CsvReader` (which `Accounts` implements) with
one action per call `main` and `determine_account` make, with its failure.
`disk` is the stored file, `file` what was read of it: after a read error it
may end anywhere, within a word too (`Beginnings`, `Cut`).  It
keeps the place in `pc` and how the program ended in `status` ("crashed" is a
null pointer given to `strlen` or `strcmp`, or a division by zero; "starved" is
a null pointer from an allocation that nobody checked, `Starves`).  scrypt is
a constant operator of password, salt and length; what `enumerate_charset`
gives is `Members`, which may also be "too long" or "endless".

`UnityNumbers`, `UnityAsserts`, `UnityFloats` and `UnityCalls` are pure.  The
first has the integer types over bytes of `CHAR_BIT` bits, the display styles,
and how numbers are printed; `Denotes` is how a reader understands the line.
`UnityAsserts` and `UnityFloats` have one operator per assertion function, from
its arguments to the report it prints or `Passed`.  `UnityCalls` has the
conversions of the macros and the function each family calls (`Judge`), and
next to it what the call should say (`Holds`, `Differs`, `Names`), in terms of
the values the arguments have in the type the macro is named for, and without
the eight-byte carrier, the masks and the loops; a trait of a float is defined
there by how the number compares (`Behaves`), not by the tests of the code.

`Unity` is the runner: a suite is a sequence of tests, a test three scripts of
statements (`setUp`, body, `tearDown`).  `TEST_ABORT` is `longjmp` to the
`TEST_PROTECT` that was entered last, so that it leads to `tearDown` from the
first two and out of the test from the third.  Every kind of statement is an
action: `UnityFail`, `UnityIgnore`, `TestPass`, `UnityMessage`, `SetDetails`,
the bare conditions (`TestAssert`), and all other assertions (`UnityAssert`).
A verdict is a piece of `output` with its test, its report and its details.

Definitions under a comment "Mutant: ..." are slips a programmer might make, at
least one for each property.  Put in place of the definition that follows, one
of them must make the property fail; nothing else uses them.

## Runs

| Run | Instance | Checks |
|---|---|---|
| `charset` | the real array of 95; all classes; no argument; all lists of 1 to 4 characters over five, dash included; 13 lists at boundaries (94 and 95 characters, dashes beyond, white space, DEL, UTF-8, ranges across NUL) | `WritesInBounds`, `ReturnsDenotation`, `RefusesOnlyTooLong`, `ClassIsPosix`, `TameReturns` |
| `accounts` | all files of up to 5 tokens over word, comma, newline; 9 shapes of line alone and in pairs, 3 in triples, with and without the last newline; a buffer with or without a word behind the file; 8 tokens per entry estimated, so that the list must grow | `ListInBounds`, `StringsStayInLine`, `ImplementsCsv`, `Ends` |
| `database_file` | chunks of 4 bytes, the real factor 16, all file sizes up to one chunk beyond the limit, all ways of cutting the file into pieces, an error at any read, memory missing at any allocation | `ReadFits`, `SlackBehindData`, `AcceptedWhole`, `LimitKept`, `Ends` |
| `padre` | the whole program, with its command line and its terminal.  Ten typical command lines meet fifteen databases of up to three accounts (nameless and defective ones included, read whole or cut anywhere), memory missing at any unchecked allocation, the keys that matter, a letter and a function key whose code is not a byte, an input that may end anywhere, and a buffer of two bytes.  All lines of up to three options over eleven (with letters, lengths good and bad, help, unknown) and of no to three arguments meet an empty database and an input that has ended (`MCInit`) | `SecretForgotten`, `AccountIsTheOneChosen`, `SpoilsOnlyTheLast`, `SuccessIsPrinted`, `CrashesOnlyOnDefects`, `TerminalRestored`, `AskedOnce`, `EndsOncePrompted`; of the terminal `ScreenRestored`, `PasswordFits`, `SelectionIsItem`, `PromptEnds`; of the command line `ReturnsMeaning`, `WorksOnProperLines` |
| `unity` | bytes of two bits (an `INT8` is -2 .. 1, a `UNITY_INT` has 16 bits); every assertion in every style on nine integers at the edges of the types, arrays of two elements, NULL and aliased pointers, strings and memory of up to four bytes, floats up to overflow, infinities and NaN; and tests of scripts of up to two statements, alone and in pairs | `CountsWhatItPrinted`, `VerdictsAreRight`, `ReachesWhatItShould`, `NamesTheDifference`, `SuiteEnds` |

Each also checks the type invariants (`TypeOK`, `TuiTypeOK`, `CliTypeOK`,
`UnityTypeOK`). Lists of four characters are enough for every state of the scan
(`l`, `op`) to meet every kind of character and to be left over at the end; the
parser's state after a line does not depend on the line, except for the list,
so pairs of all shapes show every hand-over, and triples let the list grow
twice; two accounts are what it takes to have a menu, and three to have a
nameless one between others. Three options let a rejected length stand between
two others, and one kind be given three times. Bytes of two bits keep all
relations between the types (each twice as wide as the last, UNITY_INT the
widest), so every edge at which a conversion changes a value is in the
instance; two tests with `setUp`, a body and `tearDown` that may each fail,
pass or be ignored show all that one test can leave to the next. The bounds on
the terminal's buffer and on the chunk are parameters of the theorems, which
hold for all values.

Seven runs look for, and find, a behaviour that contradicts a sentence of the
repository:

| Run | Property | Against | What happens |
|---|---|---|---|
| `charset_space` | `EveryListReturns` | `cli.c:87` | `continue` at white space does not advance: endless loop |
| `charset_block` | `TerminatorInBlock` | `padre_test.c:77` | the block for the result has no byte for the NUL that is copied with it |
| `database_limit` | `RefusedExceeds` | `main.c:57`, `padre.h:28` | a file is refused from one chunk below the limit on |
| `terminal_buffer` | `TerminatorInBuffer` | `tui.c:94` | the NUL of a password as long as the buffer is stored behind it |
| `padre_secret` | `NoExitWithSecret` | `main.c:140`, `154` | a failed prompt returns with the keys still in the buffer |
| `padre_length` | `PasswordNotEmpty` | `padre.c:238` | a complete line with no comma behind its length (`d,u,0,abc`) has the length 0: exit status 0 and an empty password |
| `padre_pipe` | `Terminates` | `Makefile:33-34` | two accounts from a pipe lead to a menu that goes on asking after the end of the input |

The terminal's caller in `padre` is the program; `terminal_buffer` runs
`Terminal`, whose caller calls in any order.  Two more disagreements have no run
of their own.  The line an error message names (`padre.c:211`, `238`) is the
number of accounts listed plus one, wrong after the first skipped line; messages
are not modelled.  And "a file without newline at the end is parsed correctly"
(`Makefile:35`) only if the buffer holds a NUL behind the file: otherwise the last
field runs on, as `TakeFragment` and the exception in `StringsStayInLine` say.

## Fairness

The program has one thread that blocks nowhere but in `getch`. The
specifications of the parser, the charset and the file have weak fairness of
`Next`: code that can run, runs. The reader that the parser implements has
none: that the parser comes to its end is `Ends`, a property of its own.
`Terminal` has it for the steps of a call: the user presses keys on and on, or
the input ends. In `Padre`, browsing a menu for ever is possible, so ending is
only claimed for a user who at last selects or quits (weak fairness of leaving
the menu, which an ended input disables: this is what `Terminates` finds). The
end that is promised without regard to the user is that after the prompt
(`EndsOncePrompted`). `Cli` and `Unity` have weak fairness of their steps: argp
makes its calls, and the work a test does between its statements returns, which
is an assumption about the tests and not about Unity. No fairness chooses a
favourable outcome of a call.

## Theorems

Every safety property the runs check is a theorem, for all values of the
constants, and so is the refinement.

* `Charset_proofs`, for all lists and capacities.  `TypeCorrect` and
  `WritesStayInBounds` need that a push never makes the array longer than it is,
  and that at "copy" the last byte is the NUL.  `ReturnsWhatIsDenoted` and
  `RefusesTheTooLong` need to know what the scan has still to come: `Scanned`
  says that what is stored, followed by the *reading* of the list from the
  character held in `l` (from the cursor when there is none), is what the list
  denotes, and `Ranged` the same from within a range; once the array is full,
  `Agrees` keeps instead that the list's reading is too long.  The definition
  looks ahead to the character that closes a range while the scan has one
  character of memory, so `HoldsLeft` says that only dashes lie between the two.
  `ClassesArePosix` then needs only what the lists of the classes denote: ranges
  with nothing in common, each of which yields its characters once (`Yields`).
* `Csv_proofs`: lemmas about files, for the two modules that read them.  Counting
  separators (`Before`) gives the piece a stretch is (`PieceIs`), the fields of a
  line from the commas before the scan (`FieldsOfLine`, `FieldsInFile`), and that
  the lines of a beginning of a file are those of the file (`PiecesOfBeginning`).
* `Accounts_proofs`, for all files, words and allocations.  `StringsStay`:
  `StringsStayInLine` alone is not inductive, since nothing in it says where the
  scan will write next.  `Layout` says what the buffer holds on both sides of
  the scanning position (behind it the file, untouched; between `cur` and
  `str` no separator that ends a field), and `Strings` that every string handed
  out has its NUL before `cur`.  Writes happen at `str`, which is not before
  `cur`: the strings stay (`CutKeepsStrings`), and the current field becomes
  one.  At the end `EndOfString` turns a first NUL into the value of `EndOf`.
  `Implements` is the refinement: `RInv` adds that the account under
  construction is the fields of the current line up to the commas passed
  (`Scanned`), so that at a line end the strings the pointers mean are the fields
  the reader takes, and every other step is a stutter.
* `DatabaseFile_proofs`: all safety properties, for all chunk sizes.  The
  capacity is a power-of-two multiple of the chunk (`Capacities`), at most 16 of
  them while the file is read, so that neither the buffer nor an accepted file
  exceeds the limit (`LimitIsKept`).
* `Terminal_proofs`: all safety properties, for all menus, keys
  and buffers.  The cursor is below `Shown`, and the items below `Shown` all
  have a name (a least-element argument), so an index into the truncated menu
  is one into the list.
* `Cli_proofs`: all properties, for command lines of any length.  The invariant
  (`CliInv`) says that the struct is the `Meaning` of the options and arguments
  taken so far and that none of those was rejected; `OneMore` and its kin say
  how `LastArg` changes with one more option.
* `Unity_proofs`, for all suites, assertions and widths of types.
  `UnityTypeCorrect` and `CountsAreWhatIsPrinted` use of `Judge` only that it
  gives a report.  The counters are behind the verdicts printed while a test
  runs, so `CountsWhatItPrinted` is not inductive: `Counted` adds to each counter
  what the flags of the current test have still to become (`Pending`), and that
  the flags are clear between tests.
  `ScriptsReach` and `VerdictsHold` are about the runner, and suppose
  `JudgesRight`: on the calls of the suites an assertion function decides as
  its macro means.  `Progress` says of the place a test is at that
  no statement behind it ends a script, and once `setUp` and the test are left,
  that the flags tell their verdict; every statement does one of five things
  (`Effect`), and so moves the test one place or ends the script (`Effective`).
  `History` keeps the verdicts of the tests before.  `FailuresNamed` supposes,
  too, that the reports name the difference (`JudgesName`); `Detailed` says that
  the current details are the last ones among the statements executed.
* `Padre_proofs`.  `SecretIsForgotten`, `RightAccount`, `TerminalIsRestored`,
  `CrashesAreDefects` and `AsksOnce`: the invariant says at which place a call
  may be under way (`Calls`), that the buffer is empty before the prompt and
  zero after `Clear` (`Buffer`), that a refused database leaves an empty table
  (`Database`), that the menu's items are the table's rows (`Offer`), and where a
  crash can happen (`CrashSites`).  `CrashesAreDefects` speaks of a program that
  is given the memory it allocates; a program that is not is "starved", and
  `TerminalIsRestored` excepts the one that starves within the menu.
  `OnlyTheLastIsSpoiled` adds what is known of the data (`Data`): the
  file read is a beginning of the one on disk, so every row of the table is an
  entry of that one, but for the row made of what follows the last line end; every
  other row has a username (`UsedIsRow`), which `CrashesAreDefects` needs, too.
  `TypeCorrect` and `SuccessPrints` take from the outside that scrypt gives the
  bytes it is asked for (`ScryptGivesBytes`) and that a pattern gives characters
  or is refused (`PatternsGive`); that a password for the command line's account
  is not empty rests on `Meaning`, whose length is one that was taken or 64.  Two theorems are about operators:
  `IterationsDiffer` (a new iteration has a new salt) and `CharactersOfCharset`
  (`to_chars` stays in the charset and reaches all of it).

They rest on the assumptions on the constants: the separators are not words
and differ, files are sequences of tokens, command lines sequences of options
and words, bytes have an even number of bits, test scripts are sequences of the
statements listed, capacities are positive, the limit
is 16 chunks, key codes are naturals, menus are sequences of labels.  Where a
proof goes along a list, it takes the least position at which the claim fails
(`LeastNat`, `FromTheEnd`).

The hypotheses of four theorems are left to TLC.  `JudgesRight` and `JudgesName`
compare the arithmetic of each assertion, with its powers of two and its loops,
with what the macro means: the run `unity` has a suite for every call of the
instance, with which `VerdictsAreRight` and `NamesTheDifference` decide both.
`ScryptGivesBytes` and `PatternsGive` hold of the operators the run `padre` gives
to the constants `Scrypt` and `Members`; that the real enumeration returns a
sequence of characters is the type invariant of `Charset`.

Only model-checked: liveness (`TameReturns`, `Ends`, `PromptEnds`,
`EndsOncePrompted`, `SuiteEnds`), and the assertion functions as just said.

## Not modelled

* The values scrypt computes, what the terminal shows, messages.
* argp's own syntax (long names, abbreviations, `--`, `-lN`): a command line is
  already split into options and arguments.
* Sizes of heap blocks other than the database's, the list's and the charset's,
  and what the bytes stored behind the prompt's buffer (`tui.c:111`) and behind
  the charset's block (`padre.c:153`) do to other memory: the runs show that
  they are stored there.
* A `new_item` that fails for want of memory, which looks like a nameless item,
  and `fprintf` and `puts` that fail.
* Locales in which `isspace` is true of more than the six ASCII characters.
* `padre_test.c`: it calls `to_pwdchars`, which is now `to_chars`.
* Of Unity, what the build leaves out (doubles, `UnityPrintF`, command-line
  options, execution times), and text: the digits `UnityPrintFloat` finds, the
  escapes of `UnityPrintLen` and of chars, the layout of lines.  Floats are
  integers of a small unit with exact sums, so rounding is left out; a NaN as
  the delta of `TEST_ASSERT_FLOAT_WITHIN`, which lets any finite pair pass, is
  not among the inputs.  Assertions outside a test and counters beyond their
  width are not modelled.  Three oddities of this vendored code are known and
  not runs, since nothing in the repository says otherwise: a mask is printed
  with the 32 bits of an int whatever differs above them (this one is in the
  model: `UnityPrintMask`); the `size_t` array macros walk arrays of eight-byte
  elements in steps of four bytes; the bit macros build masks of 32 bits.

## Plan

Written in this order, the most important behaviour first: `Charset`
(what passwords consist of), `Csv`/`CsvReader`/`Accounts` (which account),
`DatabaseFile`, `Tui`/`Terminal`, `Padre`, their proofs, `Cli` and its
composition into `Padre`, Unity, and the proofs, with the refinement and the
properties about data last.  Left:

1. `JudgesRight` as a theorem for the scalar assertions, on lemmas about the
   conversions of `UnityNumbers` with the powers of two as parameters.
2. The same for the array and memory assertions, whose loops end at the first
   element that differs (a least-element argument).
3. `PatternsGive` from the theorems about `Charset`.
