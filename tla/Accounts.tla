------------------------------- MODULE Accounts --------------------------------
(***************************************************************************)
(* parse_accounts of padre.c, which cuts the file into strings where it    *)
(* lies: separators are overwritten by NULs, the fields of an account are  *)
(* pointers into the same buffer, and the buffer goes on behind the file   *)
(* with whatever the allocation held.  One action is one iteration of the  *)
(* loop, that is one token, or the code after it.                          *)
(***************************************************************************)
EXTENDS Csv

CONSTANTS Files, Slacks,
          AVERAGE_DATABASE_ENTRY_SIZE

ASSUME FilesAssumption  == Files \subseteq Seq(Token) /\ Slacks \subseteq Seq(Word)
ASSUME AverageAssumption == AVERAGE_DATABASE_ENTRY_SIZE \in Nat \ {0}

VARIABLES
    file,      \* what was read, never modified: the argument of the reference
    memory,    \* the buffer that holds it
    str, cur,  \* the scanning position, and where the current field begins
    account,   \* the account being put together
    list,      \* the account list: accounts and capacity
    pc         \* "parse", "done", "refused", or "crashed"

vars == <<file, memory, str, cur, account, list, pc>>

nullptr == 0
NullAccount == [domain |-> nullptr, username |-> nullptr, iteration |-> nullptr,
                characters |-> nullptr, length |-> 0]

new_account_list(size) ==
    [accounts |-> <<>>,
     capacity |-> IF size < AVERAGE_DATABASE_ENTRY_SIZE THEN 1
                  ELSE size \div AVERAGE_DATABASE_ENTRY_SIZE]

\* Mutant: the list grows one account late.
push_account_late(lst, a) ==
    [accounts |-> Append(lst.accounts, a),
     capacity |-> IF Len(lst.accounts) > lst.capacity THEN 2 * lst.capacity
                  ELSE lst.capacity]

push_account(lst, a) ==
    [accounts |-> Append(lst.accounts, a),
     capacity |-> IF Len(lst.accounts) = lst.capacity THEN 2 * lst.capacity
                  ELSE lst.capacity]

\* The string a pointer points to, and where its NUL is.
EndOf(p)  == CHOOSE i \in p..Len(memory) :
                /\ memory[i] = NUL
                /\ \A j \in p..i-1 : memory[j] # NUL
String(p) == IF p = nullptr THEN NONE ELSE SubSeq(memory, p, EndOf(p) - 1)

Init == /\ file \in Files
        /\ \E slack \in Slacks : memory = file \o slack \o <<NUL>>
        /\ str = 1
        /\ cur = 1
        /\ account = NullAccount
        /\ list = new_account_list(Len(file))
        /\ pc = "parse"

--------------------------------------------------------------------------------
At(token) == pc = "parse" /\ str <= Len(file) /\ memory[str] = token

\* Mutant: the next field begins behind the position already advanced.
CutHereLate == /\ memory' = [memory EXCEPT ![str] = NUL]
               /\ cur' = str + 2
               /\ str' = str + 1

\* Mutant: the separator is left where it is.
CutHereOpen == /\ cur' = str + 1
               /\ str' = str + 1
               /\ UNCHANGED memory

\* *str = '\0', and the next field begins behind it.
CutHere == /\ memory' = [memory EXCEPT ![str] = NUL]
           /\ cur' = str + 1
           /\ str' = str + 1

EndLine == /\ At(NEWLINE)
           /\ CutHere
           /\ account' = NullAccount
           /\ IF account.domain = nullptr \/ account.username = nullptr
              THEN UNCHANGED list
              ELSE list' = push_account(list, [account EXCEPT !.characters = cur])
           /\ UNCHANGED <<file, pc>>

EndField(field) == /\ At(COMMA)
                   /\ account[field] = nullptr
                   /\ CutHere
                   /\ account' = [account EXCEPT ![field] = cur]
                   /\ UNCHANGED <<file, list, pc>>

EndDomain    == EndField("domain")
EndUsername  == account.domain # nullptr /\ EndField("username")
EndIteration == account.domain # nullptr /\ account.username # nullptr
                  /\ EndField("iteration")

AtLength == /\ At(COMMA)
            /\ nullptr \notin {account.domain, account.username, account.iteration}
            /\ account.length = 0

EndLength == /\ AtLength
             /\ CutHere
             /\ LET length == atoi(SubSeq(memory, cur, str - 1))
                IN  length > 0 /\ account' = [account EXCEPT !.length = length]
             /\ UNCHANGED <<file, list, pc>>

RefuseLength == /\ AtLength
                /\ atoi(SubSeq(memory, cur, str - 1)) <= 0
                /\ memory' = [memory EXCEPT ![str] = NUL]
                /\ list' = [accounts |-> <<>>, capacity |-> 0]
                /\ pc' = "refused"
                /\ UNCHANGED <<file, str, cur, account>>

\* Mutant: the pattern is thought to begin behind the iteration.
PassOverEarly == /\ \/ \E w \in Word : At(w)
                    \/ At(COMMA) /\ account.iteration # nullptr
                 /\ str' = str + 1
                 /\ UNCHANGED <<file, memory, cur, account, list, pc>>

\* Mutant: the comma of a pattern is not stepped over.
PassOverStays == /\ \/ \E w \in Word : At(w) /\ str' = str + 1
                    \/ At(COMMA) /\ account.length # 0 /\ UNCHANGED str
                 /\ UNCHANGED <<file, memory, cur, account, list, pc>>

\* A character of a field, or a comma of the pattern.
PassOver == /\ \/ \E w \in Word : At(w)
               \/ At(COMMA) /\ account.length # 0
            /\ str' = str + 1
            /\ UNCHANGED <<file, memory, cur, account, list, pc>>

EndOfFile == /\ pc = "parse" /\ str > Len(file)
             /\ list' = IF cur < str
                        THEN push_account(list, [account EXCEPT !.characters = cur])
                        ELSE list
             /\ pc' = "done"
             /\ UNCHANGED <<file, memory, str, cur, account>>

\* The account is stored through a null pointer: the first malloc of the list, or
\* the realloc that should make it grow, had no memory, and nobody asked.
NoMemory == /\ \/ At(NEWLINE) /\ nullptr \notin {account.domain, account.username}
               \/ pc = "parse" /\ str > Len(file) /\ cur < str
            /\ list.accounts = <<>> \/ Len(list.accounts) = list.capacity
            /\ pc' = "crashed"
            /\ UNCHANGED <<file, memory, str, cur, account, list>>

Next == \/ EndLine
        \/ EndDomain \/ EndUsername \/ EndIteration
        \/ EndLength \/ RefuseLength
        \/ PassOver \/ EndOfFile \/ NoMemory

\* One thread runs the parser: while it can step, it does.
Spec == Init /\ [][Next]_vars /\ WF_vars(Next)

--------------------------------------------------------------------------------
Pointer == 0..Len(memory)
Account == [domain : Pointer, username : Pointer, iteration : Pointer,
            characters : Pointer, length : Nat]

\* The type invariant.
TypeOK == /\ file \in Seq(Token)
          /\ memory \in Seq(Token \cup {NUL})
          /\ Len(memory) > Len(file)
          /\ str \in 1..Len(file) + 1
          /\ cur \in 1..str
          /\ account \in Account
          /\ list \in [accounts : Seq(Account), capacity : Nat]
          /\ pc \in {"parse", "done", "refused", "crashed"}

\* push_account never stores behind the allocation: the list doubles in time,
\* whatever the estimate the first allocation was made from (padre.c:186-201).
ListInBounds == Len(list.accounts) <= list.capacity

\* A string that was handed out stays what it was cut to be while the scanner
\* goes on writing NULs: no field of a listed account reaches into another line
\* or, but for the last field of an unfinished last line, behind the file.
StaysInLine(p) == \A k \in p..EndOf(p)-1 : memory[k] # NEWLINE

StringsStayInLine ==
    \A i \in 1..Len(list.accounts) :
        LET a == list.accounts[i]
            unfinished == /\ pc = "done" /\ i = Len(list.accounts)
                          /\ file[Len(file)] # NEWLINE
        IN  /\ \A p \in {a.domain, a.username, a.iteration} \ {nullptr} :
                  StaysInLine(p) /\ EndOf(p) <= Len(file)
            /\ a.characters # nullptr
            /\ StaysInLine(a.characters)
            /\ EndOf(a.characters) <= Len(file) \/ unfinished

\* The pointers, read back as strings.
Table == [i \in 1..Len(list.accounts) |->
            LET a == list.accounts[i]
            IN  [domain     |-> String(a.domain),
                 username   |-> String(a.username),
                 iteration  |-> String(a.iteration),
                 characters |-> String(a.characters),
                 length     |-> a.length]]

LinesBefore(i) == Cardinality({j \in 1..i-1 : file[j] = NEWLINE})

\* The strings make up the table that reading the file line by line gives, at
\* every moment of the scan and until it ends.
Reader == INSTANCE CsvReader
            WITH table   <- Table,
                 taken   <- LinesBefore(str),
                 verdict <- IF pc = "parse" THEN "reading" ELSE pc
ImplementsCsv == Reader!Spec

\* Every file is read to its end or refused, whatever is in it: no character
\* stops the scan.
Ends == Reader!Ends
================================================================================
