---------------------------- MODULE Accounts_proofs ----------------------------
(***************************************************************************)
(* Proofs about Accounts for all files, words and first allocations.  The  *)
(* invariant describes the buffer on both sides of the scanning position:  *)
(* behind it the file is untouched; before it lies the current field, with *)
(* no line end in it, and before that nothing is written any more, so that *)
(* the NULs that end the strings handed out stay where they are.           *)
(*                                                                         *)
(* The last part shows that the parser implements CsvReader: read back as  *)
(* strings, what has been stored so far is the table of the lines behind   *)
(* the scanning position, and the fields found so far are the fields of    *)
(* the line it is in (RInv).                                               *)
(***************************************************************************)
EXTENDS Accounts, Csv_proofs

\* In the buffer m, the string at p ends before position q, and in its own line.
CutBefore(m, p, q) == \E e \in p..q-1 : /\ m[e] = NUL
                                        /\ \A k \in p..e-1 : m[k] \notin {NUL, NEWLINE}

FieldsCut(m, a, q) == \A p \in {a.domain, a.username, a.iteration} \ {nullptr} :
                         CutBefore(m, p, q)

\* What the buffer holds.
Layout == /\ Len(file) < Len(memory)
          /\ memory[Len(memory)] = NUL
          /\ \A k \in Len(file)+1..Len(memory)-1 : memory[k] \in Word
          /\ \A k \in str..Len(file) : pc = "parse" => memory[k] = file[k]
          /\ pc # "refused" =>
                /\ \A k \in cur..str-1 : memory[k] \in Word \cup {COMMA}
                /\ cur < str => file[str-1] # NEWLINE
          /\ account.length = 0 /\ pc = "parse" =>
                \A k \in cur..str-1 : memory[k] \in Word

\* The strings of the accounts.
Strings == /\ FieldsCut(memory, account, cur)
           /\ \A i \in 1..Len(list.accounts) :
                 LET a == list.accounts[i]
                 IN  /\ FieldsCut(memory, a, cur)
                     /\ a.characters # nullptr
                     /\ \/ CutBefore(memory, a.characters, cur)
                        \/ /\ pc = "done" /\ i = Len(list.accounts)
                           /\ a.characters = cur /\ cur < str

Allocation == /\ Len(list.accounts) <= list.capacity
              /\ pc # "refused" => list.capacity > 0

IInv == /\ TypeOK
        /\ account.characters = nullptr
        /\ pc = "done" => str = Len(file) + 1
        /\ Layout
        /\ Strings
        /\ Allocation

--------------------------------------------------------------------------------
LEMMA Tokens == /\ NUL \notin Token /\ NEWLINE \notin Word \cup {COMMA}
                /\ NUL \notin Word \cup {COMMA} /\ COMMA \notin Word
  BY TokenAssumption DEF TokenAssumption, Token

LEMMA AtoiType == \A s \in Seq(Word) : atoi(s) \in Int
  BY TokenAssumption DEF TokenAssumption, atoi

\* push_account keeps the list within its allocation.
LEMMA PushAccountFits ==
  ASSUME NEW S, NEW lst \in [accounts : Seq(S), capacity : Nat], NEW a \in S,
         Len(lst.accounts) <= lst.capacity, lst.capacity > 0
  PROVE  LET new == push_account(lst, a)
         IN  /\ new \in [accounts : Seq(S), capacity : Nat]
             /\ new.accounts = Append(lst.accounts, a)
             /\ Len(new.accounts) <= new.capacity
             /\ new.capacity > 0
<1>1. /\ Append(lst.accounts, a) \in Seq(S)
      /\ Len(Append(lst.accounts, a)) = Len(lst.accounts) + 1
  BY AppendProperties
<1>2. QED
  BY <1>1 DEF push_account

\* A quotient of at least one.
LEMMA DivPositive ==
  \A n \in Nat, d \in Nat \ {0} : n >= d => n \div d \in Nat /\ n \div d > 0
  OBVIOUS

LEMMA InitIInv == Init => IInv
<1> SUFFICES ASSUME Init PROVE IInv
  OBVIOUS
<1> USE DEF Init
<1>1. file \in Seq(Token)
  BY FilesAssumption DEF FilesAssumption
<1>2. PICK slack \in Slacks : memory = file \o slack \o <<NUL>>
  OBVIOUS
<1> DEFINE S == Token \cup {NUL}
<1>3. file \in Seq(S) /\ slack \in Seq(S) /\ slack \in Seq(Word) /\ <<NUL>> \in Seq(S)
  BY <1>1, FilesAssumption, SeqMonotonic DEF FilesAssumption, Token
<1>4. /\ file \o slack \in Seq(S)
      /\ Len(file \o slack) = Len(file) + Len(slack)
      /\ \A i \in 1..Len(file) + Len(slack) :
            (file \o slack)[i] = IF i <= Len(file) THEN file[i] ELSE slack[i - Len(file)]
  BY <1>3, ConcatProperties
<1>6. Len(file) \in Nat /\ Len(slack) \in Nat
  BY <1>3, LenProperties
<1>e. NUL \in S
  OBVIOUS
<1> HIDE DEF S
<1> DEFINE text == file \o slack
<1> HIDE DEF text
<1>5. /\ memory \in Seq(S)
      /\ Len(memory) = Len(file) + Len(slack) + 1
      /\ \A i \in 1..Len(memory) :
            memory[i] = IF i <= Len(file) + Len(slack) THEN text[i] ELSE NUL
  <2>1. text \in Seq(S) /\ Len(text) = Len(file) + Len(slack) /\ memory = text \o <<NUL>>
    BY <1>2, <1>4 DEF text
  <2>2. memory = Append(text, NUL)
    BY <1>e, <2>1, AppendIsConcat
  <2>3. Len(text) \in Nat
    BY <2>1, LenProperties
  <2>5. /\ memory \in Seq(S) /\ Len(memory) = Len(text) + 1
        /\ \A i \in 1..Len(text) : memory[i] = text[i]
        /\ memory[Len(text) + 1] = NUL
    <3>1. /\ Append(text, NUL) \in Seq(S) /\ Len(Append(text, NUL)) = Len(text) + 1
          /\ \A i \in 1..Len(text) : Append(text, NUL)[i] = text[i]
          /\ Append(text, NUL)[Len(text) + 1] = NUL
      BY ONLY <1>e, <2>1, AppendProperties
    <3>2. QED
      BY ONLY <2>2, <3>1, Zenon
  <2>6. QED
    <3>1. Len(memory) = Len(file) + Len(slack) + 1
      BY ONLY <2>1, <2>5
    <3>2. ASSUME NEW i \in 1..Len(memory)
          PROVE  memory[i] = IF i <= Len(file) + Len(slack) THEN text[i] ELSE NUL
      <4>1. CASE i <= Len(file) + Len(slack)
        BY ONLY <1>6, <2>1, <2>5, <4>1
      <4>2. CASE i = Len(file) + Len(slack) + 1
        BY ONLY <1>6, <2>1, <2>5, <4>2
      <4>3. QED
        BY ONLY <1>6, <3>1, <4>1, <4>2, i \in 1..Len(memory)
    <3>3. QED
      BY <2>5, <3>1, <3>2
<1>7. list \in [accounts : Seq(Account), capacity : Nat] /\ Allocation
  <2> DEFINE n == Len(file)
             capacity == IF n < AVERAGE_DATABASE_ENTRY_SIZE THEN 1
                         ELSE n \div AVERAGE_DATABASE_ENTRY_SIZE
  <2>1. list = [accounts |-> <<>>, capacity |-> capacity]
    BY DEF new_account_list
  <2>2. capacity \in Nat /\ capacity > 0
    <3> HIDE DEF n
    <3>1. n \in Nat /\ AVERAGE_DATABASE_ENTRY_SIZE \in Nat \ {0}
      BY <1>6, AverageAssumption DEF AverageAssumption, n
    <3>2. QED
      BY ONLY <3>1, DivPositive
  <2> HIDE DEF capacity
  <2>3. QED
    BY <2>1, <2>2 DEF Allocation
<1>8. TypeOK
  BY <1>1, <1>5, <1>6, <1>7 DEF S, TypeOK, NullAccount, nullptr, Account, Pointer
<1>9. Layout
  <2>1. \A k \in 1..Len(slack) : slack[k] \in Word
    BY <1>3, ElementOfSeq
  <2>2. \A k \in 1..Len(file) : memory[k] = file[k]
    BY <1>4, <1>5, <1>6 DEF text
  <2>3. \A k \in Len(file)+1..Len(memory)-1 : memory[k] \in Word
    BY <1>4, <1>5, <1>6, <2>1 DEF text
  <2>4. Len(file) < Len(memory) /\ memory[Len(memory)] = NUL
    BY <1>5, <1>6
  <2>5. QED
    BY <1>6, <2>2, <2>3, <2>4 DEF Layout
<1>10. Strings
  BY DEF Strings, FieldsCut, NullAccount, new_account_list
<1>11. QED
  BY <1>7, <1>8, <1>9, <1>10 DEF IInv, NullAccount

--------------------------------------------------------------------------------
\* Cutting the current field: the strings before it stay, and it becomes one.
LEMMA CutKeepsStrings ==
  ASSUME IInv, pc = "parse", str <= Len(file), CutHere
  PROVE  /\ memory' \in Seq(Token \cup {NUL})
         /\ Len(memory') = Len(memory)
         /\ \A k \in 1..Len(memory) : memory'[k] = IF k = str THEN NUL ELSE memory[k]
         /\ \A p \in Pointer \ {nullptr} : CutBefore(memory, p, cur) => CutBefore(memory', p, cur')
         /\ CutBefore(memory', cur, cur')
<1> USE DEF CutHere, IInv, TypeOK
<1>1. /\ str \in 1..Len(file) /\ cur \in 1..str /\ Len(file) < Len(memory)
      /\ Len(file) \in Nat /\ Len(memory) \in Nat
  BY LenProperties DEF Layout
<1>2. /\ memory' \in Seq(Token \cup {NUL})
      /\ Len(memory') = Len(memory)
      /\ \A k \in 1..Len(memory) : memory'[k] = IF k = str THEN NUL ELSE memory[k]
  BY <1>1, ExceptSeq
<1>3. ASSUME NEW p \in Pointer \ {nullptr}, CutBefore(memory, p, cur)
      PROVE  CutBefore(memory', p, cur')
  <2>1. PICK e \in p..cur-1 : /\ memory[e] = NUL
                              /\ \A k \in p..e-1 : memory[k] \notin {NUL, NEWLINE}
    BY <1>3 DEF CutBefore
  <2>2. p \in 1..Len(memory)
    BY <1>1 DEF Pointer, nullptr
  <2>3. e \in p..cur'-1 /\ memory'[e] = NUL /\ \A k \in p..e-1 : memory'[k] = memory[k]
    BY <1>1, <1>2, <2>1, <2>2
  <2>4. QED
    BY <2>1, <2>3 DEF CutBefore
<1>4. CutBefore(memory', cur, cur')
  <2>1. \A k \in cur..str-1 : memory'[k] \in Word \cup {COMMA}
    BY <1>1, <1>2 DEF Layout
  <2>2. str \in cur..cur'-1 /\ memory'[str] = NUL
    BY <1>1, <1>2
  <2>3. QED
    BY <2>1, <2>2, Tokens DEF CutBefore
<1>5. QED
  BY <1>2, <1>3, <1>4

\* The layout after a cut, and the strings of the accounts listed so far.
LEMMA CutKeepsRest ==
  ASSUME IInv, pc = "parse", str <= Len(file), CutHere, UNCHANGED <<file, pc>>,
         account'.length \in Nat
  PROVE  /\ str' \in 1..Len(file') + 1 /\ cur' \in 1..str'
         /\ Layout'
         /\ \A a \in Account : FieldsCut(memory, a, cur) => FieldsCut(memory', a, cur')
         /\ \A i \in 1..Len(list.accounts) :
               /\ FieldsCut(memory', list.accounts[i], cur')
               /\ CutBefore(memory', list.accounts[i].characters, cur')
<1> USE DEF IInv, TypeOK
<1>1. /\ str \in 1..Len(file) /\ cur \in 1..str /\ Len(file) < Len(memory)
      /\ Len(file) \in Nat /\ Len(memory) \in Nat
  BY LenProperties DEF Layout
<1>2. cur' = str + 1 /\ str' = str + 1 /\ file' = file /\ pc' = "parse"
  BY DEF CutHere
<1>3. Layout'
  <2>1. /\ Len(memory') = Len(memory)
        /\ \A k \in 1..Len(memory) : k # str => memory'[k] = memory[k]
    BY CutKeepsStrings
  <2>2. /\ memory[Len(memory)] = NUL
        /\ \A k \in Len(file)+1..Len(memory)-1 : memory[k] \in Word
        /\ \A k \in str..Len(file) : memory[k] = file[k]
    BY DEF Layout
  <2>3. memory'[Len(memory)] = NUL
    BY <1>1, <2>1, <2>2
  <2>4. ASSUME NEW k \in Len(file)+1..Len(memory)-1 PROVE memory'[k] \in Word
    BY <1>1, <2>1, <2>2
  <2>5. ASSUME NEW k \in str+1..Len(file) PROVE memory'[k] = file[k]
    <3>1. k \in 1..Len(memory) /\ k # str /\ k \in str..Len(file)
      BY ONLY <1>1, k \in str+1..Len(file)
    <3>2. QED
      BY ONLY <2>1, <2>2, <3>1, Zenon
  <2>6. ~(cur' < str') /\ cur'..str'-1 = {}
    <3>1. str \in Int
      BY <1>1
    <3>2. QED
      BY ONLY <1>2, <3>1
  <2>7. QED
    <3>1. Len(file') < Len(memory') /\ memory'[Len(memory')] = NUL
      BY ONLY <1>1, <1>2, <2>1, <2>3
    <3>2. \A k \in Len(file')+1..Len(memory')-1 : memory'[k] \in Word
      BY ONLY <1>2, <2>1, <2>4
    <3>3. \A k \in str'..Len(file') : memory'[k] = file'[k]
      BY ONLY <1>2, <2>5
    <3>4. QED
      BY ONLY <2>6, <3>1, <3>2, <3>3 DEF Layout
<1>4. ASSUME NEW a \in Account, FieldsCut(memory, a, cur)
      PROVE  FieldsCut(memory', a, cur')
  BY <1>4, CutKeepsStrings DEF FieldsCut, Account
<1>5. ASSUME NEW i \in 1..Len(list.accounts)
      PROVE  /\ FieldsCut(memory', list.accounts[i], cur')
             /\ CutBefore(memory', list.accounts[i].characters, cur')
  <2>1. list.accounts[i] \in Account
    BY ElementOfSeq
  <2>2. list.accounts[i].characters \in Pointer \ {nullptr}
    BY <2>1 DEF Account, Strings
  <2>3. /\ FieldsCut(memory, list.accounts[i], cur)
        /\ CutBefore(memory, list.accounts[i].characters, cur)
    BY DEF Strings
  <2>4. QED
    BY <1>4, <2>1, <2>2, <2>3, CutKeepsStrings
<1>6. QED
  BY <1>1, <1>2, <1>3, <1>4, <1>5

\* An account that is pushed comes last, and the others stay as they are.
LEMMA PushKeepsOthers ==
  ASSUME IInv, pc = "parse",
         list' = push_account(list, [account EXCEPT !.characters = cur])
  PROVE  LET a == [account EXCEPT !.characters = cur]
             n == Len(list.accounts)
         IN  /\ list' \in [accounts : Seq(Account), capacity : Nat]
             /\ Len(list'.accounts) <= list'.capacity /\ list'.capacity > 0
             /\ n \in Nat /\ Len(list'.accounts) = n + 1
             /\ \A i \in 1..n : list'.accounts[i] = list.accounts[i]
             /\ list'.accounts[n + 1] = a
             /\ a.characters = cur /\ cur # nullptr
             /\ \A m, q : FieldsCut(m, account, q) => FieldsCut(m, a, q)
<1> DEFINE a == [account EXCEPT !.characters = cur]
<1>1. /\ list \in [accounts : Seq(Account), capacity : Nat] /\ account \in Account
      /\ Len(list.accounts) <= list.capacity /\ list.capacity > 0
      /\ list.accounts \in Seq(Account)
  BY DEF IInv, TypeOK, Allocation
<1>2. cur \in Pointer /\ cur # nullptr
  BY LenProperties DEF IInv, TypeOK, Pointer, nullptr
<1>3. a \in Account /\ a.characters = cur
  BY <1>1, <1>2 DEF Account
<1>4. \A m, q : FieldsCut(m, account, q) => FieldsCut(m, a, q)
  BY <1>1 DEF FieldsCut, Account
<1> HIDE DEF a
<1>5. list' = push_account(list, a)
  BY DEF a
<1>6. /\ list' \in [accounts : Seq(Account), capacity : Nat]
      /\ list'.accounts = Append(list.accounts, a)
      /\ Len(list'.accounts) <= list'.capacity /\ list'.capacity > 0
  <2>1. LET new == push_account(list, a)
        IN  /\ new \in [accounts : Seq(Account), capacity : Nat]
            /\ new.accounts = Append(list.accounts, a)
            /\ Len(new.accounts) <= new.capacity
            /\ new.capacity > 0
    BY ONLY <1>1, <1>3, PushAccountFits, Zenon
  <2>2. QED
    BY ONLY <1>5, <2>1, Zenon
<1>7. /\ Len(list.accounts) \in Nat
      /\ Len(list'.accounts) = Len(list.accounts) + 1
      /\ \A i \in 1..Len(list.accounts) : list'.accounts[i] = list.accounts[i]
      /\ list'.accounts[Len(list.accounts) + 1] = a
  BY ONLY <1>1, <1>3, <1>6, AppendProperties, LenProperties
<1>8. QED
  BY <1>2, <1>3, <1>4, <1>6, <1>7 DEF a

\* The invariant after a cut that leaves the list alone.
LEMMA CutKeepsIInv ==
  ASSUME IInv, pc = "parse", str <= Len(file), CutHere, UNCHANGED <<file, pc, list>>,
         account' \in Account, account'.characters = nullptr,
         FieldsCut(memory', account', cur')
  PROVE  IInv'
<1>1. /\ memory' \in Seq(Token \cup {NUL}) /\ Len(memory') = Len(memory)
      /\ str' \in 1..Len(file') + 1 /\ cur' \in 1..str' /\ Layout'
  BY CutKeepsStrings, CutKeepsRest DEF Account
<1>2. Account' = Account
  BY <1>1 DEF Account, Pointer
<1>3. TypeOK'
  BY <1>1, <1>2 DEF IInv, TypeOK
<1>4. Strings'
  <2>1. \A i \in 1..Len(list.accounts) :
           /\ FieldsCut(memory', list.accounts[i], cur')
           /\ CutBefore(memory', list.accounts[i].characters, cur')
           /\ list.accounts[i].characters # nullptr
    BY CutKeepsRest DEF Account, IInv, Strings
  <2>2. QED
    BY <2>1 DEF Strings
<1>5. QED
  BY <1>1, <1>3, <1>4 DEF IInv, Allocation

--------------------------------------------------------------------------------
LEMMA EndLineIInv == IInv /\ EndLine => IInv'
<1> SUFFICES ASSUME IInv, EndLine PROVE IInv'
  OBVIOUS
<1>1. /\ pc = "parse" /\ str <= Len(file) /\ CutHere /\ UNCHANGED <<file, pc>>
      /\ account' = NullAccount
  BY DEF EndLine, At
<1>3. /\ NullAccount \in Account /\ NullAccount.characters = nullptr
      /\ NullAccount.length \in Nat /\ \A m, q : FieldsCut(m, NullAccount, q)
  BY LenProperties DEF NullAccount, Account, Pointer, nullptr, FieldsCut, IInv, TypeOK
<1>4. CASE UNCHANGED list
  BY ONLY <1>1, <1>3, <1>4, CutKeepsIInv, IInv
<1>5. CASE list' = push_account(list, [account EXCEPT !.characters = cur])
  <2> DEFINE n == Len(list.accounts)
  <2>1. /\ memory' \in Seq(Token \cup {NUL}) /\ Len(memory') = Len(memory)
        /\ str' \in 1..Len(file') + 1 /\ cur' \in 1..str' /\ Layout'
        /\ CutBefore(memory', cur, cur')
        /\ FieldsCut(memory', account, cur')
        /\ \A i \in 1..n : /\ FieldsCut(memory', list.accounts[i], cur')
                           /\ CutBefore(memory', list.accounts[i].characters, cur')
                           /\ list.accounts[i].characters # nullptr
    BY <1>1, <1>3, CutKeepsStrings, CutKeepsRest DEF IInv, TypeOK, Strings
  <2>2. Account' = Account
    BY <2>1 DEF Account, Pointer
  <2>3. /\ list' \in [accounts : Seq(Account), capacity : Nat]
        /\ Len(list'.accounts) <= list'.capacity /\ list'.capacity > 0
        /\ n \in Nat /\ Len(list'.accounts) = n + 1
        /\ \A i \in 1..n : list'.accounts[i] = list.accounts[i]
        /\ list'.accounts[n + 1].characters = cur /\ cur # nullptr
        /\ FieldsCut(memory', list'.accounts[n + 1], cur')
    <3> DEFINE a == [account EXCEPT !.characters = cur]
    <3>1. /\ list' \in [accounts : Seq(Account), capacity : Nat]
          /\ Len(list'.accounts) <= list'.capacity /\ list'.capacity > 0
          /\ n \in Nat /\ Len(list'.accounts) = n + 1
          /\ \A i \in 1..n : list'.accounts[i] = list.accounts[i]
          /\ list'.accounts[n + 1] = a
          /\ a.characters = cur /\ cur # nullptr
          /\ FieldsCut(memory', account, cur') => FieldsCut(memory', a, cur')
      BY <1>1, <1>5, PushKeepsOthers
    <3>2. FieldsCut(memory', account, cur')
      BY <2>1
    <3> HIDE DEF a, n
    <3>3. QED
      BY ONLY <3>1, <3>2
  <2> HIDE DEF n
  <2>4. Strings'
    <3>1. ASSUME NEW i \in 1..n + 1
          PROVE  /\ FieldsCut(memory', list'.accounts[i], cur')
                 /\ CutBefore(memory', list'.accounts[i].characters, cur')
                 /\ list'.accounts[i].characters # nullptr
      <4>1. CASE i \in 1..n
        BY ONLY <2>1, <2>3, <4>1
      <4>2. CASE i = n + 1
        BY ONLY <2>1, <2>3, <4>2
      <4>3. QED
        BY ONLY <2>3, <4>1, <4>2, i \in 1..n + 1
    <3>2. FieldsCut(memory', account', cur')
      BY <1>1, <1>3
    <3>3. QED
      BY <2>3, <3>1, <3>2 DEF Strings
  <2>5. TypeOK'
    BY <1>1, <1>3, <2>1, <2>2, <2>3 DEF IInv, TypeOK
  <2>6. QED
    BY <1>1, <1>3, <2>1, <2>3, <2>4, <2>5 DEF IInv, Allocation
<1>6. QED
  BY <1>4, <1>5 DEF EndLine

LEMMA EndFieldIInv ==
  ASSUME IInv, NEW field \in {"domain", "username", "iteration"}, EndField(field)
  PROVE  IInv'
<1>1. /\ pc = "parse" /\ str <= Len(file) /\ CutHere /\ UNCHANGED <<file, pc, list>>
      /\ account' = [account EXCEPT ![field] = cur]
  BY DEF EndField, At
<1>2. cur \in Pointer /\ account \in Account /\ account.characters = nullptr
  BY LenProperties DEF IInv, TypeOK, Pointer
<1>3. account' \in Account /\ account'.characters = nullptr /\ account'.length \in Nat
  BY <1>1, <1>2 DEF Account
<1>4. FieldsCut(memory', account, cur') /\ CutBefore(memory', cur, cur')
  BY <1>1, <1>2, <1>3, CutKeepsStrings, CutKeepsRest DEF IInv, Strings
<1>5. FieldsCut(memory', account', cur')
  <2>1. {account'.domain, account'.username, account'.iteration}
           \subseteq {account.domain, account.username, account.iteration, cur}
    BY <1>1, <1>2 DEF Account
  <2>2. QED
    BY <1>4, <2>1 DEF FieldsCut
<1>6. QED
  BY ONLY <1>1, <1>3, <1>5, CutKeepsIInv, IInv

LEMMA EndLengthIInv == IInv /\ EndLength => IInv'
<1> SUFFICES ASSUME IInv, EndLength PROVE IInv'
  OBVIOUS
<1>1. /\ pc = "parse" /\ str <= Len(file) /\ CutHere /\ UNCHANGED <<file, pc, list>>
      /\ account.length = 0
  BY DEF EndLength, AtLength, At
<1> DEFINE length == atoi(SubSeq(memory, cur, str - 1))
<1>2. length > 0 /\ account' = [account EXCEPT !.length = length]
  BY DEF EndLength
<1>3. length \in Int
  <2>1. /\ str \in 1..Len(file) /\ cur \in 1..str /\ Len(file) \in Nat
        /\ Len(memory) \in Nat /\ Len(file) < Len(memory)
        /\ memory \in Seq(Token \cup {NUL})
        /\ \A k \in cur..str-1 : memory[k] \in Word
    BY <1>1, LenProperties DEF IInv, TypeOK, Layout
  <2>2. cur \in Nat /\ cur > 0 /\ cur - 1 <= str - 1 /\ str - 1 \in Nat /\ str - 1 <= Len(memory)
    BY ONLY <2>1
  <2>3. SubSeq(memory, cur, str - 1) \in Seq(Word)
    BY ONLY <2>1, <2>2, SubSeqProperties
  <2>4. QED
    BY ONLY <2>3, AtoiType
<1> HIDE DEF length
<1>4. account \in Account /\ account.characters = nullptr
  BY DEF IInv, TypeOK
<1>5. /\ account' \in Account /\ account'.characters = nullptr /\ account'.length \in Nat
      /\ account'.domain = account.domain /\ account'.username = account.username
      /\ account'.iteration = account.iteration
  BY <1>2, <1>3, <1>4 DEF Account
<1>6. FieldsCut(memory', account, cur')
  BY <1>1, <1>4, <1>5, CutKeepsRest DEF IInv, Strings
<1>7. FieldsCut(memory', account', cur')
  BY <1>5, <1>6 DEF FieldsCut
<1>8. QED
  BY ONLY <1>1, <1>5, <1>7, CutKeepsIInv, IInv

LEMMA RefuseLengthIInv == IInv /\ RefuseLength => IInv'
<1> SUFFICES ASSUME IInv, RefuseLength PROVE IInv'
  OBVIOUS
<1>1. /\ pc = "parse" /\ str <= Len(file) /\ pc' = "refused"
      /\ UNCHANGED <<file, str, cur, account>>
      /\ memory' = [memory EXCEPT ![str] = NUL]
      /\ list' = [accounts |-> <<>>, capacity |-> 0]
  BY DEF RefuseLength, AtLength, At
<1>2. /\ str \in 1..Len(file) /\ cur \in 1..str /\ Len(file) < Len(memory)
      /\ Len(file) \in Nat /\ Len(memory) \in Nat
      /\ memory \in Seq(Token \cup {NUL})
  BY <1>1, LenProperties DEF IInv, TypeOK, Layout
<1>3. /\ memory' \in Seq(Token \cup {NUL}) /\ Len(memory') = Len(memory)
      /\ \A k \in 1..Len(memory) : memory'[k] = IF k = str THEN NUL ELSE memory[k]
  BY <1>1, <1>2, ExceptSeq
<1>4. TypeOK'
  <2>1. Account' = Account
    BY <1>3 DEF Account, Pointer
  <2>2. QED
    BY <1>1, <1>3, <2>1 DEF IInv, TypeOK
<1>5. Layout'
  <2>1. memory[Len(memory)] = NUL /\ \A k \in Len(file)+1..Len(memory)-1 : memory[k] \in Word
    BY DEF IInv, Layout
  <2>2. memory'[Len(memory)] = NUL
    BY ONLY <1>2, <1>3, <2>1
  <2>3. ASSUME NEW k \in Len(file)+1..Len(memory)-1 PROVE memory'[k] \in Word
    BY ONLY <1>2, <1>3, <2>1, k \in Len(file)+1..Len(memory)-1
  <2>4. QED
    BY <1>1, <1>2, <1>3, <2>2, <2>3 DEF Layout
<1>6. Strings'
  <2>1. account \in Account /\ FieldsCut(memory, account, cur)
    BY DEF IInv, TypeOK, Strings
  <2>2. ASSUME NEW p \in Pointer \ {nullptr}, CutBefore(memory, p, cur)
        PROVE  CutBefore(memory', p, cur)
    <3>1. PICK e \in p..cur-1 : /\ memory[e] = NUL
                                /\ \A k \in p..e-1 : memory[k] \notin {NUL, NEWLINE}
      BY <2>2 DEF CutBefore
    <3>2. p \in 1..Len(memory)
      BY <1>2 DEF Pointer, nullptr
    <3>3. memory'[e] = NUL /\ \A k \in p..e-1 : memory'[k] = memory[k]
      BY ONLY <1>2, <1>3, <3>1, <3>2
    <3>4. QED
      BY <3>1, <3>3 DEF CutBefore
  <2>3. FieldsCut(memory', account, cur)
    BY <2>1, <2>2 DEF FieldsCut, Account
  <2>4. QED
    BY <1>1, <2>3 DEF Strings
<1>7. QED
  BY <1>1, <1>4, <1>5, <1>6 DEF IInv, Allocation

LEMMA PassOverIInv == IInv /\ PassOver => IInv'
<1> SUFFICES ASSUME IInv, PassOver PROVE IInv'
  OBVIOUS
<1>1. /\ pc = "parse" /\ str <= Len(file) /\ str' = str + 1
      /\ UNCHANGED <<file, memory, cur, account, list, pc>>
      /\ memory[str] \in Word \cup {COMMA}
      /\ account.length = 0 => memory[str] \in Word
  BY DEF PassOver, At
<1>2. /\ str \in 1..Len(file) /\ cur \in 1..str /\ Len(file) \in Nat
      /\ file[str] = memory[str]
  BY <1>1, LenProperties DEF IInv, TypeOK, Layout
<1>3. TypeOK'
  BY <1>1, <1>2 DEF IInv, TypeOK, Account, Pointer
<1>4. Layout'
  <2>1. Layout
    BY DEF IInv
  <2>2. ASSUME NEW k \in cur..str PROVE memory[k] \in Word \cup {COMMA}
    <3>1. k = str \/ k \in cur..str-1
      BY ONLY <1>2, k \in cur..str
    <3>2. QED
      BY <1>1, <2>1, <3>1 DEF Layout
  <2>3. ASSUME account.length = 0, NEW k \in cur..str PROVE memory[k] \in Word
    <3>1. k = str \/ k \in cur..str-1
      BY ONLY <1>2, k \in cur..str
    <3>2. QED
      BY <1>1, <2>1, <2>3, <3>1 DEF Layout
  <2>4. str' - 1 = str /\ file[str] # NEWLINE
    BY <1>1, <1>2, Tokens
  <2>5. \A k \in str'..Len(file) : memory[k] = file[k]
    <3>1. \A k \in str..Len(file) : memory[k] = file[k]
      BY <1>1, <2>1 DEF Layout
    <3>2. QED
      BY ONLY <1>1, <1>2, <3>1
  <2>6. QED
    BY <1>1, <2>1, <2>2, <2>3, <2>4, <2>5 DEF Layout
<1>5. QED
  BY <1>1, <1>3, <1>4 DEF IInv, Strings, Allocation

LEMMA EndOfFileIInv == IInv /\ EndOfFile => IInv'
<1> SUFFICES ASSUME IInv, EndOfFile PROVE IInv'
  OBVIOUS
<1>1. /\ pc = "parse" /\ pc' = "done" /\ str > Len(file)
      /\ UNCHANGED <<file, memory, str, cur, account>>
      /\ list' = IF cur < str
                 THEN push_account(list, [account EXCEPT !.characters = cur])
                 ELSE list
  BY DEF EndOfFile
<1>2. str = Len(file) + 1 /\ Layout'
  BY <1>1, LenProperties DEF IInv, TypeOK, Layout
<1>3. CASE ~(cur < str)
  BY <1>1, <1>2, <1>3 DEF IInv, TypeOK, Account, Pointer, Strings, Allocation
<1>4. CASE cur < str
  <2> DEFINE n == Len(list.accounts)
  <2>1. /\ list' \in [accounts : Seq(Account), capacity : Nat]
        /\ Len(list'.accounts) <= list'.capacity /\ list'.capacity > 0
        /\ n \in Nat /\ Len(list'.accounts) = n + 1
        /\ \A i \in 1..n : list'.accounts[i] = list.accounts[i]
        /\ list'.accounts[n + 1].characters = cur /\ cur # nullptr
        /\ FieldsCut(memory, list'.accounts[n + 1], cur)
    <3> DEFINE a == [account EXCEPT !.characters = cur]
    <3>1. /\ list' \in [accounts : Seq(Account), capacity : Nat]
          /\ Len(list'.accounts) <= list'.capacity /\ list'.capacity > 0
          /\ n \in Nat /\ Len(list'.accounts) = n + 1
          /\ \A i \in 1..n : list'.accounts[i] = list.accounts[i]
          /\ list'.accounts[n + 1] = a
          /\ a.characters = cur /\ cur # nullptr
          /\ FieldsCut(memory, account, cur) => FieldsCut(memory, a, cur)
      BY <1>1, <1>4, PushKeepsOthers
    <3>2. FieldsCut(memory, account, cur)
      BY DEF IInv, Strings
    <3> HIDE DEF a, n
    <3>3. QED
      BY ONLY <3>1, <3>2
  <2>2. \A i \in 1..n : /\ FieldsCut(memory, list.accounts[i], cur)
                        /\ CutBefore(memory, list.accounts[i].characters, cur)
                        /\ list.accounts[i].characters # nullptr
    BY <1>1 DEF IInv, Strings
  <2> HIDE DEF n
  <2>3. ASSUME NEW i \in 1..n + 1
        PROVE  /\ FieldsCut(memory, list'.accounts[i], cur)
               /\ list'.accounts[i].characters # nullptr
               /\ \/ CutBefore(memory, list'.accounts[i].characters, cur)
                  \/ i = n + 1 /\ list'.accounts[i].characters = cur
    <3>1. CASE i \in 1..n
      BY ONLY <2>1, <2>2, <3>1
    <3>2. CASE i = n + 1
      BY ONLY <2>1, <3>2
    <3>3. QED
      BY ONLY <2>1, <3>1, <3>2, i \in 1..n + 1
  <2>4. Strings'
    <3>1. FieldsCut(memory, account, cur)
      BY DEF IInv, Strings
    <3>2. QED
      BY <1>1, <1>4, <2>1, <2>3, <3>1 DEF Strings
  <2>5. TypeOK'
    BY <1>1, <2>1 DEF IInv, TypeOK, Account, Pointer
  <2>6. QED
    BY <1>1, <1>2, <2>1, <2>4, <2>5 DEF IInv, Allocation
<1>5. QED
  BY <1>3, <1>4

LEMMA NextIInv == IInv /\ [Next]_vars => IInv'
<1> SUFFICES ASSUME IInv, [Next]_vars PROVE IInv'
  OBVIOUS
<1>1. CASE EndLine
  BY <1>1, EndLineIInv
<1>2. CASE EndDomain
  BY <1>2, EndFieldIInv DEF EndDomain
<1>3. CASE EndUsername
  BY <1>3, EndFieldIInv DEF EndUsername
<1>4. CASE EndIteration
  BY <1>4, EndFieldIInv DEF EndIteration
<1>5. CASE EndLength
  BY <1>5, EndLengthIInv
<1>6. CASE RefuseLength
  BY <1>6, RefuseLengthIInv
<1>7. CASE PassOver
  BY <1>7, PassOverIInv
<1>8. CASE EndOfFile
  BY <1>8, EndOfFileIInv
<1>9. CASE UNCHANGED vars
  BY <1>9 DEF vars, IInv, TypeOK, Account, Pointer, Layout, Strings, Allocation
<1>10. CASE NoMemory
  <2>1. /\ pc = "parse" /\ pc' = "crashed"
        /\ UNCHANGED <<file, memory, str, cur, account, list>>
    BY <1>10 DEF NoMemory, At
  <2>2. TypeOK' /\ account'.characters = nullptr /\ Layout' /\ Allocation'
    BY <2>1 DEF IInv, TypeOK, Account, Pointer, Layout, Allocation
  <2>3. Strings'
    BY <2>1 DEF IInv, Strings
  <2>4. QED
    BY <2>1, <2>2, <2>3 DEF IInv
<1>11. QED
  BY <1>1, <1>2, <1>3, <1>4, <1>5, <1>6, <1>7, <1>8, <1>9, <1>10 DEF Next

LEMMA Invariance == Spec => []IInv
  BY InitIInv, NextIInv, PTL DEF Spec

--------------------------------------------------------------------------------
\* Every variable of the parser keeps its type.
THEOREM TypeCorrect == Spec => []TypeOK
  BY Invariance, PTL DEF IInv

\* push_account always finds room for the account it stores.
THEOREM ListStaysInBounds == Spec => []ListInBounds
<1>1. IInv => ListInBounds
  BY DEF IInv, Allocation, ListInBounds
<1>2. QED
  BY <1>1, Invariance, PTL

\* The string at p ends at the first NUL.
LEMMA EndOfString ==
  ASSUME NEW p \in Int, NEW e \in p..Len(memory), memory[e] = NUL,
         \A k \in p..e-1 : memory[k] \notin {NUL, NEWLINE}
  PROVE  EndOf(p) = e /\ StaysInLine(p)
<1>1. e \in p..Len(memory) /\ memory[e] = NUL /\ \A j \in p..e-1 : memory[j] # NUL
  OBVIOUS
<1>2. ASSUME NEW i \in p..Len(memory), memory[i] = NUL, \A j \in p..i-1 : memory[j] # NUL
      PROVE  i = e
  <2>1. p \in Int /\ e \in Int /\ i \in Int /\ p <= e /\ p <= i
    OBVIOUS
  <2>2. ~(i < e)
    <3>1. i < e => i \in p..e-1
      BY ONLY <2>1
    <3>2. QED
      BY ONLY <1>1, <1>2, <3>1
  <2>3. ~(e < i)
    <3>1. e < i => e \in p..i-1
      BY ONLY <2>1
    <3>2. QED
      BY ONLY <1>1, <1>2, <3>1
  <2>4. QED
    BY ONLY <2>1, <2>2, <2>3
<1>3. EndOf(p) = e
  BY ONLY <1>1, <1>2, Zenon DEF EndOf
<1>4. QED
  BY <1>3 DEF StaysInLine

\* A string that was cut before the scanning position ends in the file.
LEMMA CutStringsEnd ==
  ASSUME IInv, NEW p \in Pointer \ {nullptr}, CutBefore(memory, p, cur)
  PROVE  StaysInLine(p) /\ EndOf(p) <= Len(file)
<1>1. PICK e \in p..cur-1 : /\ memory[e] = NUL
                            /\ \A k \in p..e-1 : memory[k] \notin {NUL, NEWLINE}
  BY DEF CutBefore
<1>2. /\ cur \in Int /\ Len(file) \in Nat /\ Len(memory) \in Nat
      /\ cur <= Len(file) + 1 /\ Len(file) < Len(memory)
  BY LenProperties DEF IInv, TypeOK
<1>3. p \in Int /\ e \in p..Len(memory) /\ e <= Len(file)
  BY ONLY <1>1, <1>2, p \in Pointer \ {nullptr} DEF Pointer
<1>4. QED
  BY <1>1, <1>3, EndOfString

\* The field that the end of the file leaves open ends at the end of the buffer.
LEMMA OpenStringEnds ==
  ASSUME IInv, pc = "done", cur < str
  PROVE  StaysInLine(cur) /\ file[Len(file)] # NEWLINE
<1>1. /\ cur \in Int /\ str = Len(file) + 1 /\ cur <= Len(file)
      /\ Len(file) \in Nat /\ Len(memory) \in Nat /\ Len(file) < Len(memory)
  BY LenProperties DEF IInv, TypeOK
<1>2. /\ memory[Len(memory)] = NUL
      /\ \A k \in Len(file)+1..Len(memory)-1 : memory[k] \in Word
      /\ \A k \in cur..Len(file) : memory[k] \in Word \cup {COMMA}
      /\ file[Len(file)] # NEWLINE
  BY <1>1 DEF IInv, Layout
<1>3. ASSUME NEW k \in cur..Len(memory)-1 PROVE memory[k] \notin {NUL, NEWLINE}
  <2>1. k \in cur..Len(file) \/ k \in Len(file)+1..Len(memory)-1
    BY ONLY <1>1, k \in cur..Len(memory)-1
  <2>2. QED
    BY ONLY <1>2, <2>1, Tokens, Zenon
<1>4. Len(memory) \in cur..Len(memory)
  BY <1>1
<1>5. QED
  BY <1>1, <1>2, <1>3, <1>4, EndOfString

\* No field of a listed account reaches into another line, or behind the file.
THEOREM StringsStay == Spec => []StringsStayInLine
<1>1. ASSUME IInv PROVE StringsStayInLine
  <2> SUFFICES ASSUME NEW i \in 1..Len(list.accounts)
      PROVE LET a == list.accounts[i]
                unfinished == /\ pc = "done" /\ i = Len(list.accounts)
                              /\ file[Len(file)] # NEWLINE
            IN  /\ \A p \in {a.domain, a.username, a.iteration} \ {nullptr} :
                      StaysInLine(p) /\ EndOf(p) <= Len(file)
                /\ a.characters # nullptr
                /\ StaysInLine(a.characters)
                /\ EndOf(a.characters) <= Len(file) \/ unfinished
    BY DEF StringsStayInLine
  <2> DEFINE a == list.accounts[i]
  <2>1. a \in Account
    BY <1>1, ElementOfSeq DEF IInv, TypeOK
  <2>2. /\ FieldsCut(memory, a, cur) /\ a.characters # nullptr
        /\ \/ CutBefore(memory, a.characters, cur)
           \/ /\ pc = "done" /\ i = Len(list.accounts)
              /\ a.characters = cur /\ cur < str
    BY <1>1 DEF IInv, Strings
  <2> HIDE DEF a
  <2>3. \A p \in {a.domain, a.username, a.iteration} \ {nullptr} :
           StaysInLine(p) /\ EndOf(p) <= Len(file)
    BY <1>1, <2>1, <2>2, CutStringsEnd DEF FieldsCut, Account
  <2>4. CASE CutBefore(memory, a.characters, cur)
    <3>1. StaysInLine(a.characters) /\ EndOf(a.characters) <= Len(file)
      BY <1>1, <2>1, <2>2, <2>4, CutStringsEnd DEF Account
    <3>2. QED
      BY <2>2, <2>3, <3>1 DEF a
  <2>5. CASE ~CutBefore(memory, a.characters, cur)
    <3>1. /\ StaysInLine(a.characters) /\ file[Len(file)] # NEWLINE
          /\ pc = "done" /\ i = Len(list.accounts)
      BY <1>1, <2>2, <2>5, OpenStringEnds
    <3>2. QED
      BY <2>2, <2>3, <3>1 DEF a
  <2>6. QED
    BY <2>4, <2>5
<1>2. QED
  BY <1>1, Invariance, PTL
--------------------------------------------------------------------------------

\* The reference speaks of the same file in the same words.
LEMMA ReaderSame ==
  /\ \A f : Reader!Lines(f) = Lines(f)
  /\ \A f, k : Reader!Line(f, k) = Line(f, k)
  /\ \A f : Reader!Fragment(f) = Fragment(f)
  /\ \A l : Reader!Refused(l) <=> Refused(l)
  /\ \A l : Reader!Skipped(l) <=> Skipped(l)
  /\ \A l : Reader!EntryOf(l) = EntryOf(l)
  /\ \A l : Reader!Rest(l) = Rest(l)
<1>1. /\ \A s, c : Reader!Positions(s, c) = Positions(s, c)
      /\ \A s, c : Reader!Count(s, c) = Count(s, c)
      /\ \A s, c, k : Reader!Nth(s, c, k) = Nth(s, c, k)
      /\ \A l : Reader!atoi(l) = atoi(l)
  <2>0. ASSUME NEW S PROVE Reader!Cardinality(S) = Cardinality(S)
    BY ONLY Zenon DEF Reader!Cardinality, Cardinality
  <2>1. ASSUME NEW s, NEW c PROVE Reader!Positions(s, c) = Positions(s, c)
    BY DEF Reader!Positions, Positions
  <2>2. \A s, c : Reader!Count(s, c) = Count(s, c)
    BY <2>0, <2>1 DEF Reader!Count, Count
  <2>3. ASSUME NEW s, NEW c, NEW k PROVE Reader!Nth(s, c, k) = Nth(s, c, k)
    <3>1. Reader!Positions(s, c) = Positions(s, c)
      BY <2>1
    <3>2. QED
      BY ONLY <2>0, <3>1, Zenon DEF Reader!Nth, Nth
  <2>4. \A l : Reader!atoi(l) = atoi(l)
    BY DEF Reader!atoi, atoi
  <2>5. QED
    BY ONLY <2>1, <2>2, <2>3, <2>4
<1>2. /\ \A s, c, k : Reader!PieceStart(s, c, k) = PieceStart(s, c, k)
      /\ \A s, c, k : Reader!Piece(s, c, k) = Piece(s, c, k)
  BY <1>1 DEF Reader!PieceStart, PieceStart, Reader!Piece, Piece
<1>3. /\ \A l, k : Reader!Field(l, k) = Field(l, k)
      /\ \A l : Reader!Rest(l) = Rest(l)
  BY <1>1, <1>2 DEF Reader!Field, Field, Reader!Rest, Rest
<1>4. \A l : Reader!Length(l) = Length(l)
  BY <1>1, <1>3 DEF Reader!Length, Length
<1>5. QED
  BY <1>1, <1>2, <1>3, <1>4 DEF Reader!Lines, Lines, Reader!Line, Line, Reader!Fragment,
     Fragment, Reader!Refused, Refused, Reader!Skipped, Skipped, Reader!EntryOf, EntryOf
--------------------------------------------------------------------------------
\* The table in any buffer m, and for any list l.
EndIn(m, p)    == CHOOSE i \in p..Len(m) :
                    /\ m[i] = NUL
                    /\ \A j \in p..i-1 : m[j] # NUL
StringIn(m, p) == IF p = nullptr THEN NONE ELSE SubSeq(m, p, EndIn(m, p) - 1)
RowIn(m, a)    == [domain     |-> StringIn(m, a.domain),
                   username   |-> StringIn(m, a.username),
                   iteration  |-> StringIn(m, a.iteration),
                   characters |-> StringIn(m, a.characters),
                   length     |-> a.length]
TableIn(m, l)  == [i \in 1..Len(l) |-> RowIn(m, l[i])]

LEMMA TableIs == /\ Table = TableIn(memory, list.accounts)
                 /\ Table' = TableIn(memory', list'.accounts)
  BY DEF Table, String, EndOf, TableIn, RowIn, StringIn, EndIn

LEMMA StringIs ==
  ASSUME NEW m, NEW p \in Int, p # nullptr, NEW e \in p..Len(m), m[e] = NUL,
         \A k \in p..e-1 : m[k] # NUL
  PROVE  StringIn(m, p) = SubSeq(m, p, e - 1)
<1>1. ASSUME NEW i \in p..Len(m), m[i] = NUL, \A j \in p..i-1 : m[j] # NUL
      PROVE  i = e
  <2>1. p \in Int /\ e \in Int /\ i \in Int /\ p <= e /\ p <= i
    OBVIOUS
  <2>2. ~(i < e)
    <3>1. i < e => i \in p..e-1
      BY ONLY <2>1
    <3>2. QED
      BY <1>1, <3>1
  <2>3. ~(e < i)
    <3>1. e < i => e \in p..i-1
      BY ONLY <2>1
    <3>2. QED
      BY <1>1, <3>1
  <2>4. QED
    BY ONLY <2>1, <2>2, <2>3
<1>2. EndIn(m, p) = e
  BY <1>1, Zenon DEF EndIn
<1>3. QED
  BY <1>2 DEF StringIn

\* What is written from q on does not change strings cut before q.
LEMMA StringStays ==
  ASSUME NEW m, NEW o, NEW q \in Int, q <= Len(m), Len(m) \in Int, Len(o) = Len(m),
         \A k \in 1..q-1 : o[k] = m[k],
         NEW p \in Nat, p # nullptr, CutBefore(m, p, q)
  PROVE  StringIn(o, p) = StringIn(m, p)
<1>1. PICK e \in p..q-1 : m[e] = NUL /\ \A k \in p..e-1 : m[k] \notin {NUL, NEWLINE}
  BY DEF CutBefore
<1>2. p > 0 /\ e \in p..Len(m) /\ e \in p..Len(o) /\ e \in 1..q-1 /\ e - 1 \in Int
      /\ \A k \in p..e-1 : k \in 1..q-1
  BY <1>1 DEF nullptr
<1>3. StringIn(m, p) = SubSeq(m, p, e - 1)
  BY <1>1, <1>2, StringIs
<1>4. StringIn(o, p) = SubSeq(o, p, e - 1)
  <2>1. o[e] = NUL /\ \A k \in p..e-1 : o[k] # NUL
    BY <1>1, <1>2
  <2>2. QED
    BY <1>2, <2>1, StringIs
<1>5. SubSeq(o, p, e - 1) = SubSeq(m, p, e - 1)
  <2>1. \A k \in p..e-1 : o[k] = m[k - p + p]
    BY <1>2
  <2>2. QED
    BY <1>2, <2>1, SameStretch
<1>6. QED
  BY <1>3, <1>4, <1>5

LEMMA TableStays ==
  ASSUME IInv, pc = "parse", NEW o, Len(o) = Len(memory),
         \A k \in 1..cur-1 : o[k] = memory[k]
  PROVE  /\ TableIn(o, list.accounts) = TableIn(memory, list.accounts)
         /\ \A p \in {account.domain, account.username, account.iteration} :
               StringIn(o, p) = StringIn(memory, p)
<1>1. /\ cur \in Int /\ Len(memory) \in Int /\ cur <= Len(memory)
      /\ account \in Account /\ list.accounts \in Seq(Account)
      /\ Pointer \subseteq Nat
  BY LenProperties DEF IInv, TypeOK, Pointer
<1>2. ASSUME NEW p \in Pointer, p # nullptr => CutBefore(memory, p, cur)
      PROVE  StringIn(o, p) = StringIn(memory, p)
  <2>1. CASE p = nullptr
    BY <2>1 DEF StringIn
  <2>2. CASE p # nullptr
    BY <1>1, <1>2, <2>2, StringStays
  <2>3. QED
    BY <2>1, <2>2
<1>3. ASSUME NEW i \in 1..Len(list.accounts)
      PROVE  RowIn(o, list.accounts[i]) = RowIn(memory, list.accounts[i])
  <2> DEFINE a == list.accounts[i]
  <2>1. a \in Account
    BY <1>1, ElementOfSeq
  <2>2. FieldsCut(memory, a, cur) /\ CutBefore(memory, a.characters, cur)
    BY DEF IInv, Strings
  <2> HIDE DEF a
  <2>3. \A p \in {a.domain, a.username, a.iteration, a.characters} :
           p \in Pointer /\ (p # nullptr => CutBefore(memory, p, cur))
    BY <2>1, <2>2 DEF Account, FieldsCut
  <2>4. \A p \in {a.domain, a.username, a.iteration, a.characters} :
           StringIn(o, p) = StringIn(memory, p)
    BY <1>2, <2>3
  <2>5. RowIn(o, a) = RowIn(memory, a)
    BY <2>4 DEF RowIn
  <2>6. QED
    BY <2>5 DEF a
<1>4. TableIn(o, list.accounts) = TableIn(memory, list.accounts)
  BY <1>3, Zenon DEF TableIn
<1>5. \A p \in {account.domain, account.username, account.iteration} :
         p \in Pointer /\ (p # nullptr => CutBefore(memory, p, cur))
  BY <1>1 DEF Account, IInv, Strings, FieldsCut
<1>6. QED
  BY <1>2, <1>4, <1>5

\* A new row at the end of the table.
LEMMA TableGrows ==
  ASSUME NEW S, NEW l \in Seq(S), NEW m, NEW a \in S
  PROVE  TableIn(m, Append(l, a)) = Append(TableIn(m, l), RowIn(m, a))
<1> DEFINE n == Len(l)
           R == {RowIn(m, x) : x \in S}
           t == TableIn(m, l)
           u == TableIn(m, Append(l, a))
<1>1. n \in Nat /\ \A i \in 1..n : l[i] \in S
  BY LenProperties, ElementOfSeq
<1>2. /\ Len(Append(l, a)) = n + 1
      /\ \A i \in 1..n : Append(l, a)[i] = l[i]
      /\ Append(l, a)[n + 1] = a
  BY AppendProperties
<1>3. \A x \in S : RowIn(m, x) \in R
  OBVIOUS
<1>4. t = [i \in 1..n |-> RowIn(m, l[i])] /\ u = [i \in 1..n + 1 |-> RowIn(m, Append(l, a)[i])]
  BY <1>2 DEF TableIn
<1> HIDE DEF n, R, t, u
<1>5. t \in Seq(R) /\ Len(t) = n
  <2>1. t \in [1..n -> R]
    BY ONLY <1>1, <1>3, <1>4
  <2>2. t \in Seq(R)
    BY ONLY <1>1, <2>1, SeqDef
  <2>3. DOMAIN t = 1..n /\ Len(t) \in Nat /\ DOMAIN t = 1..Len(t)
    BY <2>1, <2>2, LenProperties
  <2>4. QED
    BY ONLY <1>1, <2>2, <2>3
<1>6. u \in Seq(R) /\ Len(u) = n + 1
  <2>1. \A i \in 1..n + 1 : Append(l, a)[i] \in S
    <3>1. \A i \in 1..n + 1 : i \in 1..n \/ i = n + 1
      BY ONLY <1>1
    <3>2. QED
      BY <1>1, <1>2, <3>1
  <2>2. u \in [1..n + 1 -> R]
    BY ONLY <1>3, <1>4, <2>1
  <2>3. u \in Seq(R)
    BY ONLY <1>1, <2>2, SeqDef
  <2>4. DOMAIN u = 1..n + 1 /\ Len(u) \in Nat /\ DOMAIN u = 1..Len(u)
    BY <2>2, <2>3, LenProperties
  <2>5. QED
    BY ONLY <1>1, <2>3, <2>4
<1>7. /\ Append(t, RowIn(m, a)) \in Seq(R) /\ Len(Append(t, RowIn(m, a))) = n + 1
      /\ \A i \in 1..n : Append(t, RowIn(m, a))[i] = t[i]
      /\ Append(t, RowIn(m, a))[n + 1] = RowIn(m, a)
  <2>1. RowIn(m, a) \in R
    BY <1>3
  <2>2. QED
    BY ONLY <1>5, <2>1, AppendProperties
<1>8. \A i \in 1..n + 1 : u[i] = Append(t, RowIn(m, a))[i]
  <2>1. ASSUME NEW i \in 1..n PROVE u[i] = Append(t, RowIn(m, a))[i]
    <3>1. i \in 1..n + 1
      BY ONLY <1>1, i \in 1..n
    <3>2. u[i] = RowIn(m, l[i]) /\ t[i] = RowIn(m, l[i])
      BY ONLY <1>2, <1>4, <3>1, i \in 1..n
    <3>3. QED
      BY ONLY <1>7, <3>2, i \in 1..n
  <2>2. u[n + 1] = RowIn(m, a)
    BY ONLY <1>1, <1>2, <1>4
  <2>3. \A i \in 1..n + 1 : i \in 1..n \/ i = n + 1
    BY ONLY <1>1
  <2>4. QED
    BY ONLY <1>7, <2>1, <2>2, <2>3
<1>9. u = Append(t, RowIn(m, a))
  BY ONLY <1>6, <1>7, <1>8, SeqEqual
<1>10. QED
  BY <1>9 DEF t, u
--------------------------------------------------------------------------------
\* The account of a line of which n fields are found, the commas at c[1] to c[n].
Found(f, n, c) ==
    [domain     |-> IF n >= 1 THEN c[0] + 1 ELSE nullptr,
     username   |-> IF n >= 2 THEN c[1] + 1 ELSE nullptr,
     iteration  |-> IF n >= 3 THEN c[2] + 1 ELSE nullptr,
     characters |-> nullptr,
     length     |-> IF n >= 4 THEN atoi(SubSeq(f, c[3] + 1, c[4] - 1)) ELSE 0]

\* In the line that begins behind c[0], the scan has found n fields, at whose
\* commas, c[1] to c[n], it has cut; the strings are those fields of the file.
Scanned(n, c) ==
    /\ c[0] \in 0..str-1
    /\ c[0] = 0 \/ file[c[0]] = NEWLINE
    /\ \A k \in c[0]+1..str-1 : file[k] # NEWLINE
    /\ \A j \in 1..n : /\ c[j] \in c[j-1]+1..str-1
                       /\ file[c[j]] = COMMA
                       /\ \A k \in c[j-1]+1..c[j]-1 : file[k] \in Word
    /\ \A j \in 1..n : j <= 3 => StringIn(memory, c[j-1]+1) = SubSeq(file, c[j-1]+1, c[j]-1)
    /\ cur = c[n] + 1
    /\ \A k \in cur..str-1 : memory[k] = file[k] /\ (n < 4 => file[k] \in Word)
    /\ account = Found(file, n, c)
    /\ n = 4 => account.length > 0

Tally == 0..4
Marks == [0..4 -> Nat]

\* What lies behind the file.
Behind == \E slack \in Slacks : /\ Len(memory) = Len(file) + Len(slack) + 1
                                /\ \A k \in 1..Len(slack) : memory[Len(file) + k] = slack[k]

\* The invariant of the refinement.
RInv == /\ IInv
        /\ Behind
        /\ pc = "parse" => \E n \in Tally, c \in Marks : Scanned(n, c)

\* The positions the scan works with.
LEMMA Places ==
  ASSUME IInv, pc = "parse"
  PROVE  /\ Len(file) \in Nat /\ Len(memory) \in Nat /\ Len(file) < Len(memory)
         /\ str \in Nat /\ cur \in Nat /\ 1 <= cur /\ cur <= str /\ str <= Len(file) + 1
         /\ file \in Seq(Token)
         /\ \A k \in 1..Len(file) : file[k] \in Token
         /\ \A k \in str..Len(file) : memory[k] = file[k]
<1>1. file \in Seq(Token)
  BY DEF IInv, TypeOK
<1>2. QED
  BY <1>1, LenProperties, ElementOfSeq DEF IInv, TypeOK, Layout

LEMMA MarksType ==
  ASSUME NEW n \in Tally, NEW c \in Marks
  PROVE  /\ n \in Nat
         /\ \A j \in 0..n : c[j] \in Nat
         /\ \A j \in 1..n : c[j] \in Nat /\ c[j-1] \in Nat
  BY DEF Tally, Marks

\* How many fields there are shows in the account.
LEMMA HowMany ==
  ASSUME NEW n \in Tally, NEW c \in Marks, Scanned(n, c)
  PROVE  /\ account.domain = nullptr <=> n < 1
         /\ account.username = nullptr <=> n < 2
         /\ account.iteration = nullptr <=> n < 3
         /\ account.length = 0 <=> n < 4
<1>1. c[0] + 1 # 0 /\ c[1] + 1 # 0 /\ c[2] + 1 # 0 /\ n \in 0..4
  BY DEF Tally, Marks
<1>2. /\ account.domain = IF n >= 1 THEN c[0] + 1 ELSE nullptr
      /\ account.username = IF n >= 2 THEN c[1] + 1 ELSE nullptr
      /\ account.iteration = IF n >= 3 THEN c[2] + 1 ELSE nullptr
      /\ ~(n >= 4) => account.length = 0
      /\ n = 4 => account.length > 0
  BY DEF Scanned, Found
<1>3. account.length = 0 <=> n < 4
  <2>1. n = 4 => ~(account.length = 0)
    BY <1>2
  <2>2. n < 4 => ~(n >= 4)
    BY <1>1
  <2>3. n < 4 \/ n = 4
    BY <1>1
  <2>4. QED
    BY <1>1, <1>2, <2>1, <2>2, <2>3
<1>4. QED
  BY <1>1, <1>2, <1>3 DEF nullptr

\* One more field: the comma at str is cut.
LEMMA FieldFound ==
  ASSUME IInv, NEW n \in 0..3, NEW c \in Marks, Scanned(n, c), At(COMMA), CutHere,
         file' = file, NEW d, d = [c EXCEPT ![n + 1] = str],
         account' = Found(file, n + 1, d), n = 3 => account'.length > 0
  PROVE  d \in Marks /\ Scanned(n + 1, d)'
<1>1. /\ pc = "parse" /\ str <= Len(file) /\ memory[str] = COMMA
      /\ cur' = str + 1 /\ str' = str + 1
      /\ memory' \in Seq(Token \cup {NUL})
      /\ Len(memory') = Len(memory)
      /\ \A k \in 1..Len(memory) : memory'[k] = IF k = str THEN NUL ELSE memory[k]
  BY CutKeepsStrings DEF At, CutHere
<1>2. /\ Len(file) \in Nat /\ Len(memory) \in Nat /\ Len(file) < Len(memory)
      /\ str \in Nat /\ cur \in Nat /\ 1 <= cur /\ cur <= str
      /\ memory[str] = file[str]
  BY <1>1, Places
<1>3. /\ d \in Marks /\ d[n + 1] = str /\ \A j \in 0..n : d[j] = c[j] /\ d[j] \in Nat
      /\ n + 1 \in Nat /\ n \in Nat
  BY <1>2 DEF Marks
<1>4. /\ c[0] \in 0..str-1
      /\ c[0] = 0 \/ file[c[0]] = NEWLINE
      /\ \A k \in c[0]+1..str-1 : file[k] # NEWLINE
      /\ cur = c[n] + 1
      /\ \A k \in cur..str-1 : memory[k] = file[k] /\ file[k] \in Word
  BY DEF Scanned
<1>5. d[0] \in 0..str'-1 /\ (d[0] = 0 \/ file'[d[0]] = NEWLINE)
  BY <1>1, <1>2, <1>3, <1>4
<1>6. \A k \in d[0]+1..str'-1 : file'[k] # NEWLINE
  <2>1. SUFFICES ASSUME NEW k \in d[0]+1..str PROVE file[k] # NEWLINE
    BY <1>1, <1>2
  <2>2. k \in c[0]+1..str-1 \/ k = str
    BY <1>2, <1>3, <1>4
  <2>3. QED
    BY <1>1, <1>2, <1>4, <2>2, TokenAssumption DEF TokenAssumption
<1>7. ASSUME NEW j \in 1..n + 1
      PROVE  /\ d[j] \in d[j-1]+1..str'-1
             /\ file'[d[j]] = COMMA
             /\ \A k \in d[j-1]+1..d[j]-1 : file'[k] \in Word
  <2>1. CASE j \in 1..n
    <3>1. j \in 0..n /\ j - 1 \in 0..n
      BY <1>3, <2>1
    <3>2. d[j] = c[j] /\ d[j-1] = c[j-1] /\ c[j] \in Nat /\ c[j-1] \in Nat
      BY <1>3, <3>1
    <3>3. /\ c[j] \in c[j-1]+1..str-1 /\ file[c[j]] = COMMA
          /\ \A k \in c[j-1]+1..c[j]-1 : file[k] \in Word
      BY <2>1 DEF Scanned
    <3>4. QED
      BY <1>1, <1>2, <3>2, <3>3
  <2>2. CASE j = n + 1
    <3>1. d[j] = str /\ d[j-1] = c[n] /\ c[n] \in Nat /\ c[n] + 1 = cur
      BY <1>3, <1>4, <2>2
    <3>2. QED
      BY <1>1, <1>2, <1>4, <3>1
  <2>3. QED
    BY <1>3, <2>1, <2>2
<1>8. ASSUME NEW j \in 1..n + 1, j <= 3
      PROVE  StringIn(memory', d[j-1]+1) = SubSeq(file', d[j-1]+1, d[j]-1)
  <2>1. CASE j \in 1..n
    <3>1. j \in 0..n /\ j - 1 \in 0..n
      BY <1>3, <2>1
    <3>2. d[j] = c[j] /\ d[j-1] = c[j-1]
      BY <1>3, <3>1
    <3>3. StringIn(memory, c[j-1]+1) = SubSeq(file, c[j-1]+1, c[j]-1)
      BY <1>8, <2>1 DEF Scanned
    <3>4. c[j-1]+1 \in {account.domain, account.username, account.iteration}
      BY <1>3, <1>8, <2>1 DEF Scanned, Found
    <3>5. \A k \in 1..cur-1 : memory'[k] = memory[k]
      BY <1>1, <1>2
    <3>6. StringIn(memory', c[j-1]+1) = StringIn(memory, c[j-1]+1)
      BY <1>1, <3>4, <3>5, TableStays
    <3>7. QED
      BY <3>2, <3>3, <3>6
  <2>2. CASE j = n + 1
    <3>1. d[j] = str /\ d[j-1]+1 = cur
      BY <1>3, <1>4, <2>2
    <3>2. /\ memory'[str] = NUL /\ str \in cur..Len(memory') /\ cur # nullptr
          /\ \A k \in cur..str-1 : memory'[k] = file[k] /\ file[k] # NUL
      <4>1. /\ str \in cur..Len(memory') /\ cur # 0 /\ str \in 1..Len(memory)
            /\ \A k \in cur..str-1 : k \in 1..Len(memory) /\ k # str
        BY ONLY <1>1, <1>2
      <4>2. memory'[str] = NUL /\ \A k \in cur..str-1 : memory'[k] = memory[k]
        BY ONLY <1>1, <4>1
      <4>3. \A k \in cur..str-1 : memory[k] = file[k] /\ file[k] # NUL
        BY <1>4, Tokens
      <4>4. QED
        BY ONLY <4>1, <4>2, <4>3 DEF nullptr
    <3>3. StringIn(memory', cur) = SubSeq(memory', cur, str - 1)
      <4>1. \A k \in cur..str-1 : memory'[k] # NUL
        BY <3>2
      <4>2. cur \in Int
        BY <1>2
      <4>3. QED
        BY ONLY <3>2, <4>1, <4>2, StringIs
    <3>4. SubSeq(memory', cur, str - 1) = SubSeq(file, cur, str - 1)
      <4>1. \A k \in cur..str-1 : memory'[k] = file[k - cur + cur]
        BY <1>2, <3>2
      <4>2. str - 1 \in Int /\ cur \in Int
        BY <1>2
      <4>3. QED
        BY <4>1, <4>2, SameStretch
    <3>5. QED
      BY <3>1, <3>3, <3>4
  <2>3. QED
    BY <1>3, <2>1, <2>2
<1>9. cur' = d[n + 1] + 1 /\ cur'..str'-1 = {}
  BY <1>1, <1>2, <1>3
<1>10. n + 1 = 4 => account'.length > 0
  BY <1>3
<1>11. QED
  BY <1>3, <1>5, <1>6, <1>7, <1>8, <1>9, <1>10 DEF Scanned

\* No field more: a character of the field, or a comma of the pattern.
LEMMA PassedOver ==
  ASSUME IInv, NEW n \in Tally, NEW c \in Marks, Scanned(n, c), PassOver
  PROVE  Scanned(n, c)'
<1>1. /\ pc = "parse" /\ str <= Len(file) /\ str' = str + 1
      /\ file' = file /\ memory' = memory /\ cur' = cur /\ account' = account
      /\ memory[str] \in Word \/ (memory[str] = COMMA /\ n = 4)
  <2>1. account.length # 0 => n = 4
    BY HowMany DEF Tally
  <2>2. QED
    BY <2>1 DEF PassOver, At
<1>2. /\ Len(file) \in Nat /\ str \in Nat /\ cur \in Nat /\ cur <= str
      /\ memory[str] = file[str]
  BY <1>1, Places
<1>3. /\ c[0] \in 0..str-1
      /\ c[0] = 0 \/ file[c[0]] = NEWLINE
      /\ \A k \in c[0]+1..str-1 : file[k] # NEWLINE
      /\ \A k \in cur..str-1 : memory[k] = file[k] /\ (n < 4 => file[k] \in Word)
  BY DEF Scanned
<1>4. c[0] \in 0..str'-1
  BY <1>1, <1>2, <1>3
<1>5. \A k \in c[0]+1..str'-1 : file[k] # NEWLINE
  <2>1. SUFFICES ASSUME NEW k \in c[0]+1..str'-1 PROVE file[k] # NEWLINE
    OBVIOUS
  <2>2. k \in c[0]+1..str-1 \/ k = str
    BY <1>1, <1>2, <1>3
  <2>3. QED
    BY <1>1, <1>2, <1>3, <2>2, Tokens
<1>6. \A j \in 1..n : c[j] \in c[j-1]+1..str'-1
  <2>1. \A j \in 1..n : c[j] \in c[j-1]+1..str-1
    BY DEF Scanned
  <2>2. QED
    BY <1>1, <1>2, <2>1
<1>7. \A k \in cur..str'-1 : memory[k] = file[k] /\ (n < 4 => file[k] \in Word)
  <2>1. SUFFICES ASSUME NEW k \in cur..str'-1
                 PROVE  memory[k] = file[k] /\ (n < 4 => file[k] \in Word)
    OBVIOUS
  <2>2. k \in cur..str-1 \/ k = str
    BY <1>1, <1>2
  <2>3. QED
    BY <1>1, <1>2, <1>3, <2>2
<1>8. QED
  BY <1>1, <1>3, <1>4, <1>5, <1>6, <1>7 DEF Scanned

--------------------------------------------------------------------------------
\* The line the scan is in, which ends with e: the reference's next one.
LinesTo(i) == Before(file, NEWLINE, i)

LEMMA LinesBeforeIs ==
  ASSUME file \in Seq(Token), NEW i \in 1..Len(file) + 1
  PROVE  LinesBefore(i) = LinesTo(i - 1)
<1>1. Len(file) \in Nat
  BY LenProperties
<1>2. {j \in 1..i-1 : file[j] = NEWLINE} = UpTo(file, NEWLINE, i - 1)
  BY <1>1 DEF UpTo, Positions
<1>3. QED
  BY <1>2, Zenon DEF LinesBefore, LinesTo, Before

LEMMA LineIs ==
  ASSUME IInv, pc = "parse", NEW n \in Tally, NEW c \in Marks, Scanned(n, c),
         NEW e \in str-1..Len(file), e = Len(file) \/ file[e + 1] = NEWLINE,
         \A k \in str..e : file[k] # NEWLINE
  PROVE  LET line == SubSeq(file, c[0] + 1, e)
         IN  /\ LinesBefore(str) \in Nat
             /\ Line(file, LinesBefore(str) + 1) = line
             /\ IF e = Len(file) THEN LinesBefore(str) = Lines(file) /\ Fragment(file) = line
                ELSE LinesBefore(str) < Lines(file)
<1>1. /\ Len(file) \in Nat /\ str \in Nat /\ str <= Len(file) + 1 /\ 1 <= str
      /\ file \in Seq(Token)
  BY Places
<1>2. /\ c[0] \in 0..str-1
      /\ c[0] = 0 \/ file[c[0]] = NEWLINE
      /\ \A k \in c[0]+1..str-1 : file[k] # NEWLINE
  BY DEF Scanned
<1>3. LinesBefore(str) = Before(file, NEWLINE, c[0]) /\ LinesBefore(str) \in Nat
  <2>1. LinesBefore(str) = Before(file, NEWLINE, str - 1)
    BY <1>1, LinesBeforeIs DEF LinesTo
  <2>2. Before(file, NEWLINE, str - 1) = Before(file, NEWLINE, c[0])
    BY <1>1, <1>2, BeforeSame
  <2>3. QED
    BY <1>1, <2>1, <2>2, BeforeType
<1> DEFINE a == c[0] + 1
<1>4. /\ a \in 1..Len(file) + 1 /\ a - 1 = c[0] /\ e \in a-1..Len(file)
      /\ a = 1 \/ file[a - 1] = NEWLINE
  BY <1>1, <1>2
<1>5. \A j \in a..e : file[j] # NEWLINE
  <2>1. SUFFICES ASSUME NEW j \in a..e PROVE file[j] # NEWLINE
    OBVIOUS
  <2>2. j \in c[0]+1..str-1 \/ j \in str..e
    BY <1>1, <1>2
  <2>3. QED
    BY <1>2, <2>2
<1> HIDE DEF a
<1> DEFINE k == Before(file, NEWLINE, a - 1) + 1
<1>6. /\ Piece(file, NEWLINE, k) = SubSeq(file, a, e)
      /\ IF e = Len(file) THEN Count(file, NEWLINE) = k - 1
         ELSE k <= Count(file, NEWLINE)
  BY <1>1, <1>4, <1>5, PieceIs
<1>7. k = LinesBefore(str) + 1
  BY <1>3, <1>4
<1> HIDE DEF k
<1>8. Count(file, NEWLINE) \in Nat
  BY <1>1, BeforeEnds
<1>9. Line(file, LinesBefore(str) + 1) = SubSeq(file, c[0] + 1, e)
  BY <1>6, <1>7 DEF Line, a
<1>10. CASE e = Len(file)
  <2>1. LinesBefore(str) = Lines(file)
    BY <1>3, <1>6, <1>7, <1>8, <1>10 DEF Lines
  <2>2. Fragment(file) = SubSeq(file, c[0] + 1, e)
    BY <1>9, <2>1 DEF Fragment, Line
  <2>3. QED
    BY <1>3, <1>9, <1>10, <2>1, <2>2
<1>11. CASE e # Len(file)
  <2>1. LinesBefore(str) < Lines(file)
    BY <1>3, <1>6, <1>7, <1>8, <1>11 DEF Lines
  <2>2. QED
    BY <1>3, <1>9, <1>11, <2>1
<1>12. QED
  BY <1>10, <1>11

\* Its fields are those that were found.
LEMMA LineFields ==
  ASSUME IInv, pc = "parse", NEW n \in Tally, NEW c \in Marks, NEW e,
         LineCommas(file, n, c, e),
         \A j \in 1..n : \A k \in c[j-1]+1..c[j]-1 : file[k] \in Word
  PROVE  LET line == SubSeq(file, c[0] + 1, e)
         IN  /\ \A j \in 1..n : Field(line, j) = SubSeq(file, c[j-1] + 1, c[j] - 1)
             /\ \A j \in n+1..4 : Field(line, j) = NONE
             /\ Rest(line) = SubSeq(file, c[n] + 1, e)
             /\ Skipped(line) <=> n < 2
             /\ Refused(line) <=> n = 4 /\ atoi(SubSeq(file, c[3] + 1, c[4] - 1)) <= 0
             /\ Length(line) = IF n = 4 THEN atoi(SubSeq(file, c[3] + 1, c[4] - 1)) ELSE 0
<1> DEFINE line == SubSeq(file, c[0] + 1, e)
<1>1. file \in Seq(Token) /\ n \in 0..4
  BY Places DEF Tally
<1>2. /\ \A j \in 1..n : Field(line, j) = SubSeq(file, c[j-1] + 1, c[j] - 1)
      /\ \A j \in n+1..4 : Field(line, j) = NONE
      /\ Rest(line) = SubSeq(file, c[n] + 1, e)
  BY <1>1, FieldsInFile
<1> HIDE DEF line
<1>3. ASSUME NEW j \in 1..n PROVE Field(line, j) # NONE
  <2>1. c[j-1] \in Nat /\ c[j] \in Nat
    BY MarksType
  <2>2. c[j-1] + 1 \in Int /\ c[j] - 1 \in Int
    BY <2>1
  <2>3. \A k \in c[j-1]+1..c[j]-1 : file[k] \in Word
    OBVIOUS
  <2>4. SubSeq(file, c[j-1] + 1, c[j] - 1) \in Seq(Word)
    BY ONLY <2>2, <2>3, SubSeqProperties
  <2>5. QED
    BY <1>2, <2>4, NullAssumption
<1>4. Skipped(line) <=> n < 2
  <2>1. CASE n < 2
    <3>1. 2 \in n+1..4
      BY <1>1, <2>1
    <3>2. QED
      BY <1>2, <2>1, <3>1 DEF Skipped
  <2>2. CASE ~(n < 2)
    <3>1. 2 \in 1..n
      BY <1>1, <2>2
    <3>2. QED
      BY <1>3, <2>2, <3>1 DEF Skipped
  <2>3. QED
    BY <2>1, <2>2
<1>5. CASE n = 4
  <2>1. 4 \in 1..n /\ 4 - 1 = 3
    BY <1>5
  <2>2. Field(line, 4) # NONE /\ Field(line, 4) = SubSeq(file, c[3] + 1, c[4] - 1)
    BY <1>2, <1>3, <2>1
  <2>3. QED
    BY <1>2, <1>4, <1>5, <2>2 DEF line, Refused, Length
<1>6. CASE n # 4
  <2>1. 4 \in n+1..4
    BY <1>1, <1>6
  <2>2. Field(line, 4) = NONE
    BY <1>2, <2>1
  <2>3. QED
    BY <1>2, <1>4, <1>6, <2>2 DEF line, Refused, Length
<1>7. QED
  BY <1>5, <1>6

\* The commas found so far are those of the line, if it ends here.
LEMMA FoundAll ==
  ASSUME IInv, pc = "parse", NEW n \in Tally, NEW c \in Marks, Scanned(n, c)
  PROVE  /\ LineCommas(file, n, c, str - 1)
         /\ \A j \in 1..n : \A k \in c[j-1]+1..c[j]-1 : file[k] \in Word
<1>1. Len(file) \in Nat /\ str \in Nat /\ 1 <= str /\ str <= Len(file) + 1
  BY Places
<1>2. c[0] \in 0..Len(file) /\ str - 1 \in c[0]..Len(file)
  BY <1>1 DEF Scanned
<1>3. \A j \in 1..n : /\ c[j] \in c[j-1]+1..str-1
                      /\ file[c[j]] = COMMA
                      /\ \A k \in c[j-1]+1..c[j]-1 : file[k] \in Word
  BY DEF Scanned
<1>4. n < 4 => \A k \in c[n]+1..str-1 : file[k] # COMMA
  BY Tokens DEF Scanned
<1>5. \A k : file[k] \in Word => file[k] # COMMA
  BY Tokens
<1>6. QED
  BY <1>2, <1>3, <1>4, <1>5 DEF LineCommas

\* The account under construction, read back from a buffer that differs from the
\* current one from cur on at most, is the entry of the line that ends at str.
LEMMA RowFields ==
  ASSUME IInv, pc = "parse", NEW n \in Tally, NEW c \in Marks, Scanned(n, c),
         NEW o, Len(o) = Len(memory), \A k \in 1..cur-1 : o[k] = memory[k]
  PROVE  LET line == SubSeq(file, c[0] + 1, str - 1)
         IN  /\ StringIn(o, account.domain) = Field(line, 1)
             /\ StringIn(o, account.username) = Field(line, 2)
             /\ StringIn(o, account.iteration) = Field(line, 3)
             /\ account.length = Length(line)
             /\ Rest(line) = SubSeq(file, cur, str - 1)
             /\ Skipped(line) <=> n < 2
             /\ ~Refused(line)
<1> DEFINE line == SubSeq(file, c[0] + 1, str - 1)
<1>1. /\ LineCommas(file, n, c, str - 1)
      /\ \A j \in 1..n : \A k \in c[j-1]+1..c[j]-1 : file[k] \in Word
  BY FoundAll
<1>2. /\ \A j \in 1..n : Field(line, j) = SubSeq(file, c[j-1] + 1, c[j] - 1)
      /\ \A j \in n+1..4 : Field(line, j) = NONE
      /\ Rest(line) = SubSeq(file, c[n] + 1, str - 1)
      /\ Skipped(line) <=> n < 2
      /\ Refused(line) <=> n = 4 /\ atoi(SubSeq(file, c[3] + 1, c[4] - 1)) <= 0
      /\ Length(line) = IF n = 4 THEN atoi(SubSeq(file, c[3] + 1, c[4] - 1)) ELSE 0
  BY <1>1, LineFields
<1> HIDE DEF line
<1>3. /\ \A j \in 1..n : j <= 3 => StringIn(memory, c[j-1]+1) = SubSeq(file, c[j-1]+1, c[j]-1)
      /\ cur = c[n] + 1
      /\ account = Found(file, n, c)
      /\ n = 4 => account.length > 0
      /\ n \in 0..4
  BY DEF Scanned, Tally
<1>4. /\ StringIn(o, account.domain) = StringIn(memory, account.domain)
      /\ StringIn(o, account.username) = StringIn(memory, account.username)
      /\ StringIn(o, account.iteration) = StringIn(memory, account.iteration)
  BY TableStays
<1>5. StringIn(memory, nullptr) = NONE
  BY DEF StringIn
<1>6. account.length = IF n = 4 THEN atoi(SubSeq(file, c[3] + 1, c[4] - 1)) ELSE 0
  <2>1. account.length = IF n >= 4 THEN atoi(SubSeq(file, c[3] + 1, c[4] - 1)) ELSE 0
    BY <1>3 DEF Found
  <2>2. n >= 4 <=> n = 4
    BY <1>3
  <2>3. QED
    BY <2>1, <2>2
<1>7. StringIn(memory, account.domain) = Field(line, 1)
  <2>1. account.domain = IF n >= 1 THEN c[0] + 1 ELSE nullptr
    BY <1>3 DEF Found
  <2>2. CASE n >= 1
    <3>1. 1 \in 1..n /\ 1 - 1 = 0 /\ 1 <= 3
      BY <1>3, <2>2
    <3>2. QED
      BY <1>2, <1>3, <2>1, <2>2, <3>1
  <2>3. CASE ~(n >= 1)
    <3>1. 1 \in n+1..4
      BY <1>3, <2>3
    <3>2. QED
      BY <1>2, <1>5, <2>1, <2>3, <3>1
  <2>4. QED
    BY <2>2, <2>3
<1>8. StringIn(memory, account.username) = Field(line, 2)
  <2>1. account.username = IF n >= 2 THEN c[1] + 1 ELSE nullptr
    BY <1>3 DEF Found
  <2>2. CASE n >= 2
    <3>1. 2 \in 1..n /\ 2 - 1 = 1 /\ 2 <= 3
      BY <1>3, <2>2
    <3>2. QED
      BY <1>2, <1>3, <2>1, <2>2, <3>1
  <2>3. CASE ~(n >= 2)
    <3>1. 2 \in n+1..4
      BY <1>3, <2>3
    <3>2. QED
      BY <1>2, <1>5, <2>1, <2>3, <3>1
  <2>4. QED
    BY <2>2, <2>3
<1>9. StringIn(memory, account.iteration) = Field(line, 3)
  <2>1. account.iteration = IF n >= 3 THEN c[2] + 1 ELSE nullptr
    BY <1>3 DEF Found
  <2>2. CASE n >= 3
    <3>1. 3 \in 1..n /\ 3 - 1 = 2 /\ 3 <= 3
      BY <1>3, <2>2
    <3>2. QED
      BY <1>2, <1>3, <2>1, <2>2, <3>1
  <2>3. CASE ~(n >= 3)
    <3>1. 3 \in n+1..4
      BY <1>3, <2>3
    <3>2. QED
      BY <1>2, <1>5, <2>1, <2>3, <3>1
  <2>4. QED
    BY <2>2, <2>3
<1>10. ~Refused(line)
  <2>1. n = 4 => account.length = atoi(SubSeq(file, c[3] + 1, c[4] - 1)) /\ account.length > 0
    BY <1>3, <1>6
  <2>2. account.length \in Int
    BY DEF IInv, TypeOK, Account
  <2> DEFINE v == atoi(SubSeq(file, c[3] + 1, c[4] - 1))
  <2>3. n = 4 => account.length = v /\ account.length > 0
    BY <2>1
  <2>4. Refused(line) => n = 4 /\ v <= 0
    BY <1>2
  <2> HIDE DEF v
  <2>5. QED
    BY ONLY <2>2, <2>3, <2>4
<1>11. QED
  BY <1>2, <1>3, <1>4, <1>6, <1>7, <1>8, <1>9, <1>10 DEF line

--------------------------------------------------------------------------------
\* A stutter of the reference: the strings stay, and no line end is passed.
LEMMA Stutters ==
  ASSUME IInv, pc = "parse", str <= Len(file), file[str] # NEWLINE, str' = str + 1,
         UNCHANGED <<file, list, pc>>, Len(memory') = Len(memory),
         \A k \in 1..cur-1 : memory'[k] = memory[k]
  PROVE  UNCHANGED Reader!readerVars
<1>1. /\ Len(file) \in Nat /\ str \in Nat /\ 1 <= str /\ str <= Len(file)
      /\ file \in Seq(Token)
  BY Places
<1>2. Table' = Table
  BY TableIs, TableStays
<1>3. LinesBefore(str)' = LinesBefore(str)
  <2>1. LinesBefore(str)' = LinesBefore(str + 1)
    BY DEF LinesBefore
  <2>2. str \in 1..Len(file) + 1 /\ str + 1 \in 1..Len(file) + 1 /\ (str + 1) - 1 = str
    BY <1>1
  <2>3. LinesBefore(str + 1) = LinesTo(str) /\ LinesBefore(str) = LinesTo(str - 1)
    BY <1>1, <2>2, LinesBeforeIs
  <2>4. LinesTo(str) = LinesTo(str - 1)
    <3>1. str - 1 \in Int /\ str \in Int /\ str - 1 <= str
          /\ \A j \in (str - 1)+1..str : file[j] # NEWLINE
      BY <1>1
    <3>2. QED
      BY <1>1, <3>1, BeforeSame DEF LinesTo
  <2>5. QED
    BY <2>1, <2>3, <2>4
<1>4. QED
  BY <1>2, <1>3 DEF Reader!readerVars

LEMMA EndFieldStep ==
  ASSUME RInv, \/ EndDomain \/ EndUsername \/ EndIteration \/ EndLength
  PROVE  /\ UNCHANGED Reader!readerVars
         /\ \E n \in Tally, c \in Marks : Scanned(n, c)'
<1>1. /\ IInv /\ pc = "parse" /\ str <= Len(file) /\ memory[str] = COMMA /\ At(COMMA) /\ CutHere
      /\ file' = file /\ list' = list /\ pc' = pc
  BY DEF RInv, EndDomain, EndUsername, EndIteration, EndField, EndLength, AtLength, At
<1>2. PICK n \in Tally, c \in Marks : Scanned(n, c)
  BY <1>1 DEF RInv
<1>3. /\ account.domain = nullptr <=> n < 1
      /\ account.username = nullptr <=> n < 2
      /\ account.iteration = nullptr <=> n < 3
      /\ account.length = 0 <=> n < 4
      /\ n \in 0..4
  BY <1>2, HowMany DEF Tally
<1>4. /\ account = Found(file, n, c) /\ cur = c[n] + 1
      /\ \A k \in cur..str-1 : memory[k] = file[k]
  BY <1>2 DEF Scanned
<1>5. /\ str \in Nat /\ cur \in Nat /\ file[str] = memory[str] /\ Len(memory) \in Nat
      /\ cur <= str /\ Len(file) < Len(memory) /\ Len(file) \in Nat
  BY <1>1, Places
<1>6. UNCHANGED Reader!readerVars
  <2>1. Len(memory') = Len(memory) /\ \A k \in 1..cur-1 : memory'[k] = memory[k]
    BY <1>1, <1>5, CutKeepsStrings
  <2>2. file[str] # NEWLINE
    BY <1>1, <1>5, TokenAssumption DEF TokenAssumption
  <2>3. QED
    BY <1>1, <2>1, <2>2, Stutters DEF CutHere
<1>0. PICK d : d = [c EXCEPT ![n + 1] = str]
  OBVIOUS
<1>7. n \in 0..3 /\ account' = Found(file, n + 1, d) /\ (n = 3 => account'.length > 0)
  <2>1. \A j \in 0..4 : d[j] = IF j = n + 1 THEN str ELSE c[j]
    BY <1>0 DEF Marks
  <2>2. CASE EndDomain
    <3>1. n = 0 /\ account' = [account EXCEPT !.domain = cur]
      <4>1. account.domain = nullptr /\ account' = [account EXCEPT !.domain = cur]
        BY <2>2 DEF EndDomain, EndField
      <4>2. QED
        BY ONLY <1>3, <4>1
    <3>2. cur = d[0] + 1
      BY <1>4, <2>1, <3>1
    <3>3. QED
      BY <1>4, <3>1, <3>2 DEF Found
  <2>3. CASE EndUsername
    <3>1. n = 1 /\ account' = [account EXCEPT !.username = cur]
      <4>1. /\ account.domain # nullptr /\ account.username = nullptr
            /\ account' = [account EXCEPT !.username = cur]
        BY <2>3 DEF EndUsername, EndField
      <4>2. QED
        BY ONLY <1>3, <4>1
    <3>2. cur = d[1] + 1 /\ c[0] = d[0]
      BY <1>4, <2>1, <3>1
    <3>3. QED
      BY <1>4, <3>1, <3>2 DEF Found
  <2>4. CASE EndIteration
    <3>1. n = 2 /\ account' = [account EXCEPT !.iteration = cur]
      <4>1. /\ account.username # nullptr /\ account.iteration = nullptr
            /\ account' = [account EXCEPT !.iteration = cur]
        BY <2>4 DEF EndIteration, EndField
      <4>2. QED
        BY ONLY <1>3, <4>1
    <3>2. cur = d[2] + 1 /\ c[0] = d[0] /\ c[1] = d[1]
      BY <1>4, <2>1, <3>1
    <3>3. QED
      BY <1>4, <3>1, <3>2 DEF Found
  <2>5. CASE EndLength
    <3>1. n = 3
      BY <1>3, <2>5 DEF EndLength, AtLength
    <3>2. /\ account' = [account EXCEPT !.length = atoi(SubSeq(memory, cur, str - 1))]
          /\ atoi(SubSeq(memory, cur, str - 1)) > 0
      BY <2>5 DEF EndLength
    <3>3. d[3] + 1 = cur /\ d[4] = str /\ c[0] = d[0] /\ c[1] = d[1] /\ c[2] = d[2]
      BY <1>4, <2>1, <3>1
    <3>4. SubSeq(memory, cur, str - 1) = SubSeq(file, cur, str - 1)
      <4>1. \A k \in cur..str-1 : memory[k] = file[k - cur + cur]
        BY <1>4, <1>5
      <4>2. str - 1 \in Int /\ cur \in Int
        BY <1>5
      <4>3. QED
        BY <4>1, <4>2, SameStretch
    <3> DEFINE v == atoi(SubSeq(memory, cur, str - 1))
    <3>5. /\ account' = [account EXCEPT !.length = v] /\ v > 0
          /\ v = atoi(SubSeq(file, d[3] + 1, d[4] - 1))
      BY <3>2, <3>3, <3>4
    <3> HIDE DEF v
    <3>6. account' = [account EXCEPT !.length = v] /\ account = Found(file, 3, c) /\ v > 0
      BY <1>4, <3>1, <3>5
    <3>7. account' = Found(file, 4, d) /\ account'.length > 0
      BY ONLY <3>3, <3>5, <3>6 DEF Found
    <3>8. QED
      BY <3>1, <3>7
  <2>6. QED
    BY <2>2, <2>3, <2>4, <2>5
<1>8. d \in Marks /\ Scanned(n + 1, d)'
  BY <1>1, <1>2, <1>0, <1>7, FieldFound
<1>9. n + 1 \in Tally
  BY <1>7 DEF Tally
<1>10. QED
  BY <1>6, <1>8, <1>9

\* A line end takes the line, with the account as its entry or without one.
LEMMA EndLineStep ==
  ASSUME RInv, EndLine
  PROVE  /\ Reader!TakeLine
         /\ \E n \in Tally, c \in Marks : Scanned(n, c)'
<1>1. /\ IInv /\ pc = "parse" /\ str <= Len(file) /\ memory[str] = NEWLINE /\ CutHere
      /\ file' = file /\ pc' = pc /\ account' = NullAccount
      /\ cur' = str + 1 /\ str' = str + 1
  BY DEF RInv, EndLine, At, CutHere
<1>2. PICK n \in Tally, c \in Marks : Scanned(n, c)
  BY <1>1 DEF RInv
<1>3. /\ Len(file) \in Nat /\ Len(memory) \in Nat /\ str \in Nat /\ cur \in Nat
      /\ Len(file) < Len(memory) /\ 1 <= cur /\ cur <= str
      /\ file[str] = NEWLINE /\ file \in Seq(Token)
  BY <1>1, Places
<1>4. /\ Len(memory') = Len(memory)
      /\ \A k \in 1..Len(memory) : memory'[k] = IF k = str THEN NUL ELSE memory[k]
      /\ \A k \in 1..cur-1 : memory'[k] = memory[k]
  <2>1. /\ Len(memory') = Len(memory)
        /\ \A k \in 1..Len(memory) : memory'[k] = IF k = str THEN NUL ELSE memory[k]
    BY <1>1, CutKeepsStrings
  <2>2. ASSUME NEW k \in 1..cur-1 PROVE k \in 1..Len(memory) /\ k # str
    <3>1. str <= Len(file)
      BY <1>1
    <3>2. QED
      BY ONLY <1>3, <3>1, k \in 1..cur-1
  <2>3. QED
    BY ONLY <2>1, <2>2
<1> DEFINE line == SubSeq(file, c[0] + 1, str - 1)
<1>5. /\ Line(file, LinesBefore(str) + 1) = line
      /\ LinesBefore(str) < Lines(file) /\ LinesBefore(str) \in Nat
  <2>1. /\ str - 1 \in str-1..Len(file) /\ str - 1 # Len(file) /\ (str - 1) + 1 = str
        /\ str..str-1 = {}
    BY <1>1, <1>3
  <2>2. \A k \in str..str-1 : file[k] # NEWLINE
    BY <2>1
  <2>3. QED
    BY <1>1, <1>2, <1>3, <2>1, <2>2, LineIs
<1>6. /\ StringIn(memory', account.domain) = Field(line, 1)
      /\ StringIn(memory', account.username) = Field(line, 2)
      /\ StringIn(memory', account.iteration) = Field(line, 3)
      /\ account.length = Length(line)
      /\ Rest(line) = SubSeq(file, cur, str - 1)
      /\ Skipped(line) <=> n < 2
      /\ ~Refused(line)
  BY <1>1, <1>2, <1>4, RowFields
<1> HIDE DEF line
<1>7. LinesBefore(str)' = LinesBefore(str) + 1
  <2>1. LinesBefore(str)' = LinesBefore(str + 1)
    BY <1>1 DEF LinesBefore
  <2>2. str \in 1..Len(file) + 1 /\ str + 1 \in 1..Len(file) + 1 /\ (str + 1) - 1 = str
    BY <1>1, <1>3
  <2>3. LinesBefore(str + 1) = LinesTo(str) /\ LinesBefore(str) = LinesTo(str - 1)
    BY <1>3, <2>2, LinesBeforeIs
  <2>4. LinesTo(str) = LinesTo(str - 1) + 1
    BY <1>1, <1>3, BeforeStep DEF LinesTo
  <2>5. QED
    BY <2>1, <2>3, <2>4
<1>8. n < 2 <=> account.domain = nullptr \/ account.username = nullptr
  <2>1. /\ account.domain = nullptr <=> n < 1
        /\ account.username = nullptr <=> n < 2
        /\ n \in 0..4
    BY <1>2, HowMany DEF Tally
  <2>2. QED
    BY ONLY <2>1
<1>9. Table' = IF Skipped(line) THEN Table ELSE Append(Table, EntryOf(line))
  <2>1. TableIn(memory', list.accounts) = Table
    BY <1>1, <1>4, TableStays, TableIs
  <2>2. CASE n < 2
    <3>1. list' = list
      BY <1>8, <2>2 DEF EndLine
    <3>2. QED
      BY <1>6, <2>1, <2>2, <3>1, TableIs
  <2>3. CASE ~(n < 2)
    <3> DEFINE a == [account EXCEPT !.characters = cur]
    <3>1. list'.accounts = Append(list.accounts, a)
      BY <1>8, <2>3 DEF EndLine, push_account
    <3>2. a \in Account /\ list.accounts \in Seq(Account)
      <4>1. account \in Account /\ list.accounts \in Seq(Account)
        BY <1>1 DEF IInv, TypeOK
      <4>2. cur \in Pointer
        BY <1>1, <1>3 DEF Pointer
      <4>3. QED
        BY <4>1, <4>2 DEF Account
    <3>3. StringIn(memory', cur) = SubSeq(file, cur, str - 1)
      <4>1. /\ str \in cur..Len(memory') /\ cur # nullptr /\ cur \in Int /\ str - 1 \in Int
            /\ str \in 1..Len(memory)
            /\ \A k \in cur..str-1 : k \in 1..Len(memory) /\ k # str
        BY <1>1, <1>3, <1>4 DEF nullptr
      <4>2. \A k \in cur..str-1 : memory[k] = file[k] /\ memory[k] \in Word \cup {COMMA}
        BY <1>1, <1>2 DEF Scanned, IInv, Layout
      <4>3. /\ memory'[str] = NUL
            /\ \A k \in cur..str-1 : memory'[k] = file[k] /\ memory'[k] # NUL
        BY <1>4, <4>1, <4>2, Tokens
      <4>4. StringIn(memory', cur) = SubSeq(memory', cur, str - 1)
        <5>1. \A k \in cur..str-1 : memory'[k] # NUL
          BY ONLY <4>3
        <5>2. QED
          BY ONLY <4>1, <4>3, <5>1, StringIs
      <4>5. \A k \in cur..str-1 : memory'[k] = file[k - cur + cur]
        BY <4>1, <4>3
      <4>6. SubSeq(memory', cur, str - 1) = SubSeq(file, cur, str - 1)
        <5>1. cur \in Int /\ str - 1 \in Int
          BY <4>1
        <5>2. QED
          BY <4>5, <5>1, SameStretch
      <4>7. QED
        BY ONLY <4>4, <4>6
    <3>4. RowIn(memory', a) = EntryOf(line)
      <4>1. /\ a.domain = account.domain /\ a.username = account.username
            /\ a.iteration = account.iteration /\ a.characters = cur
            /\ a.length = account.length
        BY <1>1 DEF IInv, TypeOK, Account
      <4> HIDE DEF a
      <4>2. QED
        BY ONLY <1>6, <3>3, <4>1 DEF RowIn, EntryOf
    <3> HIDE DEF a
    <3>5. TableIn(memory', Append(list.accounts, a))
             = Append(TableIn(memory', list.accounts), RowIn(memory', a))
      BY <3>2, TableGrows
    <3>6. QED
      BY <1>6, <2>1, <2>3, <3>1, <3>4, <3>5, TableIs
  <2>4. QED
    BY <2>2, <2>3
<1>10. Reader!TakeLine
  <2>1. /\ Reader!Line(file, LinesBefore(str) + 1) = line
        /\ Reader!Lines(file) = Lines(file)
        /\ ~Reader!Refused(line)
        /\ Reader!Skipped(line) <=> Skipped(line)
        /\ Reader!EntryOf(line) = EntryOf(line)
    BY <1>5, <1>6, ReaderSame
  <2>2. QED
    BY ONLY <1>1, <1>5, <1>7, <1>9, <2>1 DEF Reader!TakeLine
<1>11. \E m \in Tally, d \in Marks : Scanned(m, d)'
  <2>1. PICK d : d = [j \in 0..4 |-> str]
    OBVIOUS
  <2>2. d \in Marks /\ d[0] = str /\ 0 \in Tally
    BY <1>3, <2>1 DEF Marks, Tally
  <2>3. Scanned(0, d)'
    <3>1. /\ d[0] \in 0..str'-1 /\ file'[d[0]] = NEWLINE
          /\ d[0]+1..str'-1 = {} /\ 1..0 = {} /\ cur' = d[0] + 1 /\ cur'..str'-1 = {}
      BY <1>1, <1>3, <2>2
    <3>2. account' = Found(file', 0, d)
      BY <1>1 DEF NullAccount, Found
    <3>3. QED
      BY ONLY <3>1, <3>2 DEF Scanned
  <2>4. QED
    BY <2>2, <2>3
<1>12. QED
  BY <1>10, <1>11

\* Every line ends, at the next line end or with the file.
LEMMA LineEnds ==
  ASSUME file \in Seq(Token), NEW s \in 1..Len(file) + 1
  PROVE  \E e \in s-1..Len(file) : /\ e = Len(file) \/ file[e + 1] = NEWLINE
                                   /\ \A k \in s..e : file[k] # NEWLINE
<1>1. Len(file) \in Nat
  BY LenProperties
<1> DEFINE T == {e \in s-1..Len(file) : e = Len(file) \/ file[e + 1] = NEWLINE}
<1>2. T \in SUBSET Nat /\ Len(file) \in T
  BY <1>1
<1>3. \E e \in T : \A m \in T : e <= m
  <2> HIDE DEF T
  <2>1. QED
    BY <1>2, LeastNat
<1>4. PICK e \in T : \A m \in T : e <= m
  BY <1>3
<1>5. \A k \in s..e : file[k] # NEWLINE
  <2>1. SUFFICES ASSUME NEW k \in s..e, file[k] = NEWLINE PROVE FALSE
    OBVIOUS
  <2>2. k - 1 \in s-1..Len(file) /\ (k - 1) + 1 = k /\ ~(e <= k - 1)
    BY <1>1
  <2>3. k - 1 \in T
    BY <2>1, <2>2
  <2>4. QED
    BY <1>4, <2>2, <2>3
<1>6. QED
  BY <1>4, <1>5

\* A refused length refuses the line it is in, complete or not.
LEMMA RefuseLengthStep ==
  ASSUME RInv, RefuseLength
  PROVE  Reader!Next
<1>1. /\ IInv /\ pc = "parse" /\ str <= Len(file) /\ memory[str] = COMMA
      /\ nullptr \notin {account.domain, account.username, account.iteration}
      /\ account.length = 0
      /\ atoi(SubSeq(memory, cur, str - 1)) <= 0
      /\ list' = [accounts |-> <<>>, capacity |-> 0]
      /\ pc' = "refused" /\ file' = file /\ str' = str
  BY DEF RInv, RefuseLength, AtLength, At
<1>2. PICK n \in Tally, c \in Marks : Scanned(n, c)
  BY <1>1 DEF RInv
<1>3. /\ Len(file) \in Nat /\ str \in Nat /\ cur \in Nat /\ 1 <= cur /\ cur <= str
      /\ file[str] = COMMA /\ file \in Seq(Token)
  BY <1>1, Places
<1>4. n = 3
  <2>1. /\ account.iteration = nullptr <=> n < 3
        /\ account.length = 0 <=> n < 4
        /\ n \in 0..4
    BY <1>2, HowMany DEF Tally
  <2>2. ~(account.iteration = nullptr) /\ account.length = 0
    BY <1>1
  <2>3. QED
    BY ONLY <2>1, <2>2
<1>5. PICK d : d = [c EXCEPT ![4] = str]
  OBVIOUS
<1>6. /\ d \in Marks /\ 4 \in Tally
      /\ d[0] = c[0] /\ d[1] = c[1] /\ d[2] = c[2] /\ d[3] = c[3] /\ d[4] = str
      /\ cur = d[3] + 1
      /\ c[0] \in Nat
  <2>1. c \in [0..4 -> Nat] /\ cur = c[3] + 1
    BY <1>2, <1>4 DEF Marks, Scanned
  <2>2. d \in [0..4 -> Nat] /\ \A j \in 0..4 : d[j] = IF j = 4 THEN str ELSE c[j]
    BY ONLY <1>3, <1>5, <2>1
  <2>3. QED
    BY <2>1, <2>2 DEF Marks, Tally
<1>7. PICK e \in str-1..Len(file) : /\ e = Len(file) \/ file[e + 1] = NEWLINE
                                    /\ \A k \in str..e : file[k] # NEWLINE
  <2>1. str \in 1..Len(file) + 1
    BY <1>1, <1>3
  <2>2. QED
    BY <1>3, <2>1, LineEnds
<1>8. e \in Int /\ str <= e
  <2>1. e # str - 1
    BY <1>1, <1>3, <1>7, TokenAssumption DEF TokenAssumption
  <2>2. QED
    BY <1>3, <1>7, <2>1
<1>9. ASSUME NEW j \in 1..4
      PROVE  /\ d[j] \in d[j-1]+1..e
             /\ file[d[j]] = COMMA
             /\ \A k \in d[j-1]+1..d[j]-1 : file[k] \in Word
  <2>1. CASE j \in 1..3
    <3>1. d[j] = c[j] /\ d[j-1] = c[j-1]
      <4>1. j = 1 \/ j = 2 \/ j = 3
        BY <2>1
      <4>2. QED
        BY <1>6, <4>1
    <3>2. /\ c[j] \in c[j-1]+1..str-1 /\ file[c[j]] = COMMA
          /\ \A k \in c[j-1]+1..c[j]-1 : file[k] \in Word
      BY <1>2, <1>4, <2>1 DEF Scanned
    <3>3. QED
      BY <1>3, <1>8, <3>1, <3>2
  <2>2. CASE j = 4
    <3>1. d[j] = str /\ d[j-1] + 1 = cur
      BY <1>6, <2>2
    <3>2. \A k \in cur..str-1 : file[k] \in Word
      BY <1>2, <1>4 DEF Scanned
    <3>3. QED
      BY <1>3, <1>8, <3>1, <3>2
  <2>3. QED
    BY <2>1, <2>2
<1>10. LineCommas(file, 4, d, e)
  <2>1. d[0] \in 0..Len(file) /\ e \in d[0]..Len(file)
    BY <1>2, <1>3, <1>6, <1>7, <1>8 DEF Scanned
  <2>2. \A k : file[k] \in Word => file[k] # COMMA
    BY Tokens
  <2>3. QED
    BY <1>9, <2>1, <2>2 DEF LineCommas
<1> DEFINE line == SubSeq(file, c[0] + 1, e)
<1>11. Refused(line)
  <2>1. SubSeq(memory, cur, str - 1) = SubSeq(file, cur, str - 1)
    <3>1. \A k \in cur..str-1 : memory[k] = file[k - cur + cur]
      BY <1>2, <1>3 DEF Scanned
    <3>2. str - 1 \in Int /\ cur \in Int
      BY <1>3
    <3>3. QED
      BY <3>1, <3>2, SameStretch
  <2>2. atoi(SubSeq(file, d[3] + 1, d[4] - 1)) <= 0
    BY <1>1, <1>6, <2>1
  <2>3. \A j \in 1..4 : \A k \in d[j-1]+1..d[j]-1 : file[k] \in Word
    BY <1>9
  <2>4. Refused(SubSeq(file, d[0] + 1, e))
           <=> 4 = 4 /\ atoi(SubSeq(file, d[3] + 1, d[4] - 1)) <= 0
    BY <1>1, <1>6, <1>10, <2>3, LineFields
  <2>5. QED
    BY <1>6, <2>2, <2>4
<1>12. /\ LinesBefore(str) \in Nat
       /\ Line(file, LinesBefore(str) + 1) = line
       /\ IF e = Len(file) THEN LinesBefore(str) = Lines(file) /\ Fragment(file) = line
          ELSE LinesBefore(str) < Lines(file)
  BY <1>1, <1>2, <1>7, LineIs
<1> HIDE DEF line
<1>13. Reader!Refuse
  <2>1. Table' = <<>>
    <3>1. list'.accounts = <<>> /\ Len(list'.accounts) = 0
      BY <1>1
    <3>2. TableIn(memory', list'.accounts) = <<>>
      BY <3>1 DEF TableIn
    <3>3. QED
      BY <3>2, TableIs
  <2>2. LinesBefore(str)' = LinesBefore(str)
    BY <1>1 DEF LinesBefore
  <2>3. QED
    BY <1>1, <2>1, <2>2 DEF Reader!Refuse
<1>14. /\ Reader!Line(file, LinesBefore(str) + 1) = Line(file, LinesBefore(str) + 1)
       /\ Reader!Lines(file) = Lines(file) /\ Reader!Fragment(file) = Fragment(file)
       /\ Reader!Refused(line)
  BY <1>11, ReaderSame
<1>15. CASE e = Len(file)
  <2>1. Reader!TakeFragment
    BY ONLY <1>1, <1>12, <1>13, <1>14, <1>15 DEF Reader!TakeFragment
  <2>2. QED
    BY <2>1 DEF Reader!Next
<1>16. CASE e # Len(file)
  <2>1. Reader!TakeLine
    BY ONLY <1>1, <1>12, <1>13, <1>14, <1>16 DEF Reader!TakeLine
  <2>2. QED
    BY <2>1 DEF Reader!Next
<1>17. QED
  BY <1>15, <1>16

\* The end of the file takes what follows the last line end, up to the NUL
\* behind the buffer.
LEMMA OpenString ==
  ASSUME IInv, pc = "parse", str > Len(file), cur < str,
         \A k \in cur..str-1 : memory[k] = file[k],
         NEW slack \in Slacks, Len(memory) = Len(file) + Len(slack) + 1,
         \A k \in 1..Len(slack) : memory[Len(file) + k] = slack[k]
  PROVE  StringIn(memory, cur) = SubSeq(file, cur, str - 1) \o slack
<1>1. /\ Len(file) \in Nat /\ Len(memory) \in Nat /\ str = Len(file) + 1
      /\ cur \in Nat /\ 1 <= cur /\ Len(file) < Len(memory)
  BY Places
<1>2. slack \in Seq(Word) /\ Len(slack) \in Nat
  BY FilesAssumption, LenProperties DEF FilesAssumption
<1>3. /\ memory[Len(memory)] = NUL
      /\ \A k \in Len(file)+1..Len(memory)-1 : memory[k] \in Word
      /\ \A k \in cur..str-1 : memory[k] \in Word \cup {COMMA}
  BY DEF IInv, Layout
<1>4. \A k \in cur..Len(memory)-1 : memory[k] \in Word \cup {COMMA}
  <2>1. SUFFICES ASSUME NEW k \in cur..Len(memory)-1 PROVE memory[k] \in Word \cup {COMMA}
    OBVIOUS
  <2>2. k \in cur..str-1 \/ k \in Len(file)+1..Len(memory)-1
    BY <1>1
  <2>3. QED
    BY <1>3, <2>2
<1>5. StringIn(memory, cur) = SubSeq(memory, cur, Len(memory) - 1)
  <2>1. \A k \in cur..Len(memory)-1 : memory[k] # NUL
    BY <1>4, Tokens
  <2>2. cur \in Int /\ cur # nullptr /\ Len(memory) \in cur..Len(memory)
    BY <1>1 DEF nullptr
  <2>3. QED
    BY ONLY <1>3, <2>1, <2>2, StringIs
<1> DEFINE S == Word \cup {COMMA}
           u == SubSeq(memory, cur, Len(memory) - 1)
           v == SubSeq(file, cur, str - 1)
<1>6. /\ u \in Seq(S) /\ Len(u) = Len(memory) - cur
      /\ \A i \in 1..Len(memory)-cur : u[i] = memory[cur+i-1]
  <2>1. cur \in Int /\ Len(memory) - 1 \in Int /\ \A k \in cur..Len(memory)-1 : memory[k] \in S
    BY <1>1, <1>4
  <2>2. /\ u \in Seq(S)
        /\ Len(u) = IF cur <= Len(memory) - 1 THEN (Len(memory) - 1) - cur + 1 ELSE 0
        /\ \A i \in 1..(Len(memory)-1)-cur+1 : u[i] = memory[cur+i-1]
    <3> HIDE DEF S
    <3>1. QED
      BY ONLY <2>1, SubSeqProperties
  <2> HIDE DEF u
  <2>3. (Len(memory)-1)-cur+1 = Len(memory)-cur /\ cur <= Len(memory) - 1
    BY <1>1
  <2>4. QED
    BY ONLY <2>2, <2>3
<1>7. /\ v \in Seq(S) /\ Len(v) = str - cur
      /\ \A i \in 1..str-cur : v[i] = file[cur+i-1]
  <2>1. cur \in Int /\ str - 1 \in Int /\ \A k \in cur..str-1 : file[k] \in S
    BY <1>1, <1>3
  <2>2. /\ v \in Seq(S)
        /\ Len(v) = IF cur <= str - 1 THEN (str - 1) - cur + 1 ELSE 0
        /\ \A i \in 1..(str-1)-cur+1 : v[i] = file[cur+i-1]
    <3> HIDE DEF S
    <3>1. QED
      BY ONLY <2>1, SubSeqProperties
  <2> HIDE DEF v
  <2>3. (str-1)-cur+1 = str-cur /\ cur <= str - 1
    BY <1>1
  <2>4. QED
    BY ONLY <2>2, <2>3
<1>8. slack \in Seq(S)
  BY <1>2, SeqMonotonic
<1> HIDE DEF S, u, v
<1>9. /\ v \o slack \in Seq(S) /\ Len(v \o slack) = Len(v) + Len(slack)
      /\ \A i \in 1..Len(v) + Len(slack) :
            (v \o slack)[i] = IF i <= Len(v) THEN v[i] ELSE slack[i - Len(v)]
  BY ONLY <1>7, <1>8, ConcatProperties
<1>10. Len(u) = Len(v \o slack)
  BY ONLY <1>1, <1>2, <1>6, <1>7, <1>9, Len(memory) = Len(file) + Len(slack) + 1
<1>11. ASSUME NEW i \in 1..Len(u) PROVE u[i] = (v \o slack)[i]
  <2>1. /\ i \in 1..Len(memory)-cur /\ i \in 1..Len(v) + Len(slack)
        /\ u[i] = memory[cur+i-1]
    BY ONLY <1>6, <1>9, <1>10, i \in 1..Len(u)
  <2>2. CASE i <= Len(v)
    <3>1. i \in 1..str-cur /\ cur+i-1 \in cur..str-1
      BY ONLY <1>1, <1>7, <2>1, <2>2
    <3>2. v[i] = file[cur+i-1] /\ memory[cur+i-1] = file[cur+i-1]
      BY <1>7, <3>1
    <3>3. QED
      BY ONLY <1>9, <2>1, <2>2, <3>2
  <2>3. CASE ~(i <= Len(v))
    <3>1. i - Len(v) \in 1..Len(slack) /\ Len(file) + (i - Len(v)) = cur+i-1
      BY ONLY <1>1, <1>2, <1>7, <2>1, <2>3
    <3>2. memory[cur+i-1] = slack[i - Len(v)]
      BY <3>1
    <3>3. QED
      BY ONLY <1>9, <2>1, <2>3, <3>2
  <2>4. QED
    BY <2>2, <2>3
<1>12. u = v \o slack
  BY ONLY <1>6, <1>9, <1>10, <1>11, SeqEqual
<1>13. QED
  BY <1>5, <1>12 DEF u, v

LEMMA EndOfFileStep ==
  ASSUME RInv, EndOfFile
  PROVE  Reader!TakeFragment
<1>1. /\ IInv /\ pc = "parse" /\ str > Len(file) /\ pc' = "done"
      /\ file' = file /\ memory' = memory /\ str' = str
      /\ list' = IF cur < str
                 THEN push_account(list, [account EXCEPT !.characters = cur])
                 ELSE list
  BY DEF RInv, EndOfFile
<1>2. PICK n \in Tally, c \in Marks : Scanned(n, c)
  BY <1>1 DEF RInv
<1>3. /\ Len(file) \in Nat /\ Len(memory) \in Nat /\ str = Len(file) + 1
      /\ cur \in Nat /\ 1 <= cur /\ cur <= str /\ Len(file) < Len(memory)
  BY <1>1, Places
<1> DEFINE line == SubSeq(file, c[0] + 1, str - 1)
<1>4. LinesBefore(str) = Lines(file) /\ Fragment(file) = line
  <2>1. /\ str - 1 \in str-1..Len(file) /\ str - 1 = Len(file)
        /\ str..str-1 = {}
    BY <1>1, <1>3
  <2>2. \A k \in str..str-1 : file[k] # NEWLINE
    BY <2>1
  <2>3. QED
    BY <1>1, <1>2, <2>1, <2>2, LineIs
<1>5. /\ StringIn(memory, account.domain) = Field(line, 1)
      /\ StringIn(memory, account.username) = Field(line, 2)
      /\ StringIn(memory, account.iteration) = Field(line, 3)
      /\ account.length = Length(line)
      /\ Rest(line) = SubSeq(file, cur, str - 1)
      /\ ~Refused(line)
  BY <1>1, <1>2, RowFields
<1> HIDE DEF line
<1>6. LinesBefore(str)' = LinesBefore(str)
  BY <1>1 DEF LinesBefore
<1>7. IF Rest(line) = <<>> THEN Table' = Table
      ELSE \E slack \in Slacks :
             Table' = Append(Table, [EntryOf(line) EXCEPT !.characters = @ \o slack])
  <2>1. CASE ~(cur < str)
    <3>1. Rest(line) = <<>>
      <4>1. cur \in Int /\ str - 1 \in Int /\ str - 1 < cur
        BY <1>3, <2>1
      <4>2. QED
        BY <1>5, <4>1, SubSeqEmpty
    <3>2. Table' = Table
      BY <1>1, <2>1, TableIs
    <3>3. QED
      BY <3>1, <3>2
  <2>2. CASE cur < str
    <3>1. Rest(line) # <<>>
      <4>1. /\ cur \in Int /\ str - 1 \in Int /\ cur <= str - 1
            /\ \A k \in cur..str-1 : k \in 1..Len(file)
        BY <1>3, <2>2
      <4>2. \A k \in cur..str-1 : file[k] \in Token
        BY <1>1, <4>1, Places
      <4>3. Len(SubSeq(file, cur, str - 1)) = (str - 1) - cur + 1
        BY ONLY <4>1, <4>2, SubSeqProperties
      <4>4. Len(SubSeq(file, cur, str - 1)) # 0
        BY ONLY <4>1, <4>3
      <4>5. Len(<<>>) = 0
        BY EmptySeq
      <4>6. QED
        BY ONLY <1>5, <4>4, <4>5
    <3>2. PICK slack \in Slacks : /\ Len(memory) = Len(file) + Len(slack) + 1
                                  /\ \A k \in 1..Len(slack) : memory[Len(file) + k] = slack[k]
      BY DEF RInv, Behind
    <3>3. StringIn(memory, cur) = Rest(line) \o slack
      <4>1. \A k \in cur..str-1 : memory[k] = file[k]
        BY <1>2 DEF Scanned
      <4>2. QED
        BY <1>1, <1>5, <2>2, <3>2, <4>1, OpenString
    <3> DEFINE a == [account EXCEPT !.characters = cur]
               r == [EntryOf(line) EXCEPT !.characters = @ \o slack]
    <3>4. RowIn(memory, a) = r
      <4>1. /\ a.domain = account.domain /\ a.username = account.username
            /\ a.iteration = account.iteration /\ a.characters = cur
            /\ a.length = account.length
        BY <1>1 DEF IInv, TypeOK, Account
      <4>2. r = [domain     |-> Field(line, 1),
                 username   |-> Field(line, 2),
                 iteration  |-> Field(line, 3),
                 characters |-> Rest(line) \o slack,
                 length     |-> Length(line)]
        <5> DEFINE x == Rest(line) \o slack
        <5>1. EntryOf(line).characters \o slack = x
          BY DEF EntryOf
        <5>2. r = [EntryOf(line) EXCEPT !.characters = x]
          BY ONLY <5>1 DEF r
        <5> HIDE DEF x, r, a
        <5>3. r = [domain     |-> Field(line, 1),
                   username   |-> Field(line, 2),
                   iteration  |-> Field(line, 3),
                   characters |-> x,
                   length     |-> Length(line)]
          BY ONLY <5>2 DEF EntryOf
        <5>4. QED
          BY <5>3 DEF x
      <4> HIDE DEF a, r
      <4>3. QED
        BY ONLY <1>5, <3>3, <4>1, <4>2 DEF RowIn
    <3>5. a \in Account /\ list.accounts \in Seq(Account)
      <4>1. account \in Account /\ list.accounts \in Seq(Account)
        BY <1>1 DEF IInv, TypeOK
      <4>2. cur \in Pointer
        BY <1>1, <1>3 DEF Pointer
      <4>3. QED
        BY <4>1, <4>2 DEF Account
    <3>6. list'.accounts = Append(list.accounts, a)
      BY <1>1, <2>2 DEF push_account
    <3> HIDE DEF a, r
    <3>7. Table' = Append(Table, r)
      <4>1. TableIn(memory, Append(list.accounts, a))
               = Append(TableIn(memory, list.accounts), RowIn(memory, a))
        BY ONLY <3>5, TableGrows
      <4>2. QED
        BY <1>1, <3>4, <3>6, <4>1, TableIs
    <3>8. QED
      BY <3>1, <3>7 DEF r
  <2>3. QED
    BY <2>1, <2>2
<1>8. /\ Reader!Lines(file) = Lines(file) /\ Reader!Fragment(file) = Fragment(file)
      /\ ~Reader!Refused(line) /\ Reader!Rest(line) = Rest(line)
      /\ Reader!EntryOf(line) = EntryOf(line)
  BY <1>5, ReaderSame
<1>9. QED
  BY ONLY <1>1, <1>4, <1>6, <1>7, <1>8 DEF Reader!TakeFragment

\* What is stored through a null pointer is the account of a line that would have
\* been taken, complete or not.
LEMMA NoMemoryStep ==
  ASSUME RInv, NoMemory
  PROVE  Reader!NoMemory
<1>1. /\ IInv /\ pc = "parse" /\ pc' = "crashed"
      /\ UNCHANGED <<file, memory, str, cur, account, list>>
  BY DEF RInv, NoMemory, At
<1>2. PICK n \in Tally, c \in Marks : Scanned(n, c)
  BY <1>1 DEF RInv
<1>3. /\ Len(file) \in Nat /\ Len(memory) \in Nat /\ str \in Nat /\ cur \in Nat
      /\ 1 <= cur /\ cur <= str /\ str <= Len(file) + 1
  BY <1>1, Places
<1> DEFINE line == SubSeq(file, c[0] + 1, str - 1)
<1>4. /\ Rest(line) = SubSeq(file, cur, str - 1)
      /\ Skipped(line) <=> n < 2
      /\ ~Refused(line)
  <2>1. \A k \in 1..cur-1 : memory[k] = memory[k]
    OBVIOUS
  <2>2. QED
    BY <1>1, <1>2, <2>1, RowFields
<1>5. Table' = Table /\ LinesBefore(str)' = LinesBefore(str)
  BY <1>1, TableIs DEF LinesBefore
<1>6. CASE At(NEWLINE) /\ nullptr \notin {account.domain, account.username}
  <2>1. /\ str <= Len(file) /\ file[str] = NEWLINE
    BY <1>1, <1>6, Places DEF At
  <2>2. /\ Line(file, LinesBefore(str) + 1) = line
        /\ LinesBefore(str) < Lines(file)
    <3>1. /\ str - 1 \in str-1..Len(file) /\ str - 1 # Len(file) /\ (str - 1) + 1 = str
          /\ str..str-1 = {}
      BY <1>3, <2>1
    <3>2. \A k \in str..str-1 : file[k] # NEWLINE
      BY <3>1
    <3>3. QED
      BY <1>1, <1>2, <1>3, <2>1, <3>1, <3>2, LineIs
  <2>3. ~Skipped(line)
    <3>1. /\ account.username = nullptr <=> n < 2
      BY <1>2, HowMany
    <3>2. QED
      BY <1>4, <1>6, <3>1
  <2> HIDE DEF line
  <2>4. /\ Reader!Line(file, LinesBefore(str) + 1) = line
        /\ Reader!Lines(file) = Lines(file)
        /\ ~Reader!Refused(line) /\ ~Reader!Skipped(line)
    BY <1>4, <2>2, <2>3, ReaderSame
  <2>5. QED
    BY ONLY <1>1, <1>5, <2>2, <2>4 DEF Reader!NoMemory
<1>7. CASE str > Len(file) /\ cur < str
  <2>1. str = Len(file) + 1
    BY <1>3, <1>7
  <2>2. LinesBefore(str) = Lines(file) /\ Fragment(file) = line
    <3>1. /\ str - 1 \in str-1..Len(file) /\ str - 1 = Len(file)
          /\ str..str-1 = {}
      BY <1>3, <2>1
    <3>2. \A k \in str..str-1 : file[k] # NEWLINE
      BY <3>1
    <3>3. QED
      BY <1>1, <1>2, <3>1, <3>2, LineIs
  <2>3. Rest(line) # <<>>
    <3>1. /\ cur \in Int /\ str - 1 \in Int /\ cur <= str - 1
          /\ \A k \in cur..str-1 : k \in 1..Len(file)
      BY <1>3, <1>7, <2>1
    <3>2. \A k \in cur..str-1 : file[k] \in Token
      BY <1>1, <3>1, Places
    <3>3. Len(SubSeq(file, cur, str - 1)) = (str - 1) - cur + 1
      BY ONLY <3>1, <3>2, SubSeqProperties
    <3>4. Len(SubSeq(file, cur, str - 1)) # 0
      BY ONLY <3>1, <3>3
    <3>5. QED
      BY ONLY <1>4, <3>4, EmptySeq
  <2> HIDE DEF line
  <2>4. /\ Reader!Lines(file) = Lines(file) /\ Reader!Fragment(file) = line
        /\ ~Reader!Refused(line) /\ Reader!Rest(line) # <<>>
    BY <1>4, <2>2, <2>3, ReaderSame
  <2>5. QED
    BY ONLY <1>1, <1>5, <2>2, <2>4 DEF Reader!NoMemory
<1>8. QED
  BY <1>6, <1>7 DEF NoMemory

--------------------------------------------------------------------------------
LEMMA InitRInv == Init => RInv /\ Reader!Init
<1> SUFFICES ASSUME Init PROVE RInv /\ Reader!Init
  OBVIOUS
<1>1. IInv
  BY InitIInv
<1>2. PICK slack \in Slacks : memory = file \o slack \o <<NUL>>
  BY DEF Init
<1>3. /\ str = 1 /\ cur = 1 /\ pc = "parse" /\ account = NullAccount /\ file \in Files
      /\ list.accounts = <<>>
  BY DEF Init, new_account_list
<1>4. Behind
  <2> DEFINE S == Token \cup {NUL}
             text == file \o slack
             last == <<NUL>>
  <2>1. file \in Seq(S) /\ slack \in Seq(S) /\ last \in Seq(S) /\ Len(last) = 1
    <3>1. file \in Seq(Token) /\ slack \in Seq(Word) /\ Word \subseteq Token
      BY <1>3, FilesAssumption DEF FilesAssumption, Token
    <3>2. file \in Seq(S) /\ slack \in Seq(S)
      BY <3>1, SeqMonotonic
    <3>3. QED
      BY <3>2
  <2> HIDE DEF S
  <2>2. /\ text \in Seq(S) /\ Len(text) = Len(file) + Len(slack)
        /\ \A i \in 1..Len(file) + Len(slack) :
              text[i] = IF i <= Len(file) THEN file[i] ELSE slack[i - Len(file)]
    BY <2>1, ConcatProperties
  <2>3. Len(file) \in Nat /\ Len(slack) \in Nat
    BY <2>1, LenProperties
  <2>4. memory = text \o last
    BY <1>2
  <2> HIDE DEF text, last
  <2>5. /\ Len(memory) = Len(text) + 1
        /\ \A i \in 1..Len(text) : memory[i] = text[i]
    <3>1. /\ Len(text \o last) = Len(text) + Len(last)
          /\ \A i \in 1..Len(text) + Len(last) :
                (text \o last)[i] = IF i <= Len(text) THEN text[i] ELSE last[i - Len(text)]
      <4>1. text \in Seq(S) /\ last \in Seq(S)
        BY ONLY <2>1, <2>2
      <4>2. QED
        BY ONLY <4>1, ConcatProperties, Zenon
    <3>2. \A i \in 1..Len(text) : i \in 1..Len(text) + 1 /\ i <= Len(text)
      BY <2>2, <2>3
    <3>3. QED
      BY ONLY <2>1, <2>4, <3>1, <3>2
  <2>6. \A k \in 1..Len(slack) : memory[Len(file) + k] = slack[k]
    <3>1. \A k \in 1..Len(slack) : /\ Len(file) + k \in 1..Len(file) + Len(slack)
                                   /\ ~(Len(file) + k <= Len(file))
                                   /\ (Len(file) + k) - Len(file) = k
      BY ONLY <2>3
    <3>2. QED
      BY ONLY <2>2, <2>5, <3>1
  <2>7. QED
    BY <2>2, <2>5, <2>6 DEF Behind
<1>5. \E n \in Tally, c \in Marks : Scanned(n, c)
  <2>1. PICK c : c = [j \in 0..4 |-> 0]
    OBVIOUS
  <2>2. c \in Marks /\ c[0] = 0 /\ 0 \in Tally
    BY <2>1 DEF Marks, Tally
  <2>3. Scanned(0, c)
    BY <1>3, <2>2 DEF Scanned, Found, NullAccount
  <2>4. QED
    BY <2>2, <2>3
<1>6. Table = <<>>
  <2>1. list.accounts = <<>> /\ Len(list.accounts) = 0
    BY <1>3
  <2>2. TableIn(memory, list.accounts) = <<>>
    BY <2>1 DEF TableIn
  <2>3. QED
    BY <2>2, TableIs
<1>7. LinesBefore(str) = 0
  <2>1. file \in Seq(Token)
    BY <1>1 DEF IInv, TypeOK
  <2>2. 1 \in 1..Len(file) + 1
    BY <2>1, LenProperties
  <2>3. LinesBefore(1) = LinesTo(0)
    BY <2>1, <2>2, LinesBeforeIs
  <2>4. QED
    BY <1>3, <2>1, <2>3, BeforeEnds DEF LinesTo
<1>8. QED
  BY <1>1, <1>3, <1>4, <1>5, <1>6, <1>7 DEF RInv, Reader!Init

LEMMA NextRInv == RInv /\ [Next]_vars => RInv' /\ [Reader!Next]_(Reader!readerVars)
<1> SUFFICES ASSUME RInv, [Next]_vars
             PROVE  RInv' /\ [Reader!Next]_(Reader!readerVars)
  OBVIOUS
<1>1. IInv'
  BY NextIInv DEF RInv
<1>2. Behind'
  <2>1. PICK slack \in Slacks : /\ Len(memory) = Len(file) + Len(slack) + 1
                                /\ \A k \in 1..Len(slack) : memory[Len(file) + k] = slack[k]
    BY DEF RInv, Behind
  <2>2. file' = file /\ (memory' = memory
                          \/ (str \in 1..Len(file) /\ memory' = [memory EXCEPT ![str] = NUL]))
    <3>1. pc = "parse" => str \in Nat /\ 1 <= str /\ Len(file) \in Nat
      BY Places DEF RInv
    <3>2. QED
      BY <3>1 DEF Next, EndLine, EndDomain, EndUsername, EndIteration, EndField, EndLength,
         AtLength, RefuseLength, PassOver, EndOfFile, NoMemory, CutHere, At, vars
  <2>3. CASE memory' = memory
    BY <2>1, <2>2, <2>3 DEF Behind
  <2>4. CASE str \in 1..Len(file) /\ memory' = [memory EXCEPT ![str] = NUL]
    <3>1. memory \in Seq(Token \cup {NUL}) /\ Len(file) \in Nat /\ Len(slack) \in Nat
      BY LenProperties, FilesAssumption DEF RInv, IInv, TypeOK, FilesAssumption
    <3>2. str \in 1..Len(memory)
      BY <2>1, <2>4, <3>1
    <3>3. /\ Len(memory') = Len(memory)
          /\ \A k \in 1..Len(memory) : memory'[k] = IF k = str THEN NUL ELSE memory[k]
      BY <2>4, <3>1, <3>2, ExceptSeq
    <3>4. \A k \in 1..Len(slack) : Len(file) + k \in 1..Len(memory) /\ Len(file) + k # str
      BY <2>1, <2>4, <3>1
    <3>5. QED
      BY <2>1, <2>2, <3>3, <3>4 DEF Behind
  <2>5. QED
    BY <2>2, <2>3, <2>4
<1>3. CASE EndDomain \/ EndUsername \/ EndIteration \/ EndLength
  BY <1>1, <1>2, <1>3, EndFieldStep DEF RInv
<1>4. CASE EndLine
  BY <1>1, <1>2, <1>4, EndLineStep DEF RInv, Reader!Next
<1>5. CASE RefuseLength
  <2>1. pc' = "refused"
    BY <1>5 DEF RefuseLength
  <2>2. QED
    BY <1>1, <1>2, <1>5, <2>1, RefuseLengthStep DEF RInv
<1>6. CASE EndOfFile
  <2>1. pc' = "done"
    BY <1>6 DEF EndOfFile
  <2>2. QED
    BY <1>1, <1>2, <1>6, <2>1, EndOfFileStep DEF RInv, Reader!Next
<1>7. CASE PassOver
  <2>1. /\ IInv /\ pc = "parse" /\ str <= Len(file) /\ str' = str + 1
        /\ UNCHANGED <<file, memory, list, pc>>
        /\ memory[str] \in Word \cup {COMMA}
    BY <1>7 DEF RInv, PassOver, At
  <2>2. file[str] # NEWLINE
    <3>1. file[str] = memory[str]
      BY <2>1, Places
    <3>2. QED
      BY <2>1, <3>1, Tokens
  <2>3. UNCHANGED Reader!readerVars
    BY <2>1, <2>2, Stutters
  <2>4. PICK n \in Tally, c \in Marks : Scanned(n, c)
    BY <2>1 DEF RInv
  <2>5. Scanned(n, c)'
    BY <1>7, <2>1, <2>4, PassedOver
  <2>6. QED
    BY <1>1, <1>2, <2>3, <2>5 DEF RInv
<1>8. CASE UNCHANGED vars
  <2>1. /\ UNCHANGED <<file, memory, str, cur, account, list, pc>>
    BY <1>8 DEF vars
  <2>2. UNCHANGED Reader!readerVars
    <3>1. Table' = Table
      BY <2>1, TableIs
    <3>2. LinesBefore(str)' = LinesBefore(str)
      BY <2>1 DEF LinesBefore
    <3>3. QED
      BY <2>1, <3>1, <3>2 DEF Reader!readerVars
  <2>3. ASSUME NEW n, NEW c, Scanned(n, c) PROVE Scanned(n, c)'
    BY <2>1, <2>3 DEF Scanned
  <2>4. QED
    BY <1>1, <1>2, <2>1, <2>2, <2>3 DEF RInv
<1>9. CASE NoMemory
  <2>1. pc' = "crashed"
    BY <1>9 DEF NoMemory
  <2>2. QED
    BY <1>1, <1>2, <1>9, <2>1, NoMemoryStep DEF RInv, Reader!Next
<1>10. QED
  BY <1>3, <1>4, <1>5, <1>6, <1>7, <1>8, <1>9 DEF Next

\* The pointers into the buffer, read back as strings, are at every moment of the
\* scan the table that reading the file line by line gives, and every step takes
\* the next line, the fragment behind the last one, or nothing.
THEOREM Implements == Spec => ImplementsCsv
<1>1. RInv /\ [Next]_vars => RInv' /\ [Reader!Next]_(Reader!readerVars)
  BY NextRInv
<1>2. Init => RInv /\ Reader!Init
  BY InitRInv
<1>3. QED
  BY <1>1, <1>2, PTL DEF Spec, ImplementsCsv, Reader!Spec
================================================================================
