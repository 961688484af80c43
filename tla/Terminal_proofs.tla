---------------------------- MODULE Terminal_proofs ----------------------------
(***************************************************************************)
(* Facts about tui.c, whoever calls it, and proofs about Terminal for      *)
(* every buffer, key set and menu.  The cursor moves among the items       *)
(* before the first one without a name, which is why the index that is     *)
(* answered means the same item in the caller's list.                      *)
(***************************************************************************)
EXTENDS Terminal, SequenceTheorems, WellFoundedInduction, TLAPS

\* The menu holds a beginning of the list, of items with a name.
LEMMA ShownType ==
  ASSUME items \in Seq(Label)
  PROVE  /\ Shown \in 0..Len(items)
         /\ \A i \in 1..Shown : items[i] = "named"
<1> DEFINE gaps == {i \in 1..Len(items) : items[i] = "nameless"}
<1>1. \A i \in 1..Len(items) : i \notin gaps => items[i] = "named"
  BY ElementOfSeq DEF Label
<1>2. CASE gaps = {}
  BY <1>1, <1>2 DEF Shown
<1>3. CASE gaps # {}
  <2>1. \E n \in gaps : \A m \in gaps : n <= m
    <3>1. gaps \subseteq Nat
      OBVIOUS
    <3>2. PICK n \in gaps : \A m \in gaps : <<m, n>> \notin OpToRel(<, Nat)
      BY <1>3, <3>1, NatLessThanWellFounded, WFMin
    <3>3. \A m \in gaps : ~(m < n)
      BY <3>1, <3>2 DEF OpToRel
    <3>4. QED
      BY <3>1, <3>3
  <2>2. PICK k \in gaps : Shown = k - 1 /\ \A m \in gaps : k <= m
    BY <1>3, <2>1 DEF Shown
  <2>3. QED
    BY <1>1, <2>2
<1>4. QED
  BY <1>2, <1>3

\* A byte is stored, whatever key is typed.
LEMMA StoredType == \A c \in Nat : Stored(c) \in 0..255
  BY DEF Stored

--------------------------------------------------------------------------------
\* A step in the menu keeps the cursor on what is shown, and answers with it.
LEMMA MenuStep ==
  ASSUME TuiStep, call \in {"posting", "menu"}, items \in Seq(Label), current \in Nat,
         call = "posting" => current = 0,
         call = "menu" => current < Shown
  PROVE  /\ UNCHANGED <<items, passwd>> /\ current' \in Nat
         /\ \/ call' = "posting" /\ current' = 0 /\ screen' = screen
            \/ call' = "menu" /\ current' < Shown' /\ screen' = screen
            \/ call' = "crashed" /\ screen' = screen
            \/ /\ call' = "none" /\ screen' = "normal"
               /\ answer' >= 0 => answer' = current' /\ current' < Len(items)
<1>1. Shown \in 0..Len(items) /\ Len(items) \in Nat
  BY ShownType, LenProperties
<1>2. items' = items => Shown' = Shown
  BY DEF Shown
<1> USE DEF FAILED
<1>3. CASE PostMenu
  BY <1>1, <1>2, <1>3 DEF PostMenu
<1>4. CASE PostFails
  BY <1>4 DEF PostFails, Answer
<1>5. CASE MoveDown
  BY <1>1, <1>2, <1>5 DEF MoveDown
<1>6. CASE MoveUp
  BY <1>1, <1>2, <1>6 DEF MoveUp
<1>7. CASE Select
  BY <1>1, <1>7 DEF Select, Answer
<1>8. CASE Quit
  BY <1>8 DEF Quit, Answer
<1>9. CASE Ignore
  BY <1>2, <1>9 DEF Ignore
<1>10. CASE NoMemory
  BY <1>10 DEF NoMemory
<1>11. QED
  BY <1>3, <1>4, <1>5, <1>6, <1>7, <1>8, <1>9, <1>10 DEF TuiStep, TypeKey, Accept,
     InputEnds

\* A step in the prompt leaves the menu's variables alone.
LEMMA PromptStep ==
  ASSUME TuiStep, call = "prompt", passwd \in Seq(0..255)
  PROVE  /\ UNCHANGED <<items, current>> /\ passwd' \in Seq(0..255)
         /\ \/ call' = "prompt" /\ screen' = screen
            \/ call' = "none" /\ screen' = "normal"
<1>1. CASE TypeKey
  <2>1. PICK c \in Keys : passwd' = Append(passwd, Stored(c))
    BY <1>1 DEF TypeKey
  <2>2. Stored(c) \in 0..255
    BY KeysAssumption, StoredType DEF KeysAssumption
  <2>3. passwd' \in Seq(0..255)
    BY <2>1, <2>2, AppendProperties
  <2>4. QED
    BY <1>1, <2>3 DEF TypeKey
<1>2. CASE Accept
  BY <1>2 DEF Accept, Answer
<1>3. CASE InputEnds
  BY <1>3 DEF InputEnds, Answer
<1>4. QED
  BY <1>1, <1>2, <1>3 DEF TuiStep, PostMenu, PostFails, NoMemory, MoveDown, MoveUp,
     Select, Quit, Ignore

--------------------------------------------------------------------------------
\* The inductive invariant: the cursor is within what the menu shows.
TuiInv == /\ TuiTypes
          /\ ScreenRestored
          /\ PasswordFits
          /\ call = "posting" => current = 0
          /\ call = "menu" => current < Shown

LEMMA InitTuiInv == TuiInit => TuiInv
  BY LengthAssumption DEF LengthAssumption, TuiInit, TuiInv, TuiTypes, ScreenRestored,
     PasswordFits, NO_ANSWER, Label

LEMMA NextTuiInv == TuiInv /\ [TuiNext]_tuiVars => TuiInv'
<1> SUFFICES ASSUME TuiInv, [TuiNext]_tuiVars PROVE TuiInv'
  OBVIOUS
<1> USE DEF TuiInv, TuiTypes, ScreenRestored, PasswordFits, NO_ANSWER, FAILED
<1>0. Shown \in 0..Len(items)
  BY ShownType
<1>a. items' = items => Shown' = Shown
  BY DEF Shown
<1>b. \A c : getch(c) => drained' \in BOOLEAN
  BY DEF getch
<1>1. CASE \E labels \in Menus : ShowMenu(labels)
  BY <1>1, MenusAssumption DEF MenusAssumption, ShowMenu, initscr
<1>2. CASE AskPassword
  BY <1>2, LengthAssumption DEF LengthAssumption, AskPassword, initscr
<1>3. CASE PostMenu
  BY <1>0, <1>a, <1>3 DEF PostMenu
<1>4. CASE PostFails
  BY <1>4 DEF PostFails, Answer
<1>5. CASE MoveDown
  BY <1>0, <1>a, <1>b, <1>5 DEF MoveDown
<1>6. CASE MoveUp
  BY <1>0, <1>a, <1>b, <1>6 DEF MoveUp
<1>7. CASE Select
  BY <1>b, <1>7 DEF Select, Answer
<1>8. CASE Quit
  BY <1>b, <1>8 DEF Quit, Answer
<1>9. CASE Ignore
  BY <1>a, <1>b, <1>9 DEF Ignore
<1>10. CASE TypeKey
  <2>1. PICK c \in Keys : getch(c) /\ passwd' = Append(passwd, Stored(c))
    BY <1>10 DEF TypeKey
  <2>2. Stored(c) \in 0..255
    BY KeysAssumption, StoredType DEF KeysAssumption
  <2>3. /\ passwd' \in Seq(0..255)
        /\ Len(passwd') = Len(passwd) + 1
    BY <2>1, <2>2, AppendProperties
  <2>4. Len(passwd') <= MAX_MASTER_PASSWORD_LENGTH
    BY <1>10, <2>3, LengthAssumption DEF LengthAssumption, TypeKey
  <2>5. QED
    BY <1>b, <1>10, <2>1, <2>3, <2>4 DEF TypeKey
<1>11. CASE Accept
  BY <1>b, <1>11 DEF Accept, Answer
<1>12. CASE InputEnds
  BY <1>b, <1>12 DEF InputEnds, Answer
<1>13. CASE Gone \/ UNCHANGED tuiVars
  BY <1>a, <1>13 DEF Gone, tuiVars
<1>14. CASE NoMemory
  BY <1>14 DEF NoMemory
<1>15. QED
  BY <1>1, <1>2, <1>3, <1>4, <1>5, <1>6, <1>7, <1>8, <1>9, <1>10, <1>11, <1>12,
     <1>13, <1>14 DEF TuiNext, TuiStep

LEMMA TuiInvariance == TuiSpec => []TuiInv
  BY InitTuiInv, NextTuiInv, PTL DEF TuiSpec

\* The variables have their types, and the cursor is on an item with a name.
THEOREM TuiTypeCorrect == TuiSpec => []TuiTypeOK
<1>1. TuiInv => TuiTypeOK
  BY ShownType DEF TuiInv, TuiTypes, TuiTypeOK, CursorOnItem
<1>2. QED
  BY TuiInvariance, <1>1, PTL

\* Every way out of a call leaves curses mode.
THEOREM ScreenIsRestored == TuiSpec => []ScreenRestored
<1>1. TuiInv => ScreenRestored
  BY DEF TuiInv
<1>2. QED
  BY TuiInvariance, <1>1, PTL

\* However many keys are pressed, the password has at most the buffer's length.
THEOREM PasswordAlwaysFits == TuiSpec => []PasswordFits
<1>1. TuiInv => PasswordFits
  BY DEF TuiInv
<1>2. QED
  BY TuiInvariance, <1>1, PTL

\* A selection is an index into the caller's list, of the item under the cursor.
THEOREM SelectsItems == TuiSpec => SelectionIsItem
<1>1. TuiInv /\ [TuiNext]_tuiVars =>
        [call = "menu" /\ call' = "none" =>
            \/ answer' = FAILED
            \/ /\ answer' = current
               /\ answer' + 1 \in 1..Len(items)
               /\ items[answer' + 1] = "named"]_tuiVars
  <2> SUFFICES ASSUME TuiInv, TuiNext, call = "menu", call' = "none"
               PROVE  \/ answer' = FAILED
                      \/ /\ answer' = current
                         /\ answer' + 1 \in 1..Len(items)
                         /\ items[answer' + 1] = "named"
    OBVIOUS
  <2>1. CursorOnItem
    BY ShownType DEF TuiInv, TuiTypes, CursorOnItem
  <2>2. Select \/ Quit
    BY DEF TuiNext, TuiStep, ShowMenu, AskPassword, initscr, PostMenu, PostFails,
       NoMemory, Gone, MoveDown, MoveUp, Ignore, TypeKey, Accept, InputEnds
  <2>3. answer' = current \/ answer' = FAILED
    BY <2>2 DEF Select, Quit, Answer
  <2>4. QED
    BY <2>1, <2>3 DEF CursorOnItem
<1>2. QED
  BY TuiInvariance, <1>1, PTL DEF TuiSpec, SelectionIsItem
================================================================================
