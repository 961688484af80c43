-------------------------------- MODULE Terminal -------------------------------
(***************************************************************************)
(* tui.c with a caller that calls it in any order and with any list, and a *)
(* user that presses any keys.                                             *)
(***************************************************************************)
EXTENDS Tui

CONSTANT Menus    \* the lists a caller may show

ASSUME MenusAssumption == Menus \subseteq Seq(Label)

\* The program has crashed.
Gone == call = "crashed" /\ UNCHANGED tuiVars

TuiNext == \/ \E labels \in Menus : ShowMenu(labels)
           \/ AskPassword
           \/ TuiStep
           \/ Gone

\* The calls run on: the user goes on pressing keys, or the input ends.
TuiSpec == TuiInit /\ [][TuiNext]_tuiVars /\ WF_tuiVars(TuiStep)

--------------------------------------------------------------------------------
TuiTypes == /\ screen \in {"normal", "curses"}
            /\ call \in {"none", "posting", "menu", "prompt", "crashed"}
            /\ items \in Seq(Label)
            /\ current \in Nat
            /\ passwd \in Seq(0..255)
            /\ drained \in BOOLEAN
            /\ answer \in Int

\* The menu's cursor stays on an item with a name.
CursorOnItem == call = "menu" => /\ current + 1 \in 1..Len(items)
                                 /\ items[current + 1] = "named"

\* The type invariant; the type of the cursor is the items with a name.
TuiTypeOK == TuiTypes /\ CursorOnItem

\* The terminal is in curses mode during a call and never after it, whichever
\* way the call returns (the endwin of tui.c:75, 86 and 115).
ScreenRestored == screen = "curses" <=> call # "none"

\* The length that is answered is that of a password the buffer can hold, keys
\* beyond it notwithstanding.
PasswordFits == Len(passwd) <= MAX_MASTER_PASSWORD_LENGTH

\* What the menu answers is an index into the caller's own list, although the
\* menu may hold fewer items than the list, and it is the item under the cursor.
SelectionIsItem ==
    [][call = "menu" /\ call' = "none" =>
          \/ answer' = FAILED
          \/ /\ answer' = current
             /\ answer' + 1 \in 1..Len(items)
             /\ items[answer' + 1] = "named"]_tuiVars

\* A prompt ends even if the user never presses ENTER, and if the input ends.
PromptEnds == call = "prompt" ~> call = "none"

\* "len -- The length of the buffer resp. the length of the read password string
\* not including the terminating null byte" (tui.c:94): the byte that terminates
\* a password of the length answered is a byte of the buffer.
TerminatorInBuffer ==
    [][call = "prompt" /\ call' = "none" => answer' < MAX_MASTER_PASSWORD_LENGTH]_tuiVars
================================================================================
