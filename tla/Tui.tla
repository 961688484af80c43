---------------------------------- MODULE Tui ----------------------------------
(***************************************************************************)
(* tui.c: the menu that selects an account and the prompt that reads the   *)
(* master password, key by key.  getch() delivers a key code, or ERR (EOF) *)
(* when there is no more input.  The caller starts a call with ShowMenu or *)
(* AskPassword and finds the outcome in `answer` once it is over.          *)
(***************************************************************************)
EXTENDS Integers, Sequences

CONSTANTS MAX_MASTER_PASSWORD_LENGTH,
          Keys        \* the key codes the terminal may send

ASSUME KeysAssumption   == Keys \subseteq Nat
ASSUME LengthAssumption == MAX_MASTER_PASSWORD_LENGTH \in Nat \ {0}

EOF       == -1
ENTER     == 10
QUIT      == 113       \* 'q'
KEY_DOWN  == 258
KEY_UP    == 259
NO_ANSWER == -2
FAILED    == -1
Label     == {"named", "nameless"}

VARIABLES
    screen,    \* "normal", or "curses" between initscr and endwin
    call,      \* "none", "posting", "menu", "prompt", or "crashed"
    items,     \* the menu's items, of which only the name matters: see Label
    current,   \* the item under the cursor, counted from 0
    passwd,    \* what the caller's buffer was filled with
    drained,   \* the input has ended: getch returns ERR from now on
    answer     \* what the last call returned

tuiVars == <<screen, call, items, current, passwd, drained, answer>>

TuiInit == /\ screen = "normal"
           /\ call = "none"
           /\ items = <<>>
           /\ current = 0
           /\ passwd = <<>>
           /\ drained \in BOOLEAN
           /\ answer = NO_ANSWER

--------------------------------------------------------------------------------
\* What getch() may return: a key, or ERR if the input ends here or ended before.
getch(c) == /\ IF drained THEN c = EOF ELSE c \in Keys \cup {EOF}
            /\ drained' = (c = EOF)

initscr(newCall) == /\ call = "none"
                    /\ call' = newCall
                    /\ screen' = "curses"
                    /\ answer' = NO_ANSWER

\* Mutant: endwin is forgotten.
AnswerInCurses(a) == /\ answer' = a
                     /\ call' = "none"
                     /\ UNCHANGED screen

\* endwin and return.
Answer(a) == /\ answer' = a
             /\ call' = "none"
             /\ screen' = "normal"

--------------------------------------------------------------------------------
ShowMenu(labels) == /\ initscr("posting")
                   /\ items' = labels
                   /\ current' = 0
                   /\ UNCHANGED <<passwd, drained>>

\* new_item refuses an item without a name, and its null pointer ends the menu.
Shown == LET gaps == {i \in 1..Len(items) : items[i] = "nameless"}
         IN  IF gaps = {} THEN Len(items)
             ELSE (CHOOSE i \in gaps : \A j \in gaps : i <= j) - 1

PostMenu == /\ call = "posting" /\ Shown > 0
            /\ call' = "menu"
            /\ UNCHANGED <<screen, items, current, passwd, drained, answer>>

\* Nobody asks whether there is memory for the items: they are stored through a
\* null pointer, in curses mode.
NoMemory == /\ call = "posting"
            /\ call' = "crashed"
            /\ UNCHANGED <<screen, items, current, passwd, drained, answer>>

\* post_menu fails without items, and for reasons of its own.
PostFails == /\ call = "posting"
             /\ Answer(FAILED)
             /\ UNCHANGED <<items, current, passwd, drained>>

\* Mutant: the menu is taken to hold the whole list.
MoveDownBeyond == /\ call = "menu" /\ getch(KEY_DOWN)
                  /\ current' = IF current + 1 < Len(items) THEN current + 1 ELSE current
                  /\ UNCHANGED <<screen, call, items, passwd, answer>>

MoveDown == /\ call = "menu" /\ getch(KEY_DOWN)
            /\ current' = IF current + 1 < Shown THEN current + 1 ELSE current
            /\ UNCHANGED <<screen, call, items, passwd, answer>>

MoveUp == /\ call = "menu" /\ getch(KEY_UP)
          /\ current' = IF current > 0 THEN current - 1 ELSE current
          /\ UNCHANGED <<screen, call, items, passwd, answer>>

\* Mutant: items are counted from 1.
SelectNext == /\ call = "menu" /\ getch(ENTER)
              /\ Answer(current + 1)
              /\ UNCHANGED <<items, current, passwd>>

Select == /\ call = "menu" /\ getch(ENTER)
          /\ Answer(current)
          /\ UNCHANGED <<items, current, passwd>>

Quit == /\ call = "menu" /\ getch(QUIT)
        /\ Answer(FAILED)
        /\ UNCHANGED <<items, current, passwd>>

\* Any other key, and ERR too, leaves the menu as it is.
Ignore == /\ call = "menu"
          /\ \E c \in (Keys \cup {EOF}) \ {KEY_DOWN, KEY_UP, ENTER, QUIT} : getch(c)
          /\ UNCHANGED <<screen, call, items, current, passwd, answer>>

--------------------------------------------------------------------------------
AskPassword == /\ initscr("prompt")
               /\ passwd' = <<>>
               /\ UNCHANGED <<items, current, drained>>

\* Mutant: the buffer holds ints.
StoredWide(c) == c

\* The conversion of a key code to a char, as the byte it stores.
Stored(c) == c % 256

\* Mutant: the buffer's length is compared with <=.
TypeKeyTooFar == /\ call = "prompt" /\ Len(passwd) <= MAX_MASTER_PASSWORD_LENGTH
                 /\ \E c \in Keys \ {ENTER} :
                       getch(c) /\ passwd' = Append(passwd, Stored(c))
                 /\ UNCHANGED <<screen, call, items, current, answer>>

TypeKey == /\ call = "prompt" /\ Len(passwd) < MAX_MASTER_PASSWORD_LENGTH
           /\ \E c \in Keys \ {ENTER} :
                 getch(c) /\ passwd' = Append(passwd, Stored(c))
           /\ UNCHANGED <<screen, call, items, current, answer>>

\* ENTER ends the prompt, and so does the first key the buffer has no room for.
\* The NUL behind the password is not part of the length that is answered.
Accept == /\ call = "prompt"
          /\ \E c \in Keys :
                /\ c = ENTER \/ Len(passwd) = MAX_MASTER_PASSWORD_LENGTH
                /\ getch(c)
          /\ Answer(Len(passwd))
          /\ UNCHANGED <<items, current, passwd>>

\* Mutant: the prompt ignores ERR, as the menu does.
InputIgnored == /\ call = "prompt" /\ getch(EOF)
                /\ UNCHANGED <<screen, call, items, current, passwd, answer>>

\* Mutant: the prompt fails before it gets to endwin.
InputEndsInCurses == /\ call = "prompt" /\ getch(EOF)
                     /\ answer' = FAILED
                     /\ call' = "none"
                     /\ UNCHANGED <<screen, items, current, passwd>>

\* The prompt fails and leaves in the buffer what was typed.
InputEnds == /\ call = "prompt" /\ getch(EOF)
             /\ Answer(FAILED)
             /\ UNCHANGED <<items, current, passwd>>

TuiStep == \/ PostMenu \/ PostFails \/ NoMemory
           \/ MoveDown \/ MoveUp \/ Select \/ Quit \/ Ignore
           \/ TypeKey \/ Accept \/ InputEnds
================================================================================
