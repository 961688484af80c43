------------------------------ MODULE MCTerminal -------------------------------
(***************************************************************************)
(* Terminal with a password buffer of three bytes, a letter, the keys that *)
(* mean something to the menu, a function key whose code does not fit a    *)
(* char, and menus of up to three items of which any may have no name.     *)
(***************************************************************************)
EXTENDS Terminal

KEY_BACKSPACE == 263
MCKeys  == {97, ENTER, QUIT, KEY_DOWN, KEY_UP, KEY_BACKSPACE}
MCMenus == UNION {[1..n -> Label] : n \in 2..3}
================================================================================
