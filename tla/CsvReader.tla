------------------------------- MODULE CsvReader -------------------------------
(***************************************************************************)
(* What parse_accounts promises: the database is read line by line into a  *)
(* table.  A line without a username is left out, a length that is not     *)
(* positive refuses the whole file, and what follows the last line end is  *)
(* taken without being validated, its last field running on into whatever  *)
(* the buffer holds behind the file.                                       *)
(***************************************************************************)
EXTENDS Csv

CONSTANTS Files,    \* the files that may be read
          Slacks    \* what may be found behind the file, up to a NUL

VARIABLES file, table, taken, verdict

readerVars == <<file, table, taken, verdict>>

Init == /\ file \in Files
        /\ table = <<>>
        /\ taken = 0
        /\ verdict = "reading"

Refuse == /\ verdict' = "refused"
          /\ table' = <<>>
          /\ UNCHANGED <<file, taken>>

\* Mutant: a line without a username is kept.
TakeLineKept == /\ verdict = "reading" /\ taken < Lines(file)
                /\ LET line == Line(file, taken + 1)
                   IN  IF Refused(line) THEN Refuse
                       ELSE /\ table' = Append(table, EntryOf(line))
                            /\ taken' = taken + 1
                            /\ UNCHANGED <<file, verdict>>

TakeLine == /\ verdict = "reading" /\ taken < Lines(file)
            /\ LET line == Line(file, taken + 1)
               IN  IF Refused(line) THEN Refuse
                   ELSE /\ table' = IF Skipped(line) THEN table
                                    ELSE Append(table, EntryOf(line))
                        /\ taken' = taken + 1
                        /\ UNCHANGED <<file, verdict>>

TakeFragment ==
    /\ verdict = "reading" /\ taken = Lines(file)
    /\ LET line == Fragment(file)
       IN  IF Refused(line) THEN Refuse
           ELSE /\ verdict' = "done"
                /\ IF Rest(line) = <<>> THEN UNCHANGED table
                   ELSE \E slack \in Slacks :
                          table' = Append(table, [EntryOf(line)
                                                    EXCEPT !.characters = @ \o slack])
                /\ UNCHANGED <<file, taken>>

\* There is no memory for the entry of the next line, which nobody notices.
NoMemory == /\ verdict = "reading"
            /\ \/ /\ taken < Lines(file)
                  /\ LET line == Line(file, taken + 1)
                     IN  ~Refused(line) /\ ~Skipped(line)
               \/ /\ taken = Lines(file)
                  /\ ~Refused(Fragment(file)) /\ Rest(Fragment(file)) # <<>>
            /\ verdict' = "crashed"
            /\ UNCHANGED <<file, table, taken>>

Next == TakeLine \/ TakeFragment \/ NoMemory

\* That the reading comes to an end is a promise of its own.
Spec == Init /\ [][Next]_readerVars
Ends == <>(verdict # "reading")
================================================================================
