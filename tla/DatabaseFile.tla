----------------------------- MODULE DatabaseFile ------------------------------
(***************************************************************************)
(* read_entire_file of main.c: the account database is read chunk by chunk *)
(* into a buffer that doubles before the next chunk might not fit, up to a *)
(* limit.  One action is one iteration of the loop: the call of fread and  *)
(* everything its result leads to.                                         *)
(***************************************************************************)
EXTENDS Integers

CONSTANTS CHUNK_SIZE, MAX_DATABASE_FILE_SIZE,
          FileSizes    \* the sizes of the files that may be found

\* padre.h:28 and main.c:34: sixteen chunks.
ASSUME SizeAssumption == /\ CHUNK_SIZE \in Nat \ {0}
                         /\ MAX_DATABASE_FILE_SIZE = 16 * CHUNK_SIZE
                         /\ FileSizes \subseteq Nat

VARIABLES
    fileSize,     \* bytes the file has
    size,         \* buf.size, bytes read so far
    capacity,     \* buf.capacity
    allocated,    \* bytes at buf.data, 0 when it is null
    ferror,       \* the error indicator of the stream, which nobody asks for
    pc            \* "open", "read"; "done", "unopened", "refused", "crashed"

vars == <<fileSize, size, capacity, allocated, ferror, pc>>

Init == /\ fileSize \in FileSizes
        /\ size = 0
        /\ capacity = 0
        /\ allocated = 0
        /\ ferror = "clear"
        /\ pc = "open"

OpenFails == /\ pc = "open"
             /\ pc' = "unopened"
             /\ UNCHANGED <<fileSize, size, capacity, allocated, ferror>>

\* Nobody asks whether malloc, or realloc below, had the memory.
Open == /\ pc = "open"
        /\ allocated' \in {CHUNK_SIZE, 0}
        /\ capacity' = CHUNK_SIZE
        /\ pc' = "read"
        /\ UNCHANGED <<fileSize, size, ferror>>

\* fread returns a chunk or what is left of the file; fewer bytes, or none, when
\* an error occurs, and what is left may still be read by the next call.
Fread(n) == /\ pc = "read" /\ n <= CHUNK_SIZE /\ n <= fileSize - size
            /\ n > 0 => allocated > 0
            /\ ferror' = IF n = CHUNK_SIZE \/ n = fileSize - size THEN ferror
                         ELSE "set"

\* The bytes of a chunk are stored through a null pointer.
NoMemory == /\ pc = "read" /\ allocated = 0 /\ size < fileSize
            /\ pc' = "crashed"
            /\ UNCHANGED <<fileSize, size, capacity, allocated, ferror>>

\* Mutant: the next chunk is not thought of.
FitsNow(n) == size + n <= capacity

Fits(n)  == size + n + CHUNK_SIZE <= capacity

\* Mutant: a whole chunk is counted, however much was read.
FillByChunks == \E n \in 1..CHUNK_SIZE :
                   /\ Fread(n) /\ Fits(n)
                   /\ size' = size + CHUNK_SIZE
                   /\ UNCHANGED <<fileSize, capacity, allocated, pc>>

\* Mutant: what was read is not added to what was read before.
FillAnew == \E n \in 1..CHUNK_SIZE :
               /\ Fread(n) /\ n + CHUNK_SIZE <= capacity
               /\ size' = n
               /\ UNCHANGED <<fileSize, capacity, allocated, pc>>

Fill == \E n \in 1..CHUNK_SIZE :
           /\ Fread(n) /\ Fits(n)
           /\ size' = size + n
           /\ UNCHANGED <<fileSize, capacity, allocated, pc>>

\* Mutant: the limit is compared with the capacity before it is doubled.
GrowFirst == \E n \in 1..CHUNK_SIZE :
                /\ Fread(n) /\ ~Fits(n)
                /\ capacity <= MAX_DATABASE_FILE_SIZE
                /\ size' = size + n
                /\ capacity' = 2 * capacity
                /\ allocated' \in {2 * capacity, 0}
                /\ UNCHANGED <<fileSize, pc>>

Grow == \E n \in 1..CHUNK_SIZE :
           /\ Fread(n) /\ ~Fits(n)
           /\ 2 * capacity <= MAX_DATABASE_FILE_SIZE
           /\ size' = size + n
           /\ capacity' = 2 * capacity
           /\ allocated' \in {2 * capacity, 0}
           /\ UNCHANGED <<fileSize, pc>>

\* Mutant: data is not set to the null pointer.
RefuseWithData == \E n \in 1..CHUNK_SIZE :
                     /\ Fread(n) /\ ~Fits(n)
                     /\ 2 * capacity > MAX_DATABASE_FILE_SIZE
                     /\ size' = size + n
                     /\ capacity' = 2 * capacity
                     /\ pc' = "refused"
                     /\ UNCHANGED <<fileSize, allocated>>

\* Mutant: at the limit, what was read so far is accepted.
RefuseTheRest == \E n \in 1..CHUNK_SIZE :
                    /\ Fread(n) /\ ~Fits(n)
                    /\ 2 * capacity > MAX_DATABASE_FILE_SIZE
                    /\ pc' = "done"
                    /\ UNCHANGED <<fileSize, size, capacity, allocated>>

Refuse == \E n \in 1..CHUNK_SIZE :
             /\ Fread(n) /\ ~Fits(n)
             /\ 2 * capacity > MAX_DATABASE_FILE_SIZE
             /\ size' = size + n
             /\ capacity' = 2 * capacity
             /\ allocated' = 0
             /\ pc' = "refused"
             /\ UNCHANGED fileSize

\* fread returns 0, and nobody asks whether it was the end of the file.
Stop == /\ Fread(0)
        /\ pc' = "done"
        /\ UNCHANGED <<fileSize, size, capacity, allocated>>

Next == OpenFails \/ Open \/ NoMemory \/ Fill \/ Grow \/ Refuse \/ Stop

\* One thread reads the file: while it can step, it does.
Spec == Init /\ [][Next]_vars /\ WF_vars(Next)

--------------------------------------------------------------------------------
\* The type invariant.
TypeOK == /\ fileSize \in Nat
          /\ size \in 0..fileSize
          /\ capacity \in Nat
          /\ allocated \in Nat
          /\ ferror \in {"clear", "set"}
          /\ pc \in {"open", "read", "done", "unopened", "refused", "crashed"}

\* Whenever fread is called, a whole chunk fits behind what was read, whatever
\* the sizes of the pieces it arrived in, unless there was no memory at all
\* (main.c:51-63).
ReadFits == pc = "read" /\ allocated > 0 => size + CHUNK_SIZE <= allocated

\* The file that is handed to the parser has room behind it, which the parser
\* needs for a last field without a line end; the file that is refused leaves
\* no data behind, which is how the caller recognises it (main.c:76).
SlackBehindData == /\ pc = "done" => size < allocated \/ allocated = 0
                   /\ pc \in {"open", "unopened", "refused"} => allocated = 0

\* Short of a read error a file is read whole or not at all: the parser never
\* sees the beginning of a file only.
AcceptedWhole == pc = "done" => size = fileSize \/ ferror = "set"

\* The buffer never gets bigger than the limit, and so no file beyond the limit is
\* accepted (main.c:55-61).
LimitKept == /\ allocated <= MAX_DATABASE_FILE_SIZE
             /\ pc = "done" /\ ferror = "clear" => fileSize < MAX_DATABASE_FILE_SIZE

\* Reading ends, an input without end included: it reaches the limit.
Ends == <>(pc \in {"done", "unopened", "refused", "crashed"})

\* "Error: database file exceeds size limit" (main.c:57), a limit of
\* MAX_DATABASE_FILE_SIZE (padre.h:28): what is refused with it exceeds the limit.
RefusedExceeds == pc = "refused" => fileSize > MAX_DATABASE_FILE_SIZE
================================================================================
