-------------------------- MODULE DatabaseFile_proofs --------------------------
(***************************************************************************)
(* Proofs about DatabaseFile for every chunk size and every file.  The     *)
(* invariant ties the capacity to the powers of two it runs through, the   *)
(* last of which is the limit, and the allocation to the capacity.         *)
(***************************************************************************)
EXTENDS DatabaseFile, TLAPS

Capacities == {CHUNK_SIZE, 2 * CHUNK_SIZE, 4 * CHUNK_SIZE, 8 * CHUNK_SIZE,
               16 * CHUNK_SIZE}

\* The inductive invariant: while reading, a chunk fits behind what was read, and
\* the buffer, if there is memory for it, has the capacity it is taken to have.
IInv == /\ TypeOK
        /\ pc = "open" => size = 0 /\ allocated = 0
        /\ pc = "unopened" => allocated = 0
        /\ pc \in {"read", "done"} => /\ capacity \in Capacities
                                      /\ allocated \in {capacity, 0}
                                      /\ size + CHUNK_SIZE <= capacity
        /\ pc = "done" => size = fileSize \/ ferror = "set"
        /\ pc \in {"refused", "crashed"} => allocated = 0

LEMMA InitIInv == Init => IInv
  BY SizeAssumption DEF SizeAssumption, Init, IInv, TypeOK

LEMMA NextIInv == IInv /\ [Next]_vars => IInv'
<1> SUFFICES ASSUME IInv, [Next]_vars PROVE IInv'
  OBVIOUS
<1> USE SizeAssumption DEF SizeAssumption, IInv, TypeOK, Capacities
<1>1. CASE OpenFails
  BY <1>1 DEF OpenFails
<1>2. CASE Open
  BY <1>2 DEF Open
<1>3. CASE Fill
  BY <1>3 DEF Fill, Fread, Fits
<1>4. CASE Grow
  BY <1>4 DEF Grow, Fread, Fits
<1>5. CASE Refuse
  BY <1>5 DEF Refuse, Fread, Fits
<1>6. CASE Stop
  BY <1>6 DEF Stop, Fread
<1>7. CASE NoMemory
  BY <1>7 DEF NoMemory
<1>8. CASE UNCHANGED vars
  BY <1>8 DEF vars
<1>9. QED
  BY <1>1, <1>2, <1>3, <1>4, <1>5, <1>6, <1>7, <1>8 DEF Next

LEMMA Invariance == Spec => []IInv
  BY InitIInv, NextIInv, PTL DEF Spec

\* The variables have their types.
THEOREM TypeCorrect == Spec => []TypeOK
<1>1. IInv => TypeOK
  BY DEF IInv
<1>2. QED
  BY Invariance, <1>1, PTL

\* fread never writes behind the buffer, for any chunk size and any pieces the
\* file arrives in.
THEOREM ReadAlwaysFits == Spec => []ReadFits
<1>1. IInv => ReadFits
  BY DEF IInv, ReadFits
<1>2. QED
  BY Invariance, <1>1, PTL

\* The parser gets a buffer that goes on behind the file, or none.
THEOREM SlackIsThere == Spec => []SlackBehindData
<1>1. IInv => SlackBehindData
  BY SizeAssumption DEF SizeAssumption, IInv, TypeOK, SlackBehindData, Capacities
<1>2. QED
  BY Invariance, <1>1, PTL

\* What is parsed is the whole file, unless reading it failed.
THEOREM WholeOrNothing == Spec => []AcceptedWhole
<1>1. IInv => AcceptedWhole
  BY DEF IInv, AcceptedWhole
<1>2. QED
  BY Invariance, <1>1, PTL

\* Neither the buffer nor a file that is accepted exceeds MAX_DATABASE_FILE_SIZE.
THEOREM LimitIsKept == Spec => []LimitKept
<1>1. IInv => LimitKept
  BY SizeAssumption DEF SizeAssumption, IInv, TypeOK, LimitKept, Capacities
<1>2. QED
  BY Invariance, <1>1, PTL
================================================================================
