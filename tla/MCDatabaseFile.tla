---------------------------- MODULE MCDatabaseFile -----------------------------
(***************************************************************************)
(* DatabaseFile with a chunk of four bytes and the sixteen chunks of the   *)
(* program, on every size of file up to a chunk more than the limit, each  *)
(* arriving in pieces of every size.                                       *)
(***************************************************************************)
EXTENDS DatabaseFile

MCFileSizes == 0..MAX_DATABASE_FILE_SIZE + CHUNK_SIZE
================================================================================
