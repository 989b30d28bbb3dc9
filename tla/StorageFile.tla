----------------------------- MODULE StorageFile -----------------------------
(***************************************************************************)
(* What the download FIFO promises the StreamControl task, its reader: the *)
(* file being downloaded, as if it were already there.  FileBuffer models  *)
(* its "fifo" storage this way (ServeSeek, ServeReadSome, ServeReadEnd),   *)
(* without ReadFails and SkipsBytes.                                       *)
(*                                                                         *)
(* A byte stands for itself by its offset in the file.                     *)
(***************************************************************************)
EXTENDS Integers

CONSTANTS
  FileLen,              \* bytes in the file
  ReadLens              \* lengths of read requests

VARIABLES
  offset,               \* where the next read starts
  answer,               \* what the last read returned
  early,                \* a reader may be told to go on before its data came
  intact                \* no read has skipped bytes of the file

vars == <<offset, answer, early, intact>>

\* A read that returned len bytes, which are the file's from offset "from" on,
\* provided all of them had been downloaded when they were copied (fresh).
Data(from, len, fresh) == [kind |-> "data", from |-> from, len |-> len, fresh |-> fresh]

\* A read that returned RK_ERROR.
Error == [kind |-> "error", from |-> 0, len |-> 0, fresh |-> FALSE]

Init ==
  /\ offset = 0
  /\ answer = Data(0, 0, TRUE)
  /\ early = FALSE
  /\ intact = TRUE

\* A read returns as much as was asked for, or what is left of the file.
Read(n) ==
  /\ offset < FileLen
  /\ LET len == IF offset + n <= FileLen THEN n ELSE FileLen - offset
     IN /\ answer' = Data(offset, len, TRUE)
        /\ offset' = offset + len
  /\ UNCHANGED <<early, intact>>

ReadAtEnd ==
  /\ offset = FileLen
  /\ answer' = Error
  /\ UNCHANGED <<offset, early, intact>>

Seek ==
  /\ offset' \in 0 .. FileLen - 1
  /\ UNCHANGED <<answer, early, intact>>

\* The size of the file is set before anyone asked for it.
SizeSetEarly ==
  /\ early' = TRUE
  /\ UNCHANGED <<offset, answer, intact>>

\* Only then, a read inside the file may fail; it takes nothing.
ReadFails ==
  /\ early
  /\ answer' = Error
  /\ UNCHANGED <<offset, early, intact>>

\* Only then, a read may skip bytes.  Nothing is promised from there on.
SkipsBytes == early /\ early' /\ ~intact'

Serve == (\E n \in ReadLens: Read(n)) \/ ReadAtEnd \/ Seek

Next == (intact /\ (Serve \/ SizeSetEarly \/ ReadFails)) \/ SkipsBytes

Spec == Init /\ [][Next]_vars
=============================================================================
