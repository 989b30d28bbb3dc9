------------------------------ MODULE AudioFile ------------------------------
(***************************************************************************)
(* What the buffered file layer of the B core promises its codecs          *)
(* (RKFIO_FRead and RKFIO_FSeek once AudioFileFuncInit2 has installed      *)
(* them): a plain sequential file.  A byte of the file stands for itself   *)
(* by its offset, so a piece of the file handed to a codec is where it     *)
(* starts and how long it is.                                              *)
(*                                                                         *)
(* The promise holds until the storage side has reported the end of the    *)
(* file.  From there until the next seek that restarts the buffers,        *)
(* nothing is promised: FileBuffer's runs show why.                        *)
(***************************************************************************)
EXTENDS Integers

CONSTANT FileLen        \* bytes in the file

VARIABLES
  position,             \* offset of the next byte the codec is owed
  chunk,                \* the piece of file handed over last
  ended                 \* the storage side has reported the end of the file

vars == <<position, chunk, ended>>

\* A piece of memory given to a codec: len bytes that are the file's bytes
\* from offset "from", provided all of them were really read from it (fresh).
Piece(from, len, fresh) == [from |-> from, len |-> len, fresh |-> fresh]

Init ==
  /\ position = 0
  /\ chunk = Piece(0, 0, TRUE)
  /\ ended = FALSE

\* The next bytes of the file, in order, none skipped and none twice.
Deliver ==
  /\ ~ended
  /\ chunk'.from = position
  /\ chunk'.fresh
  /\ chunk'.len \in Nat
  /\ position + chunk'.len <= FileLen
  /\ position' = position + chunk'.len
  /\ UNCHANGED ended

\* A seek moves the codec inside the file and hands nothing over.
Seek ==
  /\ ~ended
  /\ position' \in 0 .. FileLen
  /\ UNCHANGED <<chunk, ended>>

\* The storage side reaches the end.
ReachEnd ==
  /\ ended' = TRUE
  /\ UNCHANGED <<position, chunk>>

\* Nothing is promised past the end ...
Adrift ==
  /\ ended
  /\ ended'
  /\ position' \in Int

\* ... until a seek back into the file has restarted the buffers.
Restart ==
  /\ ended
  /\ position \in 0 .. FileLen
  /\ ended' = FALSE
  /\ UNCHANGED <<position, chunk>>

Next == Deliver \/ Seek \/ ReachEnd \/ Adrift \/ Restart

Spec == Init /\ [][Next]_vars
=============================================================================
