---------------------------- MODULE MCFileBuffer ----------------------------
(***************************************************************************)
(* A file of three and a half sectors, buffers of one sector while the     *)
(* codec opens and two while it plays.  Lengths and offsets are multiples  *)
(* of half a sector, and every case of AudioFileRead2 and AudioFileSeek2   *)
(* occurs with them.                                                       *)
(***************************************************************************)
EXTENDS FileBufferInv

MCCurSeeks == {-768, 512}
=============================================================================
