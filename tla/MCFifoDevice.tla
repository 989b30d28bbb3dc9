---------------------------- MODULE MCFifoDevice ----------------------------
(***************************************************************************)
(* A download of two large pieces, a small one and a rest of 40 bytes,     *)
(* received in packets smaller and larger than a piece, and read in        *)
(* sectors and pairs of sectors.                                           *)
(***************************************************************************)
EXTENDS FifoDevice
=============================================================================
