--------------------------- MODULE FileTransferMC ---------------------------
(* Bounded instances of FileTransfer for TLC.  Files, like long texts, differ   *)
(* only in their names.                                                         *)
EXTENDS FileTransfer, TLC

FileSymmetry == Permutations(Xfer \ LongText)
=============================================================================
