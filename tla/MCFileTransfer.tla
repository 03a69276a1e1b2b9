--------------------------- MODULE MCFileTransfer ---------------------------
(* TLC instance of FileTransfer: every size up to MaxSize against every     *)
(* .part file, with a step count of CsMin = 2 bits, so that the larger      *)
(* files advance in steps of two bytes.                                     *)
EXTENDS FileTransfer

=============================================================================
