--------------------------- MODULE MCConfirmGate ---------------------------
(***************************************************************************)
(* Every utterance of up to four words: two words of each class, so that a *)
(* phrase can be preceded and followed by words of any class.              *)
(***************************************************************************)
EXTENDS ConfirmGate
=============================================================================
