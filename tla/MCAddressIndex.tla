--------------------------- MODULE MCAddressIndex ---------------------------
(***************************************************************************)
(* Small instances of AddressIndex: a window of four addresses and two gap *)
(* limits, so that a narrow rescan walks past what a wide one found; where *)
(* the mempool forgets, a window of three and one gap limit.               *)
(***************************************************************************)
EXTENDS AddressIndex
=============================================================================
