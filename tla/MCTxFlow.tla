------------------------------ MODULE MCTxFlow ------------------------------
(***************************************************************************)
(* Small instances of TxFlow: three references, so that a re-quote of a    *)
(* re-quote is possible, and a clock that runs past the TTL of each.       *)
(***************************************************************************)
EXTENDS TxFlow
=============================================================================
