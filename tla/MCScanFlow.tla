----------------------------- MODULE MCScanFlow -----------------------------
(***************************************************************************)
(* Small instances of ScanFlow: two servers, two superseding swaps, one    *)
(* block and two gap limits, so that a fetch can be older than the one it  *)
(* would overwrite, and a widened gap limit starts a scan of its own.      *)
(***************************************************************************)
EXTENDS ScanFlow
=============================================================================
