--------------------------- MODULE MCSendSession ---------------------------
(***************************************************************************)
(* Small instances of SendSession.  Three references allow a send, its     *)
(* bump and a bump of the bump, or a re-quote of a re-quote; a TTL of zero *)
(* and one tick let the first cards expire at any step of a turn.          *)
(***************************************************************************)
EXTENDS SendSession, TLC

\* References are only ever compared, so any renaming of them is a symmetry of
\* the pipeline and of its safety properties.
RefSymmetry == Permutations(Refs)
=============================================================================
