----------------------------- MODULE MCEventBus -----------------------------
(***************************************************************************)
(* Small instances of EventBus: a ring of two and a queue of one, so that  *)
(* a single slow frame overflows the queue and two more outrun the ring.   *)
(***************************************************************************)
EXTENDS EventBus
=============================================================================
