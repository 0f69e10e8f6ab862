------------------------------- MODULE TxFlow -------------------------------
(***************************************************************************)
(* The send-flow state machine of tx/flow.py (class TxFlow): at most one   *)
(* staged transaction, the dual-key confirm, signing and broadcast as      *)
(* states that cannot be skipped.                                          *)
(*                                                                         *)
(* A record's business fields are one value of Body; its reference is      *)
(* fresh (uuid4), so it is drawn from the references never minted before.  *)
(* Refused calls (FlowError) leave the object as it was and are steps that *)
(* change nothing.                                                         *)
(***************************************************************************)
EXTENDS Naturals

CONSTANTS
  Refs,          \* references the id factory can mint
  Body,          \* business fields of a transaction
  TxIds,         \* transaction ids the network can report
  None,          \* an absent record, reference or txid
  PENDING_TTL_S, \* how long a staged transaction may be confirmed
  MaxClock       \* bound on the clock

ASSUME FlowAssumption ==
  /\ PENDING_TTL_S \in Nat
  /\ MaxClock \in Nat
  /\ None \notin Refs \cup TxIds
  /\ None \notin [tx_ref : Refs, created_at : Nat, body : Body]

VARIABLES
  state,      \* TxFlowStatus
  pending,    \* the staged PendingTx, or None
  confirmed,  \* the approved PendingTx, or None
  signed,     \* tx_ref of the SignedTx record, or None
  txid,       \* the id the network reported, or None
  now,        \* the injected clock
  minted      \* references the id factory has produced

flowVars == <<state, pending, confirmed, signed, txid, minted>>
vars == <<state, pending, confirmed, signed, txid, now, minted>>

TxFlowStatus ==
  {"idle", "created", "confirmed", "signed", "broadcast", "cancelled", "expired"}

GateDecision == {"confirm", "deny", "ambiguous", "not_a_decision"}

PendingTx == [tx_ref : Refs, created_at : Nat, body : Body]

-----------------------------------------------------------------------------

Init ==
  /\ state = "idle"
  /\ pending = None
  /\ confirmed = None
  /\ signed = None
  /\ txid = None
  /\ now = 0
  /\ minted = {}

\* States create() accepts; in any other the approved record is still live.
CreatablePastGate == {"idle", "cancelled", "expired", "created", "confirmed"}
Creatable == {"idle", "cancelled", "expired", "created"}

\* uuid4: a reference is never minted twice.
RecycledRef(ref) == TRUE
Fresh(ref) == ref \notin minted

KeptRecord == UNCHANGED <<confirmed, signed, txid>>

\* A new flow starts from a clean record.
CleanRecord ==
  /\ confirmed' = None
  /\ signed' = None
  /\ txid' = None

\* The record create() builds: the caller's fields, a new identity, the time.
StampedBare(ref, body) == [created_at |-> now, body |-> body]
Stamped(ref, body) == [tx_ref |-> ref, created_at |-> now, body |-> body]

\* The assignments of create(), without its state check.
Stage(ref, body) ==
  /\ Fresh(ref)
  /\ minted' = minted \cup {ref}
  /\ pending' = Stamped(ref, body)
  /\ state' = "created"
  /\ CleanRecord

\* create(): from "created" it replaces the staged record.
Create(ref, body) ==
  /\ state \in Creatable
  /\ Stage(ref, body)

\* The TTL is checked when a confirm arrives; the boundary itself is valid.
NeverStale(p) == FALSE
Stale(p) == now - p.created_at > PENDING_TTL_S

\* confirm() of a record past its TTL: the refusal that changes the state.
ConfirmStale ==
  /\ state = "created"
  /\ Stale(pending)
  /\ state' = "expired"
  /\ pending' = None
  /\ UNCHANGED <<confirmed, signed, txid, minted>>

\* confirm() with both keys: the user's decision and the matching reference.
ConfirmFresh(ref, gate) ==
  /\ state = "created"
  /\ ~Stale(pending)
  /\ gate = "confirm"
  /\ ref = pending.tx_ref
  /\ state' = "confirmed"
  /\ pending' = None
  /\ confirmed' = pending
  /\ signed' = None
  /\ txid' = None
  /\ UNCHANGED minted

Confirm(ref, gate) == ConfirmStale \/ ConfirmFresh(ref, gate)

\* cancel() is a decision about a staged transaction only.
Cancel ==
  /\ state = "created"
  /\ pending' = None
  /\ state' = "cancelled"
  /\ UNCHANGED <<confirmed, signed, txid, minted>>

MarkSignedUnmatched(ref) ==
  /\ state = "confirmed"
  /\ signed' = ref
  /\ state' = "signed"
  /\ UNCHANGED <<pending, confirmed, txid, minted>>

MarkSigned(ref) ==
  /\ state = "confirmed"
  /\ ref = confirmed.tx_ref
  /\ signed' = ref
  /\ state' = "signed"
  /\ UNCHANGED <<pending, confirmed, txid, minted>>

Broadcast(ref, id) ==
  /\ state = "signed"
  /\ ref = signed
  /\ txid' = id
  /\ state' = "broadcast"
  /\ UNCHANGED <<pending, confirmed, signed, minted>>

\* reset(): refused while a transaction is staged, otherwise back to idle.
Reset ==
  /\ state # "created"
  /\ state' = "idle"
  /\ pending' = None
  /\ CleanRecord
  /\ UNCHANGED minted

\* The clock is "monotonic-enough wall time": it only moves forward.
Tick ==
  /\ now < MaxClock
  /\ now' = now + 1
  /\ UNCHANGED flowVars

Call ==
  \/ \E ref \in Refs, body \in Body : Create(ref, body)
  \/ \E ref \in Refs, gate \in GateDecision : Confirm(ref, gate)
  \/ Cancel
  \/ \E ref \in Refs : MarkSigned(ref)
  \/ \E ref \in Refs, id \in TxIds : Broadcast(ref, id)
  \/ Reset

Next == (Call /\ UNCHANGED now) \/ Tick

Spec == Init /\ [][Next]_vars

-----------------------------------------------------------------------------

TypeOK ==
  /\ state \in TxFlowStatus
  /\ pending \in PendingTx \cup {None}
  /\ confirmed \in PendingTx \cup {None}
  /\ signed \in Refs \cup {None}
  /\ txid \in TxIds \cup {None}
  /\ now \in Nat
  /\ minted \in SUBSET Refs

\* Which records exist is decided by the state alone, whatever calls were made
\* and in whatever order: the handlers of app.py read flow.pending,
\* flow.confirmed, flow.signed and flow.txid after testing only flow.state.
RecordsMatchState ==
  /\ pending # None <=> state = "created"
  /\ confirmed # None <=> state \in {"confirmed", "signed", "broadcast"}
  /\ signed # None <=> state \in {"signed", "broadcast"}
  /\ txid # None <=> state = "broadcast"

\* One transaction runs through the whole life of a flow: what is signed is
\* what was approved.
OneTransaction == signed # None => confirmed # None /\ signed = confirmed.tx_ref

\* The references of the records the flow still holds.
Live == {r \in Refs : \/ pending # None /\ pending.tx_ref = r
                      \/ confirmed # None /\ confirmed.tx_ref = r
                      \/ signed = r}

\* A reference that was replaced, cancelled, expired or reset away is inert
\* for good: no later sequence of calls brings the record it named back.
InertForGood == [][\A r \in minted \ Live : r \notin Live']_vars

\* The user's yes is honoured only within the TTL of the card it answers; a
\* re-quote starts a new TTL and a late answer never falls through to a
\* confirmed state.
ConfirmedInTime ==
  [][state' = "confirmed" /\ state # "confirmed"
       => now - confirmed'.created_at <= PENDING_TTL_S]_vars

-----------------------------------------------------------------------------

Promise == INSTANCE SendPromise
             WITH offer <- pending, approved <- confirmed,
                  done <- (state = "broadcast"), seen <- minted

\* The state machine keeps the promise of SendPromise: only the transaction
\* on the card is approved, only the approved one is delivered, and a
\* reference that left the card never returns.
KeepsPromise == Promise!Spec
=============================================================================
