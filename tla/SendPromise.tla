---------------------------- MODULE SendPromise ----------------------------
(***************************************************************************)
(* What the wallet promises about a send, with no hint of how it keeps the *)
(* promise: one offer is on the table at a time, only the offer on the     *)
(* table can be approved, only what was approved is delivered to the       *)
(* network, and an offer that left the table never comes back.             *)
(*                                                                         *)
(* TxFlow (the state machine of tx/flow.py) and SendSession (the whole     *)
(* send pipeline of app.py) are both shown to implement it.                *)
(***************************************************************************)
EXTENDS Naturals

CONSTANTS
  Refs,   \* the references a transaction may be known by
  Body,   \* what a transaction says (amount, payee, fee, coins)
  None    \* "no transaction"

VARIABLES
  offer,     \* the transaction the user is being asked about, or None
  approved,  \* the transaction the user agreed to, or None
  done,      \* TRUE once the approved transaction reached the network
  seen       \* every reference ever offered

vars == <<offer, approved, done, seen>>

Transaction == [tx_ref : Refs, created_at : Nat, body : Body]

Init ==
  /\ offer = None
  /\ approved = None
  /\ done = FALSE
  /\ seen = {}

\* A new offer replaces the one on the table, never an undelivered approval.
Propose ==
  /\ approved # None => done
  /\ offer' \in Transaction
  /\ offer'.tx_ref \notin seen
  /\ approved' = None
  /\ done' = FALSE
  /\ seen' = seen \cup {offer'.tx_ref}

\* The user declines, or lets the offer go stale.
Withdraw ==
  /\ offer # None
  /\ offer' = None
  /\ UNCHANGED <<approved, done, seen>>

\* The user agrees to what is on the table, and to nothing else.
Approve ==
  /\ offer # None
  /\ offer' = None
  /\ approved' = offer
  /\ UNCHANGED <<done, seen>>

Deliver ==
  /\ approved # None
  /\ ~done
  /\ done' = TRUE
  /\ UNCHANGED <<offer, approved, seen>>

\* A delivered transaction is forgotten.
Settle ==
  /\ done
  /\ approved' = None
  /\ done' = FALSE
  /\ UNCHANGED <<offer, seen>>

\* An approved transaction is dropped before it reaches the network.
Abandon ==
  /\ approved # None
  /\ ~done
  /\ approved' = None
  /\ UNCHANGED <<offer, done, seen>>

StrictNext ==
  \/ Propose
  \/ Withdraw
  \/ Approve
  \/ Deliver
  \/ Settle

Next == StrictNext \/ Abandon

Spec == Init /\ [][Next]_vars

\* The stronger promise: an approval is never dropped on the way.
StrictSpec == Init /\ [][StrictNext]_vars
=============================================================================
