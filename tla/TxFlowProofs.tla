---------------------------- MODULE TxFlowProofs ----------------------------
(***************************************************************************)
(* Proofs about TxFlow for every set of references, bodies and txids and   *)
(* every TTL: the type invariant, the shape of the flow's records, the two *)
(* action properties, and that the flow implements SendPromise.            *)
(***************************************************************************)
EXTENDS TxFlow, TLAPS

\* What every call preserves: the types, which records exist in which state,
\* that the signed record is the approved one, and that every record the flow
\* holds carries a reference the id factory produced.
FlowInv ==
  /\ TypeOK
  /\ RecordsMatchState
  /\ OneTransaction
  /\ pending # None => pending.tx_ref \in minted
  /\ confirmed # None => confirmed.tx_ref \in minted

\* A record is never mistaken for the absence of one.
LEMMA RecordIsNotNone == \A p \in PendingTx : p # None
  BY FlowAssumption DEF PendingTx

\* The staged record is well typed: what create() assigns to _pending.
LEMMA StampedType ==
  ASSUME TypeOK, NEW ref \in Refs, NEW body \in Body
  PROVE  /\ Stamped(ref, body) \in PendingTx
         /\ Stamped(ref, body).tx_ref = ref
  BY DEF TypeOK, Stamped, PendingTx

LEMMA FlowInvInit == Init => FlowInv
  BY FlowAssumption DEF Init, FlowInv, TypeOK, RecordsMatchState, OneTransaction,
     TxFlowStatus

\* FlowInv is inductive: one step per call of the flow.
LEMMA FlowInvStep == FlowInv /\ [Next]_vars => FlowInv'
<1> SUFFICES ASSUME FlowInv, [Next]_vars PROVE FlowInv'
  OBVIOUS
<1> USE FlowAssumption, RecordIsNotNone
<1>1. ASSUME NEW ref \in Refs, NEW body \in Body, Create(ref, body), UNCHANGED now
      PROVE  FlowInv'
  <2>1. Stamped(ref, body) \in PendingTx /\ Stamped(ref, body).tx_ref = ref
    BY StampedType DEF FlowInv
  <2>2. pending' = Stamped(ref, body) /\ pending' # None
    BY <1>1, <2>1 DEF Create, Stage
  <2>3. TypeOK'
    BY <1>1, <2>1, <2>2 DEF FlowInv, TypeOK, Create, Stage, CleanRecord, TxFlowStatus
  <2> QED
    BY <1>1, <2>1, <2>2, <2>3
       DEF FlowInv, RecordsMatchState, OneTransaction, Create, Stage, CleanRecord
<1>2. CASE ConfirmStale /\ UNCHANGED now
  BY <1>2 DEF FlowInv, TypeOK, RecordsMatchState, OneTransaction, ConfirmStale, TxFlowStatus
<1>3. ASSUME NEW ref \in Refs, NEW gate \in GateDecision, ConfirmFresh(ref, gate),
             UNCHANGED now
      PROVE  FlowInv'
  BY <1>3 DEF FlowInv, TypeOK, RecordsMatchState, OneTransaction, ConfirmFresh, TxFlowStatus
<1>4. CASE Cancel /\ UNCHANGED now
  BY <1>4 DEF FlowInv, TypeOK, RecordsMatchState, OneTransaction, Cancel, TxFlowStatus
<1>5. ASSUME NEW ref \in Refs, MarkSigned(ref), UNCHANGED now
      PROVE  FlowInv'
  BY <1>5 DEF FlowInv, TypeOK, RecordsMatchState, OneTransaction, MarkSigned, TxFlowStatus
<1>6. ASSUME NEW ref \in Refs, NEW id \in TxIds, Broadcast(ref, id), UNCHANGED now
      PROVE  FlowInv'
  BY <1>6 DEF FlowInv, TypeOK, RecordsMatchState, OneTransaction, Broadcast, TxFlowStatus
<1>7. CASE Reset /\ UNCHANGED now
  BY <1>7 DEF FlowInv, TypeOK, RecordsMatchState, OneTransaction, Reset, CleanRecord,
              TxFlowStatus
<1>8. CASE Tick
  BY <1>8 DEF FlowInv, TypeOK, RecordsMatchState, OneTransaction, Tick, flowVars
<1>9. CASE UNCHANGED vars
  BY <1>9 DEF FlowInv, TypeOK, RecordsMatchState, OneTransaction, vars
<1> QED
  BY <1>1, <1>2, <1>3, <1>4, <1>5, <1>6, <1>7, <1>8, <1>9 DEF Next, Call, Confirm

LEMMA FlowInvAlways == Spec => []FlowInv
  BY FlowInvInit, FlowInvStep, PTL DEF Spec

\* Every variable of the flow keeps its type.
THEOREM TypeCorrect == Spec => []TypeOK
<1>1. FlowInv => TypeOK
  BY DEF FlowInv
<1> QED
  BY <1>1, FlowInvAlways, PTL

\* The state alone decides which records exist.
THEOREM RecordsCorrect == Spec => []RecordsMatchState
<1>1. FlowInv => RecordsMatchState
  BY DEF FlowInv
<1> QED
  BY <1>1, FlowInvAlways, PTL

\* What is signed is what was approved.
THEOREM OneTransactionCorrect == Spec => []OneTransaction
<1>1. FlowInv => OneTransaction
  BY DEF FlowInv
<1> QED
  BY <1>1, FlowInvAlways, PTL

\* A reference the flow no longer holds never comes back, because no call mints
\* it again and every record moves only along the flow.
THEOREM InertCorrect == Spec => InertForGood
<1>1. FlowInv /\ [Next]_vars => [\A r \in minted \ Live : r \notin Live']_vars
  <2> SUFFICES ASSUME FlowInv, Next, NEW r \in minted, r \notin Live, r \in Live'
               PROVE  FALSE
    OBVIOUS
  <2> USE FlowAssumption, RecordIsNotNone DEF Live
  <2>0. r \in Refs
    BY DEF FlowInv, TypeOK
  <2>1. ASSUME NEW ref \in Refs, NEW body \in Body, Create(ref, body) PROVE FALSE
    <3>1. pending'.tx_ref = ref /\ r # ref
      BY <2>1, StampedType DEF Create, Stage, Fresh, FlowInv
    <3> QED
      BY <2>0, <2>1, <3>1 DEF Create, Stage, CleanRecord
  <2>2. CASE ConfirmStale
    BY <2>0, <2>2 DEF ConfirmStale
  <2>3. ASSUME NEW ref \in Refs, NEW gate \in GateDecision, ConfirmFresh(ref, gate)
        PROVE FALSE
    BY <2>0, <2>3 DEF ConfirmFresh, FlowInv, RecordsMatchState
  <2>4. CASE Cancel
    BY <2>0, <2>4 DEF Cancel
  <2>5. ASSUME NEW ref \in Refs, MarkSigned(ref) PROVE FALSE
    BY <2>0, <2>5 DEF MarkSigned, FlowInv, RecordsMatchState
  <2>6. ASSUME NEW ref \in Refs, NEW id \in TxIds, Broadcast(ref, id) PROVE FALSE
    BY <2>0, <2>6 DEF Broadcast
  <2>7. CASE Reset
    BY <2>0, <2>7 DEF Reset, CleanRecord
  <2>8. CASE Tick
    BY <2>0, <2>8 DEF Tick, flowVars
  <2> QED
    BY <2>1, <2>2, <2>3, <2>4, <2>5, <2>6, <2>7, <2>8 DEF Next, Call, Confirm
<1> QED
  BY <1>1, FlowInvAlways, PTL DEF Spec, InertForGood

\* A confirmation is honoured only within the TTL of the record it names.
THEOREM TtlCorrect == Spec => ConfirmedInTime
<1>1. FlowInv /\ [Next]_vars
        => [state' = "confirmed" /\ state # "confirmed"
              => now - confirmed'.created_at <= PENDING_TTL_S]_vars
  <2> SUFFICES ASSUME FlowInv, Next, state' = "confirmed", state # "confirmed"
               PROVE  now - confirmed'.created_at <= PENDING_TTL_S
    OBVIOUS
  <2>1. PICK ref \in Refs, gate \in GateDecision : ConfirmFresh(ref, gate)
    BY DEF Next, Call, Create, Stage, Confirm, ConfirmStale, Cancel, MarkSigned,
           Broadcast, Reset, Tick, flowVars
  <2>2. pending \in PendingTx /\ now \in Nat
    BY <2>1 DEF FlowInv, TypeOK, RecordsMatchState, ConfirmFresh
  <2> QED
    BY <2>1, <2>2, FlowAssumption DEF ConfirmFresh, Stale, PendingTx
<1> QED
  BY <1>1, FlowInvAlways, PTL DEF Spec, ConfirmedInTime

\* Every call of the flow is a step of the promise, or changes nothing in it.
LEMMA StepKeepsPromise == FlowInv /\ [Next]_vars => [Promise!Next]_(Promise!vars)
<1> SUFFICES ASSUME FlowInv, [Next]_vars PROVE [Promise!Next]_(Promise!vars)
  OBVIOUS
<1> USE FlowAssumption, RecordIsNotNone
        DEF Promise!Next, Promise!StrictNext, Promise!vars
<1>1. ASSUME NEW ref \in Refs, NEW body \in Body, Create(ref, body)
      PROVE  Promise!Propose
  <2>1. pending' \in PendingTx /\ pending'.tx_ref = ref
    BY <1>1, StampedType DEF Create, Stage, FlowInv
  <2> QED
    BY <1>1, <2>1 DEF Create, Creatable, Stage, Fresh, CleanRecord, FlowInv,
       RecordsMatchState, Promise!Propose, Promise!Transaction, PendingTx
<1>2. CASE ConfirmStale
  BY <1>2 DEF ConfirmStale, FlowInv, RecordsMatchState, Promise!Withdraw
<1>3. ASSUME NEW ref \in Refs, NEW gate \in GateDecision, ConfirmFresh(ref, gate)
      PROVE  Promise!Approve
  BY <1>3 DEF ConfirmFresh, FlowInv, RecordsMatchState, Promise!Approve
<1>4. CASE Cancel
  BY <1>4 DEF Cancel, FlowInv, RecordsMatchState, Promise!Withdraw
<1>5. ASSUME NEW ref \in Refs, MarkSigned(ref) PROVE UNCHANGED Promise!vars
  BY <1>5 DEF MarkSigned
<1>6. ASSUME NEW ref \in Refs, NEW id \in TxIds, Broadcast(ref, id)
      PROVE  Promise!Deliver
  BY <1>6 DEF Broadcast, FlowInv, RecordsMatchState, Promise!Deliver
<1>7. CASE Reset
  BY <1>7 DEF Reset, CleanRecord, FlowInv, RecordsMatchState, TypeOK, TxFlowStatus,
     Promise!Settle, Promise!Abandon
<1>8. CASE Tick \/ UNCHANGED vars
  BY <1>8 DEF Tick, flowVars, vars
<1> QED
  BY <1>1, <1>2, <1>3, <1>4, <1>5, <1>6, <1>7, <1>8 DEF Next, Call, Confirm

\* The state machine of tx/flow.py implements the promise about a send.
THEOREM FlowKeepsPromise == Spec => KeepsPromise
<1>1. Init => Promise!Init
  BY DEF Init, Promise!Init
<1> QED
  BY <1>1, StepKeepsPromise, FlowInvAlways, PTL DEF Spec, KeepsPromise, Promise!Spec
=============================================================================
