---------------------------- MODULE SendSession ----------------------------
(***************************************************************************)
(* The send pipeline of app.py around the state machine of TxFlow: the     *)
(* turn of the conversation (_run_turn), the handlers that stage, confirm, *)
(* sign, broadcast and replace a transaction, and the markers of           *)
(* SendSession that tie a special card (a fee bump, a CPFP child, a        *)
(* consolidation, a send from pinned coins) to the record it shows.        *)
(*                                                                         *)
(* A turn is one utterance.  The intercepts of _run_turn answer some       *)
(* utterances themselves, in the order they are tested; any other goes     *)
(* through the confirm gate to the model, which dispatches at most one     *)
(* intent.  Clock ticks fall between the steps of a turn, so a card can go *)
(* stale while the model is thinking.  Everything a device, a file, the    *)
(* price or fee service, the store or the network may answer is a choice;  *)
(* a handler that fails changes nothing (Refused).                         *)
(*                                                                         *)
(* Abstracted: amounts, payees and coins; the receive branch (module       *)
(* AddressIndex); a txid is the reference of the transaction it names.     *)
(***************************************************************************)
EXTENDS Naturals

CONSTANTS
  Refs,             \* references the id factory can mint
  None,             \* an absent record, reference or index
  PENDING_TTL_S,    \* TTL of a staged transaction
  MaxClock,         \* bound on the clock
  MaxChange,        \* bound on the change cursor
  FileSignerDefault,\* the signer is the file signer, and only by default
  SharedKeys        \* another wallet program spends from the same keys

ASSUME SessionAssumption ==
  /\ {PENDING_TTL_S, MaxClock, MaxChange} \subseteq Nat
  /\ {FileSignerDefault, SharedKeys} \subseteq BOOLEAN

VARIABLES
  state, pending, confirmed, signed, txid, now, minted,  \* see TxFlow
  phase,         \* where the turn is: idle, model, handoff or file
  gate,          \* session.gate_decision
  card,          \* the reference on the card when the user spoke
  ask,           \* the numbered question awaiting an answer, or None
  bumpPending,   \* session.bump_pending: the card and what it replaces
  bumpBcast,     \* session.bump_bcast_txid
  cpfpPending,   \* session.cpfp_pending.tx_ref
  consPending,   \* session.cons_pending.tx_ref
  pinnedPending, \* session.send_pinned_pending.tx_ref
  hwSignWanted,  \* session.hw_sign_wanted
  publicOffer,   \* session.public_offer_txref
  publicShown,   \* session.public_offer_shown
  nextChange,    \* store: next_index of the change branch
  lineage,       \* store: replacement pairs <<old, new>>
  delivered,     \* history: the records the network accepted, told or not
  ownRefused,    \* history: references the own server refused over the floor
  publicSends    \* history: attempts through the public endpoint, per reference

flow == <<state, pending, confirmed, signed, txid, minted>>
markers == <<bumpPending, bumpBcast, cpfpPending, consPending, pinnedPending>>
public == <<publicOffer, publicShown, ownRefused, publicSends>>
ledger == <<nextChange, lineage, delivered>>
turn == <<phase, gate, card>>
vars == <<flow, markers, public, ledger, turn, now, ask, hwSignWanted>>

Kinds == {"send", "bump", "cpfp", "cons", "split"}
SendBody ==
  [kind : Kinds, change : 0..MaxChange \cup {None}, pinned : BOOLEAN,
   orig : Refs \cup {None}]

Flow == INSTANCE TxFlow WITH Body <- SendBody, TxIds <- Refs

Init ==
  /\ Flow!Init
  /\ phase = "idle" /\ gate = "not_a_decision" /\ card = None
  /\ ask = None /\ hwSignWanted = FALSE
  /\ bumpPending = None /\ bumpBcast = None /\ cpfpPending = None
  /\ consPending = None /\ pinnedPending = None
  /\ publicOffer = None /\ publicShown = None
  /\ nextChange = 0 /\ lineage = {}
  /\ delivered = {} /\ ownRefused = {} /\ publicSends = [r \in Refs |-> 0]

-----------------------------------------------------------------------------
(* Staging *)

Refused == UNCHANGED <<flow, markers, public, ledger, hwSignWanted>>

\* The card on the table is the one a marker names.
OnCard(ref) == state = "created" /\ ref = pending.tx_ref
OnBumpCard == bumpPending # None /\ OnCard(bumpPending.tx_ref)

\* upsert, allocate and bump_next_index of the change branch.
TakeChangeIndex == nextChange < MaxChange /\ nextChange' = nextChange + 1

SendOfUnset(change, pinned) ==
  [kind |-> "send", change |-> change, pinned |-> IF pinned THEN TRUE ELSE None, orig |-> None]
SendOf(change, pinned) ==
  [kind |-> "send", change |-> change, pinned |-> pinned, orig |-> None]

\* A re-quote of a pinned card keeps its pin; any other send forgets it.
CarriesPin(pinAsk) == pinAsk \/ OnCard(pinnedPending)

\* The marker follows the pin to the new card.
MarksFirstPin(pinAsk) == pinAsk
MarksPin(pinAsk) == CarriesPin(pinAsk)

\* create_tx commits its card; the change index is taken with or without change.
CreateStages(pinAsk) ==
  /\ state = "created" => pending.body.kind \in {"send", "bump"}
  /\ ~OnBumpCard
  /\ \E ref \in Refs, change \in {nextChange, None} :
       /\ Flow!Create(ref, SendOf(change, CarriesPin(pinAsk)))
       /\ pinnedPending' = IF MarksPin(pinAsk) THEN ref ELSE pinnedPending
  /\ TakeChangeIndex
  /\ UNCHANGED <<bumpPending, bumpBcast, cpfpPending, consPending, public,
                 lineage, delivered, hwSignWanted>>

\* create_tx past the gate: the index is taken before flow.create refuses.
CreateBackstop ==
  /\ state \in {"confirmed", "signed", "broadcast"}
  /\ TakeChangeIndex
  /\ UNCHANGED <<flow, markers, public, lineage, delivered, hwSignWanted>>

CreateTx(pinAsk) == Refused \/ CreateStages(pinAsk) \/ CreateBackstop

\* A plan of one's own coins has no change; the receive branch is not modelled here.
SelfOf(kind) == [kind |-> kind, change |-> None, pinned |-> FALSE, orig |-> None]

SelfStages(kind) ==
  /\ \E ref \in Refs :
       /\ Flow!Create(ref, SelfOf(kind))
       /\ consPending' = IF kind = "cons" THEN ref ELSE consPending
  /\ UNCHANGED <<bumpPending, bumpBcast, cpfpPending, pinnedPending, public, ledger,
                 hwSignWanted>>

\* self_transfer (split, consolidate): only a rate answer replaces a card.
SelfTransfer(kind, rateAnswer) ==
  \/ Refused
  \/ /\ state # "created" \/ rateAnswer
     /\ SelfStages(kind)

\* A finished transaction is reset away when the next one is staged.
StageAfterBroadcast(ref, body) ==
  IF state = "broadcast" THEN Flow!Stage(ref, body) ELSE Flow!Create(ref, body)

\* self_transfer (cpfp): busy past the gate, re-shows a card, else asks or stages.
Cpfp ==
  \/ Refused /\ ask' \in {ask, None}
  \/ /\ state \notin {"confirmed", "signed", "created"}
     /\ \/ Refused /\ ask' = "cpfp"
        \/ /\ \E ref \in Refs : StageAfterBroadcast(ref, SelfOf("cpfp")) /\ cpfpPending' = ref
           /\ ask' = None
           /\ UNCHANGED <<bumpPending, bumpBcast, consPending, pinnedPending, public, ledger,
                          hwSignWanted>>

\* What a bump replaces: the card's own original, or the transaction just sent.
ReplacesCard == IF OnBumpCard THEN pending.tx_ref ELSE txid
Replaces == IF OnBumpCard THEN bumpPending.old_txid ELSE txid

BumpStages ==
  /\ OnBumpCard \/ state = "broadcast"
  /\ \E ref \in Refs, change \in {nextChange, None} :
       /\ StageAfterBroadcast(ref,
            [kind |-> "bump", change |-> change, pinned |-> FALSE, orig |-> Replaces])
       /\ bumpPending' = [tx_ref |-> ref, old_txid |-> Replaces]
       /\ IF change = None THEN UNCHANGED nextChange ELSE TakeChangeIndex
  /\ ask' = None
  /\ UNCHANGED <<bumpBcast, cpfpPending, consPending, pinnedPending, public,
                 lineage, delivered, hwSignWanted>>

\* bump_fee: the previous question is always spent, a new one may be asked.
BumpFee ==
  \/ Refused /\ ask' = None
  \/ Refused /\ ask' = "bump" /\ state \notin {"confirmed", "signed"}
             /\ (state = "created" => OnBumpCard)
  \/ BumpStages

-----------------------------------------------------------------------------
(* Confirming, signing, broadcasting *)

\* A confirm moves the flow if the card is stale, or if both keys match.
ConfirmMoves(ref) ==
  /\ state = "created"
  /\ Flow!Stale(pending) \/ (gate = "confirm" /\ ref = pending.tx_ref)

\* confirm_tx: the flow checks the gate's decision of this turn and the reference.
ConfirmTx(ref) ==
  /\ \/ Flow!Confirm(ref, gate)
     \/ ~ConfirmMoves(ref) /\ UNCHANGED flow
  /\ UNCHANGED <<markers, public, ledger, hwSignWanted, ask>>

\* The staged change index, recovered from the cursor as it is now.
RecoversChange(p) == p.body.change # None => p.body.change = nextChange - 1

\* Once the record is signed no one asks for the device any more.
KeepsDeviceWish == UNCHANGED hwSignWanted
ForgetsDeviceWish == hwSignWanted' = FALSE

\* sign_tx: a signature counts only if the device or file, the recovered
\* intent and the re-validation agree; a plugged-in device may be offered first.
SignTx(fileOnce) ==
  /\ state = "confirmed"
  /\ \/ Refused
     \/ /\ FileSignerDefault /\ ~fileOnce /\ ~hwSignWanted
        /\ hwSignWanted' = TRUE
        /\ UNCHANGED flow
     \/ /\ fileOnce
        /\ hwSignWanted' = FALSE
        /\ UNCHANGED flow
     \/ /\ RecoversChange(confirmed)
        /\ Flow!MarkSigned(confirmed.tx_ref)
        /\ ForgetsDeviceWish
  /\ UNCHANGED <<markers, public, ledger, ask>>

\* The marker of the record being broadcast.
MarksAny(marker, ref) == marker # None
Marks(marker, ref) == marker # None /\ marker.tx_ref = ref

\* The network took the transaction: the flow ends, the lineage is recorded or
\* the store fails, the markers of this record are spent.
Accepted(ref) ==
  /\ Flow!Broadcast(ref, ref)
  /\ delivered' = delivered \cup {confirmed}
  /\ publicOffer' = None
  /\ \/ /\ Marks(bumpPending, ref)
        /\ lineage' = lineage \cup {<<bumpPending.old_txid, ref>>}
        /\ bumpBcast' = ref
     \/ UNCHANGED <<lineage, bumpBcast>>
  /\ bumpPending' = IF Marks(bumpPending, ref) THEN None ELSE bumpPending
  /\ cpfpPending' = IF cpfpPending = ref THEN None ELSE cpfpPending
  /\ consPending' = IF consPending = ref THEN None ELSE consPending
  /\ UNCHANGED <<pinnedPending, nextChange, publicShown, ownRefused>>

\* The public endpoint is offered once for a signed record, after the own
\* server refused it over its fee floor.
OfferAgain(ref) == TRUE
NotYetOffered(ref) == publicShown # ref

Rejected(ref, viaPublic, overFloor) ==
  /\ UNCHANGED <<flow, markers, nextChange, lineage>>
  /\ \/ UNCHANGED delivered
     \/ ~overFloor /\ delivered' = delivered \cup {confirmed} \* only the answer was lost
  /\ IF overFloor /\ ~viaPublic
       THEN /\ ownRefused' = ownRefused \cup {ref}
            /\ IF NotYetOffered(ref)
                 THEN publicOffer' = ref /\ publicShown' = ref
                 ELSE UNCHANGED <<publicOffer, publicShown>>
       ELSE /\ publicOffer' = IF viaPublic THEN None ELSE publicOffer
            /\ UNCHANGED <<publicShown, ownRefused>>

BroadcastTx(viaPublic) ==
  /\ state = "signed"
  /\ Accepted(signed) \/ \E overFloor \in BOOLEAN : Rejected(signed, viaPublic, overFloor)
  /\ publicSends' = IF viaPublic THEN [publicSends EXCEPT ![signed] = @ + 1] ELSE publicSends
  /\ UNCHANGED <<hwSignWanted, ask>>

-----------------------------------------------------------------------------
(* The turn: intercepts in the order _run_turn tests them *)

EndTurn == phase' = "idle" /\ UNCHANGED <<gate, card, now>>

Card == IF state = "created" THEN pending.tx_ref ELSE None

OfferLive == state = "signed" /\ publicOffer = signed

\* "retry" or "file" while a signature is awaited.
SaysRetryOrFile ==
  /\ phase = "idle" /\ state = "confirmed"
  /\ phase' \in {"handoff", "file"}
  /\ UNCHANGED <<flow, markers, public, ledger, gate, card, now, ask, hwSignWanted>>

\* The answer to the public-broadcast offer; only a yes sends.
SaysYesToOffer ==
  /\ phase = "idle" /\ OfferLive
  /\ BroadcastTx(TRUE)
  /\ EndTurn

SaysNoToOffer ==
  /\ phase = "idle" /\ OfferLive
  /\ publicOffer' = None
  /\ UNCHANGED <<flow, markers, ledger, publicShown, ownRefused, publicSends,
                 hwSignWanted, ask>>
  /\ EndTurn

\* "sign with the device": confirms the card and hands it to the device.
SaysSignOnDevice ==
  /\ phase = "idle"
  /\ card' = Card
  /\ \/ state = "created" /\ gate' = "confirm" /\ Flow!Confirm(pending.tx_ref, "confirm")
     \/ state = "confirmed" /\ UNCHANGED <<flow, gate>>
  /\ hwSignWanted' = (hwSignWanted \/ state' = "confirmed")
  /\ phase' = IF state' = "confirmed" THEN "handoff" ELSE "idle"
  /\ publicOffer' = IF OfferLive THEN None ELSE publicOffer
  /\ UNCHANGED <<markers, ledger, publicShown, ownRefused, publicSends, now, ask>>

\* A number answers the question that is live.
SaysAnswer ==
  /\ phase = "idle" /\ ask # None
  /\ \/ ask = "bump" /\ BumpFee
     \/ ask = "cpfp" /\ Cpfp
     \/ ask = "cons" /\ Refused /\ ask' \in {"cons", None}
     \/ ask = "cons" /\ SelfTransfer("cons", FALSE) /\ ask' = None
     \/ ask = "rate" /\ OnCard(consPending) /\ SelfTransfer("cons", TRUE) /\ ask' = None
  /\ EndTurn

\* "faster": asks for a rate on a consolidation card, bumps what was just
\* bumped, or re-bumps the bump card.
SaysSpeed ==
  /\ phase = "idle"
  /\ \/ ask \notin {"cons", "rate"} /\ OnCard(consPending) /\ Refused /\ ask' = "rate"
     \/ /\ \/ state = "broadcast" /\ bumpBcast # None /\ txid = bumpBcast
           \/ OnBumpCard
        /\ BumpFee
  /\ EndTurn

\* A consolidation is opened, or a send names its coins, when no card is live.
SaysPlan ==
  /\ phase = "idle"
  /\ state \notin {"created", "confirmed", "signed"}
  /\ \/ ask \notin {"cons", "rate"} /\ Refused /\ ask' = "cons"
     \/ ask \notin {"cons", "rate"} /\ SelfTransfer("cons", FALSE) /\ ask' = None
     \/ CreateTx(TRUE) /\ ask' = None
  /\ EndTurn

\* A no to the card cancels it and drops every marker and question.
SaysNo ==
  /\ phase = "idle" /\ state = "created"
  /\ Flow!Cancel
  /\ hwSignWanted' = FALSE /\ ask' = None
  /\ bumpPending' = None /\ cpfpPending' = None
  /\ consPending' = None /\ pinnedPending' = None
  /\ gate' = "deny" /\ card' = Card
  /\ UNCHANGED <<bumpBcast, public, ledger, now, phase>>

\* Any other utterance is classified and goes to the model; a question or an
\* offer it did not answer is spent.
SaysToModel ==
  /\ phase = "idle"
  /\ gate' \in IF state = "created" THEN {"confirm", "ambiguous", "not_a_decision"}
                                    ELSE {"not_a_decision"}
  /\ card' = Card
  /\ phase' = "model"
  /\ ask' = None
  /\ publicOffer' = IF OfferLive THEN None ELSE publicOffer
  /\ UNCHANGED <<flow, markers, ledger, publicShown, ownRefused, publicSends, now,
                 hwSignWanted>>

\* The loop stops after one successful dispatch; a second one is the next turn's.
DispatchesAgain == "model"
DispatchesOnce == "idle"

\* The model's one dispatch, or none.
ModelDispatches ==
  /\ phase = "model"
  /\ \/ Refused /\ UNCHANGED ask
     \/ CreateTx(FALSE) /\ UNCHANGED ask
     \/ \E kind \in {"split", "cons"} : SelfTransfer(kind, FALSE) /\ UNCHANGED ask
     \/ Cpfp
     \/ BumpFee
     \/ SignTx(FALSE)
     \/ BroadcastTx(FALSE)
  /\ phase' = DispatchesOnce
  /\ UNCHANGED <<gate, card, now>>

\* The model's confirm, quoting any reference it has seen; an approved record is
\* then handed to the signer in the same turn, whoever approved it and when.
ModelConfirms ==
  /\ phase = "model"
  /\ \E ref \in minted : ConfirmTx(ref)
  /\ phase' = IF state' = "confirmed" THEN "handoff" ELSE "idle"
  /\ UNCHANGED <<gate, card, now>>

Handoff ==
  /\ phase \in {"handoff", "file"}
  /\ SignTx(phase = "file")
  /\ EndTurn

\* A background scan finds the change branch used past the cursor.
ScanAdvancesChange ==
  /\ phase = "idle"
  /\ SharedKeys
  /\ TakeChangeIndex
  /\ UNCHANGED <<flow, markers, public, lineage, delivered, turn, now, ask, hwSignWanted>>

Tick == Flow!Tick /\ UNCHANGED <<markers, public, ledger, turn, ask, hwSignWanted>>

Next ==
  \/ SaysRetryOrFile \/ SaysYesToOffer \/ SaysNoToOffer \/ SaysSignOnDevice
  \/ SaysAnswer \/ SaysSpeed \/ SaysPlan \/ SaysNo \/ SaysToModel
  \/ ModelDispatches \/ ModelConfirms \/ Handoff
  \/ ScanAdvancesChange \/ Tick

Spec == Init /\ [][Next]_vars
-----------------------------------------------------------------------------

TypeOK ==
  /\ Flow!TypeOK
  /\ phase \in {"idle", "model", "handoff", "file"}
  /\ gate \in Flow!GateDecision
  /\ ask \in {"bump", "cpfp", "cons", "rate", None}
  /\ bumpPending \in [tx_ref : Refs, old_txid : Refs] \cup {None}
  /\ {card, bumpBcast, cpfpPending, consPending, pinnedPending, publicOffer,
      publicShown} \subseteq Refs \cup {None}
  /\ hwSignWanted \in BOOLEAN
  /\ nextChange \in 0..MaxChange
  /\ lineage \subseteq Refs \X Refs
  /\ delivered \subseteq Flow!PendingTx
  /\ ownRefused \subseteq Refs
  /\ publicSends \in [Refs -> Nat]

\* The record the session is working on, from its card to its broadcast.
AtWork == state \in {"created", "confirmed", "signed"}
Record == IF state = "created" THEN pending ELSE confirmed

\* A special send is treated as what its card said through re-quotes, cancels,
\* expiries and failed dispatches, and no other send inherits its treatment:
\* each marker names the record at work exactly when the record is of its kind.
MarkersMatchRecord ==
  AtWork =>
    /\ Record.body.kind = "bump" <=> Marks(bumpPending, Record.tx_ref)
    /\ Record.body.kind = "cpfp" <=> cpfpPending = Record.tx_ref
    /\ Record.body.kind = "cons" <=> consPending = Record.tx_ref
    /\ Record.body.pinned <=> pinnedPending = Record.tx_ref

\* What the user approved is the card that was on the table when they spoke,
\* although the model chooses the reference and may re-quote the card: one
\* dispatch a turn is what keeps a fresh card from riding an older yes.
ApprovedWasOnTheCard ==
  [][(state' = "confirmed" /\ state # "confirmed") => confirmed'.tx_ref = card']_vars

\* A signed transaction leaves through the public endpoint at most once, and
\* only after the user's own server refused that very transaction.
PublicOnceAfterOwnRefusal ==
  \A r \in Refs : publicSends[r] <= 1 /\ (publicSends[r] = 1 => r \in ownRefused)

\* The store's lineage tells the truth: the new transaction was approved and
\* sent as the replacement of exactly that old one.
LineageIsTrue ==
  \A pair \in lineage : \E d \in delivered :
    d.tx_ref = pair[2] /\ d.body.kind = "bump" /\ d.body.orig = pair[1]

\* A bump, and a bump of a bump that was never sent, replaces a transaction
\* the network has.
BumpReplacesWhatWasSent ==
  AtWork /\ Record.body.kind = "bump" => \E d \in delivered : d.tx_ref = Record.body.orig

\* The wish to sign on the device belongs to one approved send: it never
\* overrides the file signer for a later one.
DeviceWishIsForThisSend == hwSignWanted => state = "confirmed"

Promise == INSTANCE SendPromise
             WITH Body <- SendBody, offer <- pending, approved <- confirmed,
                  done <- (state = "broadcast"), seen <- minted

\* The pipeline keeps the strict promise of SendPromise: whatever is said,
\* replaced or refused, an approval is never dropped on its way to the network.
KeepsStrictPromise == Promise!StrictSpec

\* app.py, sign_tx: the change index is recovered from the cursor because the
\* "single-pending-tx invariant keeps it stable here".
ApprovedStaysSignable == state = "confirmed" => RecoversChange(confirmed)

\* app.py, broadcast_tx: the coin labels go to the change address "at next_index-1
\* (the allocation advanced at staging; ... single-pending-tx invariant)".
LabelsItsOwnChange ==
  [][(state = "signed" /\ state' = "broadcast") => RecoversChange(confirmed)]_vars

\* app.py, create_tx: the refusal of flow.create is "unreachable single-threaded
\* after the pending guard", so a dispatch that takes an index stages a card.
IndexTakenIsStaged ==
  [][(phase = "model" /\ nextChange' # nextChange) => flow' # flow]_vars
=============================================================================
