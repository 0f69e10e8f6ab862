# local-wallet in TLA+

TLA+ models of [local-wallet](../src), a bitcoin wallet that is operated in
conversation: a local language model turns what the user says into one of a closed set of
*intents*, and everything that touches money is decided by ordinary code. The wallet holds
only watch keys; the user approves a send, an external signer signs it, and the wallet
broadcasts it. The models cover the parts of that code where the order of events matters.

The source is under `../src`; `app.py`, `tx/flow.py` and the like mean
`src/src/localwallet/app.py` and so on. `PROJECT.json` maps every definition that models
code to its lines.

## 1. The system

### 1.1 Parts, their state and their operations

| part | source | state | operations |
|---|---|---|---|
| Send-flow state machine | `tx/flow.py` `TxFlow` | state, pending, confirmed and signed records, txid | `create`, `confirm`, `cancel`, `mark_signed`, `broadcast`, `reset`; an injected clock and id factory |
| Confirmation gate | `tx/flow.py` `ConfirmGate` | none | `classify`: an utterance is confirm, deny, ambiguous or no decision |
| Send pipeline | `app.py`: `_run_turn`, the tool handlers, `SendSession` | about thirty markers that live from one turn to the next; the change cursor and the lineage table in the store | a turn: intercepts, gate, one model dispatch, end of turn; the handlers `create_tx`, `self_transfer`, `bump_fee`, CPFP, `confirm_tx`, `sign_tx`, `broadcast_tx` |
| Agent loop | `agent/loop.py` | none between turns | `run`: ask the model, validate, dispatch at most once, narrate |
| Address issuing and wallet scan | `wallet/scan.py`, `store/db.py`, `app.py` | rows per address, one cursor per branch | `new_address`; `plan_scan`, `fetch_scan`, `persist_scan`; rescan |
| Background scans | `app.py`: `StartupScan`, `ChainWorker`, `ScanFlow` | gate, generation stamp, worker queue, armed plan | `begin`, `resync_now`, `scan_now`, `handle_command`; the swap of the chain client |
| Engine pump and transport | `app.py`: `_pump`, `EnginePump`, `EngineHandle` | one command queue, one engine thread | lines, state and settings requests with deadlines, stop, quit |
| Web server, event bus | `ui/web/server.py` | ring of events, bounded subscribers | publish, subscribe with replay, drop |
| Chain server settings | `app.py`: `ChainBackendFlow` | effective URL, installed client | probe, build, store, install, resync |
| Model preload and download | `app.py` | state machine, worker threads, child process | begin, load, warm up, cancel, finish |
| Watch key provisioning | `app.py`: `WatchKeyProvision` | wiring of the engine | provision, replace |
| Incoming watcher | `chain/watch.py` | transactions seen, tip seen | poll |
| Fees, price | `chain/fees.py`, `chain/price.py` | snapshot with an age | refresh, clamp, invalidate |
| Chain clients | `chain/electrum.py`, `esplora.py`, `bitcoind.py` | a socket (electrum) | request, retry, reconnect, close |
| Coin selection, dust, replacement, CPFP | `tx/selection.py`, `dust.py`, `replacement.py`, `cpfp.py` | none | pure integer algorithms |
| PSBT and revalidation | `tx/psbt.py`, `revalidate.py` | none | build; compare a signed PSBT with the approved record |
| Store | `store/db.py`, `models.py` | SQLite tables | one transaction per call; lineage, labels, migrations |
| Signers | `signer/*.py` | none | subprocess or file hand-off |
| Onboarding, settings chat, narration, envelope parsing, runtimes, node detection | the rest of `src/localwallet` | little or none | dialogue, parsing, wording, I/O |

### 1.2 How they interact

One **engine thread** runs the conversation: it takes a command from its queue, and either
applies a result a worker delivered or runs one turn. A turn may call handlers, and the
handlers call `TxFlow`, the store, the signers and the chain client. The **chain worker**
runs one `fetch_scan` after another; it never touches the store, and returns immutable
records through the command queue (or to an engine blocked in `scan_now`). **Transport
threads** of the web server put requests in the queue and wait for a reply with a deadline;
the engine publishes events to the bus. The model, the user, the device, the price and fee
services and the Bitcoin network are the environment.

### 1.3 What is hard

* *Long legal sequences.* A send crosses many turns, and between any two of them the user
  can re-quote, cancel, let a card expire, start another kind of send, bump, retry, change
  the signer, or ask a question. Some thirty session markers must be set, carried or cleared
  on each path. Tests follow a path; they do not follow all of them.
* *Values recovered later.* `sign_tx` and `broadcast_tx` recompute the change index from the
  cursor as it is then, not as it was when the send was staged.
* *Several steps, several transactions.* Issuing an address is three store transactions;
  `create_tx` spends an index before the state machine accepts the card.
* *Scans race with everything.* A plan is made now, fetched later, persisted later still,
  while addresses are issued, the server is swapped and the chain changes.
* *Lost answers.* A broadcast may have reached the network although it reported failure.
* *Threads.* A delivery of a superseded fetch, a blocked engine, a request that timed out but
  is still queued.

### 1.4 What makes each part correct

* Send flow: only the card on the table can be approved, within its TTL; only what was
  approved is signed and broadcast; a reference that left the table is dead for good.
* Gate: no utterance with a no in it confirms; word order does not turn a no into a yes; a
  word the gate does not know never counts.
* Send pipeline: the same promise end to end, with a hostile model choosing the intents; each
  special send is treated as what its card said; lineage rows tell the truth; the public
  endpoint sees a transaction once and only after the user's own server refused it.
* Addresses: no index an issue returned comes up for issue again; what was only previewed is
  issued next, and nothing shown is later denied; no scan takes back an allocation.
* Background scans: newer data is never overwritten by older, nor the new server's by the
  old one's; the gate that holds back sends always opens; a waiting engine always returns.
* Planned parts: see the plan and `hazards` in `PROJECT.json`.

## 2. The modules

| module | models | extends or instantiates |
|---|---|---|
| `SendPromise` | abstract: what the wallet promises about a send | |
| `TxFlow` | the state machine of `tx/flow.py` | `SendPromise` (refinement) |
| `TxFlowProofs` | proofs about `TxFlow` | `TxFlow` |
| `ConfirmGate` | `ConfirmGate.classify` over words by whitelist class | |
| `SendSession` | the turn, the handlers and the session of `app.py` | `TxFlow` as `Flow`, `SendPromise` (refinement) |
| `AddressIndex` | issuing and scanning on one branch | |
| `AddressIndexProofs` | proofs about `AddressIndex` | `AddressIndex` |
| `ScanFlow` | gate, worker, stamps and client swap | |
| `EventBus` | the event stream from the engine to the browser tabs | |
| `MC...` | small instances | the module they name |

**SendPromise.** An offer, an approval and a delivery. `Spec` allows an approval to be
abandoned (a caller of `TxFlow` may call `reset`); `StrictSpec` does not, and is what the
whole pipeline keeps.

**TxFlow.** One action per method. A method that raises without a state change is not a step;
`confirm` on a stale card is (it expires the card, then raises). `Tick` is the injected
clock. A body stands for everything in a record that the flow only carries. `minted` is
history: the references the id factory gave out, which by the factory's contract are fresh.

**ConfirmGate.** Two words of each class of the whitelist (confirm, deny, filler, unknown),
and words that make up the phrases, so that phrases can be formed, broken and mixed. `Dots`
is an utterance of punctuation, which tokenizes to nothing.

**SendSession.** `phase` is the program counter of a turn: `idle` (reading a line), `model`
(the gate has spoken, the model may dispatch), `handoff` and `file` (code dispatches the
signature). The actions `Says...` are the intercepts of `_run_turn`, in the order it tests
them; `ModelDispatches` and `ModelConfirms` are the dispatch of the agent loop, with the
model free to choose any intent and any reference; a handler that fails before its commit
point changes nothing (`Refused`). The handlers use `TxFlow`'s own actions, so a guard of
the state machine is never restated. The network may accept a broadcast, refuse it over its
fee floor, fail, or accept it and lose the answer. `SharedKeys` says whether another program
spends from the same keys, in which case a scan can advance the change cursor too. History:
`delivered`, `ownRefused`, `publicSends`.

**AddressIndex.** One branch of one wallet. `issuing` is the program counter of the handler:
its store calls are transactions of their own, so a crash or a store failure may fall between
them. The engine runs one handler at a time, so a plan or a persist does not fall inside an
issue; the fetch, the chain and a crash fall anywhere. A fetch probes one address a step; plan
and walk are dropped when the scan ends. `history` is what the chain reports; with
`MempoolForgets` an unconfirmed payment may vanish from it.

Being shown and being issued are two things. `shown` stands for `address_registry`, which every
answer that prints an address writes: an issue, but also the preview of `/receive`, which shows
the address *at* the cursor and moves nothing (`PrintNextReceive`; a `new_address` after it
issues the very same address, as its docstring says), the lists of used addresses and of coins
(`ListAddresses`), and `/verifyaddress` (`VerifyAddress`). The registry is reduced to the
highest index it holds. `issued` is history: the indices `new_address`, or a staged change,
*returned*. An issue that dies before it returns is not among them: when it dies before the
bump, the next issue returns the same index. `vanished` is history too.

**ScanFlow.** The engine's arms (`Begin`, `ResyncNow`, `Finish`, `ScanNow`, `InstallBackend`),
the worker (start a fetch with the client of that moment, end it), and the world (blocks,
settings). What a scan brings is reduced to whom it asked, how far the chain was when it asked
and the gap limit of its plan. `SetGapLimit` is the whole handler of the settings chat: it
writes the file and, when the limit grew and no scan is in progress, starts the rescan.

**EventBus.** The engine (`Publish`, `Shutdown`), one thread per connection (`writer` is its
program counter: `replay` streams the copied ring, then `check` looks at `dead` and `get` takes
from the queue), and the tab (`Receive`, `Eof`, `Connect`), joined by a `wire` that may break
and lose what is on it. An event is its number. The old thread of a broken connection feeds
nobody, so it ends with the connection. A restarted server refuses the tab's token (401 stops
the tab), so one life of the server is modelled.

### Bug variants

Each module has a few operators that no action uses, each just before the definition it
varies: `NeverStale` before `Stale`, `MarksAny` before `Marks`. They are the bugs the
properties are there to catch; `PROJECT.json` (`mutants`) names, for each property, the
definition and the variant under which TLC finds the property violated.

## 3. What is checked

All runs finish within a minute and a half (`tlc -config <cfg> <module>`).

| run | shows | bounds, and why they are enough |
|---|---|---|
| `tx_flow` | records match the state; the signed record is the approved one; no reference returns; TTL honoured; `SendPromise!Spec` implemented | three references: a card, its re-quote and a third after both; two bodies; TTL 1 and a clock to 4, so that cards expire at, just after and long after the TTL. The proofs remove the bounds |
| `confirm_gate` | conservative classification | utterances of up to four words, longer than every phrase of the whitelist plus a contradicting word |
| `send_session` | eight properties of the whole pipeline, `SendPromise!StrictSpec` among them | three references: a send, its bump and the bump of the bump, or two re-quotes; TTL 0 and a clock of 1, so that a card can expire at every point of a turn; four change indices. References are symmetric. 2.1 million states |
| `address_index` | nothing an issue returned is issued again; nothing shown lies beyond the cursor, where `/verifyaddress` would deny it; allocations survive scans | a window of four and gaps 1 and 2: a narrow rescan misses what a wide scan found, the cap is met, and issues, previews, a scan and a crash overlap. 1.3 million states |
| `address_forgets` | with a mempool that forgets: only a rebuild lowers the cursor, and it leaves in front of it nothing its walk found, no marked row, and of the issued addresses only such as a payment vanished from | a window of three and a gap of 2: room for an issued address, one whose payment vanished and one never paid. 2.3 million states |
| `scan_flow` | one owner of a running gate; no older data; a swap sticks; `GateOpens` and `EngineReturns` under fairness | two servers, two swaps, one block and two gap limits: two superseded fetches queued behind one another while the chain moves once, and a widened limit that starts a scan of its own |
| `event_bus` | every event once and in order, or the gap is told, and only a real one; every tab catches up; shutdown ends every connection | one tab (tabs share only the ring); a ring of two and a queue of one, so that one slow frame overflows the queue and two more outrun the ring; five events and two broken connections, so that a tab is told of a gap, cut off, and told of another |
| `send_change_index`, `send_change_labels`, `send_backstop`, `address_reissue`, `scan_flow_gap` | the disagreements of section 5 | as above; single properties |

Deadlock is checked in every run: in each model some actor can always do something.

**Fairness** is assumed in two modules. In `ScanFlow`: weak fairness of the worker thread (each fetch is
bounded by the window cap and the client's timeouts, then its loop takes the next job), of the
pump starting an armed scan, of the pump taking a delivered result, and of the return from
`scan_now`. In `EventBus`: weak fairness of a connection's thread (its waits and its writes have
timeouts) and of the tab (its loop reads what arrives and reconnects with a bounded backoff for
ever). Nothing is assumed of the user, the chain, a poll or the publishing engine. An exception that is no
chain, store or scan error ends the engine (the pump re-raises it) and is not modelled.

## 4. What is proved

**TxFlow**, for any set of references, bodies and txids, any TTL and an unbounded clock
(`MaxClock` bounds the model only, and any value of it is covered). The assumptions are
`FlowAssumption`: the constants have the types their comments say, and `None` is no record.

The inductive invariant is `FlowInv`: the types, `RecordsMatchState`, `OneTransaction`, and
that every record held carries a minted reference. The last part is what makes
`InertForGood` an action property of one step: a fresh reference differs from every held one,
and every other step moves records it already holds.

* `TypeCorrect`, `RecordsCorrect`, `OneTransactionCorrect`: from `FlowInv`.
* `InertCorrect`, `TtlCorrect`: action properties, one case per call, from `FlowInv`.
* `FlowKeepsPromise`: `TxFlow` implements `SendPromise!Spec` under the mapping of `Promise`;
  initial states map to initial states and every call to a step or a stutter.

**AddressIndex**, for any window and any set of gap limits (`AddressAssumption`: the limits lie
within the window, and `None` is no plan). A scan takes maxima over sets of rows, so the proofs
first show that a non-empty set of indices has a largest member (`LargestIndex`, from the
well-foundedness of the natural numbers), and from it what `FlooredNext` is above
(`FlooredNextBounds`). Three invariants carry the rest:

* `CursorInv`, whatever the mempool forgets: the types; an issue under way has its row
  allocated; and a scan that keeps the cursor may find it moved on since its plan only past a
  row that is allocated or used, so that the floor over the rows of *now* brings it back.
  From it: `TypeCorrect`, `AllocatedStaysHolds`, `LoweredOnlyByRebuildHolds`.
* `KeptInv`, for each address no payment vanished from, whatever happens to the others: a used
  row is on the chain, a walk has found it once it passed it, and an issued address is still
  marked and behind the cursor. With `CursorInv` it gives `CursorOnFreshAddressHolds`, also for
  a mempool that forgets. The theorem allows a lowered cursor in front of an address that was
  only shown, and of one that was paid after its probe: the code does allow both.
* `ShownInv`, while nothing vanishes: the cursor stands right behind a marked row and past every
  used one, and a plan saw no row marked that is not marked now, so a rebuild can only move the
  cursor on. With the other two: `NeverReissuedHolds` and `ShownIsShowableHolds`, both with
  `~MempoolForgets` as an explicit assumption, which `address_reissue` shows to be necessary
  for the first.

Model-checked only: everything about `SendSession`, `ScanFlow` and `EventBus` (proofs planned), all
liveness (temporal reasoning with fairness is out of the prover's reach), and `ConfirmGate`
(a recursive tokenization of data).

## 5. Where code and words disagree

1. `sign_tx` recovers the change index as cursor minus one. `create_tx` refuses only while a
   card is *staged*; while an approved send awaits its signature it still takes an index
   (writes the row, allocates, bumps) before `flow.create` refuses. The approved send's
   signature then fails re-validation for ever, and `CONFIRMED` has no other way out
   (`send_change_index`).
2. The same between signing and broadcast: the inherited coin labels go to an address the
   transaction does not pay (`send_change_labels`).
3. The refusal that `create_tx` calls unreachable is reached in `CONFIRMED`, `SIGNED` and
   `BROADCAST` (`send_backstop`). After a broadcast it is the only outcome: `flow.reset` is
   called by `bump_fee` and CPFP alone, so `create_tx` and `self_transfer` stay refused until
   one of those, or a restart.
4. The terminal states `CANCELLED` and `EXPIRED` are left by `create`, not only by `reset`
   (`Creatable` in `TxFlow`; the comment of `TxFlowStatus` says only `reset`). No run.
5. An address that was issued, paid, and unpaid again (an unconfirmed payment evicted) loses
   its `allocated` mark, and a rescan lowers the cursor to it (`address_reissue`). Without
   forgetful mempools it cannot happen (`address_index`, and the theorem `NeverReissuedHolds`).
   That a previewed address is issued afterwards is no disagreement: the docstring of
   `new_address` and a test ask for it, and `NeverReissued` does not count it.
6. `scan_now` plans with the gap limit of the boot (`scan_flow_gap`).

## 6. What is not modelled

See `components` in `PROJECT.json` for the reason of each. In short: byte formats and key
arithmetic (PSBT, descriptors), pure I/O (HTTP, subprocesses, node detection), wording, and
the sequential dialogues (onboarding, settings chat). Within the modelled parts: amounts and
coins in `SendSession`; coins, transactions and labels of a scan in `AddressIndex`, the numbers
of its registry, the several receive addresses that one `self_transfer` takes in a loop, the
change branch (which has no preview) as a second cursor, and issuing beyond the window
(`new_address` has no such bound; `MaxWindow` bounds it in the model); progress
ticks in `ScanFlow`; heartbeats and the contents of events in `EventBus`. A tab without a cursor
resumes nothing and is told of no gap, also when it was cut off before it read its first event;
`ContiguousOrTold` says so.

## 7. Plan

Done: `SendPromise`, `TxFlow`, `TxFlowProofs`, `ConfirmGate`, `SendSession`, `AddressIndex`,
`AddressIndexProofs`, `ScanFlow`, `EventBus`.

Next, most important first:

1. `EngineRequests`: the command queue, transport requests with deadlines, stop and quit;
   abstract specification: every accepted line runs once and in order, an answer belongs to
   its request. Composes with `ScanFlow`'s arms of the pump.
2. `BackendSwap`: the apply protocol of `ChainBackendFlow` (probe, build, store, install,
   resync, roll back), over `ScanFlow!InstallBackend`; the stored and the installed server agree.
3. `ModelPreload` and `ModelDownload`: worker threads with bounded joins, cancel and quit.
4. `WatchKeyProvision`: replacing the wallet while a scan of the old one is in flight.
5. `IncomingWatcher`: each payment surfaces once, through failed polls.
6. `FeeCache`, `ElectrumClient`: age, floor and invalidation; a shared connection between two
   threads, retries and close.
7. `CoinSelection`, `Replacement`: pure algorithms against reference definitions, with TLC over
   bounded inputs; the arithmetic lemmas (conservation, fee floors) proved.
8. `Store`: superseded states along replacement chains, labels, migrations.

Theorems to come: `MarkersMatchRecord` and the strict promise for `SendSession`;
`RunningHasOneOwner`, `SwapSticks` and `WaitsForItsOwn` for `ScanFlow` (their inductive invariant counts
live stamps in the queues); contiguity of `EventBus`; conservation in `CoinSelection`.
