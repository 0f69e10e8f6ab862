---------------------------- MODULE AddressIndex ----------------------------
(***************************************************************************)
(* Issuing addresses while scans run: the derivation cursor of one branch  *)
(* (store/db.py), the handlers that issue its next address (new_address,   *)
(* and the change address of a staged send, in app.py), the handlers that  *)
(* show addresses without issuing them, and the three phases of a scan     *)
(* (wallet/scan.py): plan_scan and persist_scan on the engine thread,      *)
(* fetch_scan on the worker, one address at a time.                        *)
(*                                                                         *)
(* The engine thread runs one handler at a time, so a plan or a persist    *)
(* never falls inside an issue; the fetch, the chain and a crash fall      *)
(* anywhere.  Every store call is a transaction of its own.  An address is *)
(* its index; a transaction is the history of one index.                   *)
(***************************************************************************)
EXTENDS Integers, FiniteSetsExt

CONSTANTS
  None,          \* no plan
  Gaps,          \* gap limits the user may set
  MaxWindow,     \* _MAX_WINDOW_ADDRESSES; also bounds what is issued
  MempoolForgets \* an unconfirmed transaction can vanish again

ASSUME AddressAssumption ==
  /\ MaxWindow \in Nat \ {0}
  /\ Gaps \subseteq 1..MaxWindow /\ Gaps # {}
  /\ MempoolForgets \in BOOLEAN
  /\ None \notin [rebuild : BOOLEAN, gap : Gaps]

Indices == 0..MaxWindow - 1

VARIABLES
  status,    \* addresses.status of each index, or "absent"
  nextIndex, \* derivation.next_index
  issuing,   \* where new_address is: idle, upserted or bumped
  shown,     \* address_registry: the highest index any answer printed, or -1
  issued,    \* the indices an issue returned; no handler reads it
  history,   \* the indices the chain reports a transaction for
  vanished,  \* the indices a payment vanished from; no handler reads it
  plan,      \* the ScanPlan in flight, or None
  planned,   \* plan.existing and plan.derivation_next
  at, quiet, \* the walk: index probed next, consecutive unused
  found      \* the indices with history so far

store == <<status, nextIndex, shown>>
chain == <<history, vanished>>
scan == <<plan, planned, at, quiet, found>>
vars == <<store, issuing, issued, chain, scan>>

Status == {"absent", "unused", "allocated", "used"}

NothingPlanned == [status |-> [i \in Indices |-> "absent"], next |-> 0]

Init ==
  /\ status = [i \in Indices |-> "absent"]
  /\ nextIndex = 0
  /\ issuing = "idle"
  /\ shown = -1 /\ issued = {}
  /\ history \in SUBSET Indices /\ vanished = {}
  /\ plan = None
  /\ planned = NothingPlanned
  /\ at = 0 /\ quiet = 0 /\ found = {}

-----------------------------------------------------------------------------
(* Issuing: read the cursor, upsert and allocate, bump, note as shown, and *)
(* return.  MaxWindow is the only bound on what is issued.                 *)

IssueUpsert ==
  /\ issuing = "idle"
  /\ nextIndex < MaxWindow
  /\ status' = [status EXCEPT ![nextIndex] = "allocated"]
  /\ issuing' = "upserted"
  /\ UNCHANGED <<nextIndex, shown, issued, chain, scan>>

IssueBump ==
  /\ issuing = "upserted"
  /\ nextIndex' = nextIndex + 1
  /\ issuing' = "bumped"
  /\ UNCHANGED <<status, shown, issued, chain, scan>>

IssueShow ==
  /\ issuing = "bumped"
  /\ shown' = Max({shown, nextIndex - 1})
  /\ issued' = issued \cup {nextIndex - 1}
  /\ issuing' = "idle"
  /\ UNCHANGED <<status, nextIndex, chain, scan>>

\* A store call failed: the handler reports an error, earlier calls stand.
IssueFails ==
  /\ issuing # "idle"
  /\ issuing' = "idle"
  /\ UNCHANGED <<store, issued, chain, scan>>

-----------------------------------------------------------------------------
(* Showing without issuing: rows and cursor stay as they are *)

\* An answer prints addresses, index i the highest of them, and the registry
\* numbers them.
Shows(i) ==
  /\ issuing = "idle"
  /\ shown' = Max({shown, i})
  /\ UNCHANGED <<status, nextIndex, issuing, issued, chain, scan>>

\* /receive previews the next address; new_address then issues the same one.
PrintNextReceive == nextIndex \in Indices /\ Shows(nextIndex)

\* A list of the used addresses, which an error may cut short, or of coins.
ListAddresses == \E i \in Indices : status[i] = "used" /\ Shows(i)

\* /verifyaddress refuses an index beyond the preview.
VerifyAddress == \E i \in Indices : i <= nextIndex /\ Shows(i)

-----------------------------------------------------------------------------
(* Scanning *)

HighestOf(S) == IF S = {} THEN -1 ELSE Max(S)

\* Rows that were ever given out or paid.
HighestAllocatedOnly(rows) == HighestOf({i \in Indices : rows[i] = "used"})
HighestAllocated(rows) == HighestOf({i \in Indices : rows[i] \in {"allocated", "used"}})

\* plan_scan: a snapshot of the rows and, unless rebuilding, of the cursor.  A
\* later plan supersedes one in flight, whose result is then discarded.
PlanScan(gap, rebuild) ==
  /\ issuing = "idle"
  /\ plan' = [rebuild |-> rebuild, gap |-> gap]
  /\ planned' = [status |-> status, next |-> IF rebuild THEN 0 ELSE nextIndex]
  /\ at' = 0 /\ quiet' = 0 /\ found' = {}
  /\ UNCHANGED <<store, issuing, issued, chain>>

\* A scan is over: plan and walk are dropped.
ScanEnds ==
  /\ plan' = None
  /\ planned' = NothingPlanned
  /\ at' = 0 /\ quiet' = 0 /\ found' = {}

\* The walk ends after a gap of unused addresses or at the window's cap.
UncappedEnd == quiet >= plan.gap
WalkEnded == quiet >= plan.gap \/ at >= MaxWindow

\* One probe of fetch_scan; the chain may change between two probes.
FetchProbe ==
  /\ plan # None
  /\ ~WalkEnded
  /\ at' = at + 1
  /\ IF at \in history
       THEN quiet' = 0 /\ found' = found \cup {at}
       ELSE quiet' = quiet + 1 /\ UNCHANGED found
  /\ UNCHANGED <<store, issuing, issued, chain, plan, planned>>

\* A probe raised ChainError: the scan is given up with the store untouched.
FetchFails ==
  /\ plan # None
  /\ ScanEnds
  /\ UNCHANGED <<store, issuing, issued, chain>>

\* fetch_scan's row for a probed index, from the plan's snapshot.
Fetched(i) ==
  IF i \in found THEN "used"
  ELSE IF planned.status[i] = "allocated" THEN "allocated"
  ELSE "unused"

\* persist_scan never downgrades what the store holds as allocated by now.
UnmergedStatus(i) == Fetched(i)
MergedStatus(i) ==
  IF Fetched(i) = "unused" /\ status[i] = "allocated" THEN "allocated" ELSE Fetched(i)

ForgottenNext == Max({HighestAllocated(planned.status) + 1, HighestOf(found) + 1})

\* The cursor of the scan: a rebuild recomputes it, any other keeps it.
FetchedNext ==
  IF plan.rebuild
    THEN Max({HighestAllocated(planned.status) + 1, HighestOf(found) + 1})
    ELSE Max({planned.next, HighestOf(found) + 1})

\* It is floored at the rows the store holds by now.
UnflooredNext == FetchedNext
FlooredNext == Max({FetchedNext, HighestAllocated(status) + 1})

PersistScan ==
  /\ plan # None
  /\ issuing = "idle"
  /\ WalkEnded
  /\ status' = [i \in Indices |-> IF i < at THEN MergedStatus(i) ELSE status[i]]
  /\ nextIndex' = FlooredNext
  /\ ScanEnds
  /\ UNCHANGED <<shown, issuing, issued, chain>>

-----------------------------------------------------------------------------
(* The world *)

\* A payment to any address: one that was given out, or one another copy of
\* the wallet gave out.
Pay(i) ==
  /\ history' = history \cup {i}
  /\ UNCHANGED <<store, issuing, issued, vanished, scan>>

\* An unconfirmed payment is replaced or evicted.
Vanish(i) ==
  /\ MempoolForgets
  /\ i \in history
  /\ history' = history \ {i}
  /\ vanished' = vanished \cup {i}
  /\ UNCHANGED <<store, issuing, issued, scan>>

\* The process dies and is started again: the store is what it was.
Crash ==
  /\ issuing' = "idle"
  /\ ScanEnds
  /\ UNCHANGED <<store, issued, chain>>

Next ==
  \/ IssueUpsert \/ IssueBump \/ IssueShow \/ IssueFails
  \/ PrintNextReceive \/ ListAddresses \/ VerifyAddress
  \/ \E gap \in Gaps, rebuild \in BOOLEAN : PlanScan(gap, rebuild)
  \/ FetchProbe \/ FetchFails \/ PersistScan
  \/ \E i \in Indices : Pay(i) \/ Vanish(i)
  \/ Crash

Spec == Init /\ [][Next]_vars

-----------------------------------------------------------------------------

TypeOK ==
  /\ status \in [Indices -> Status]
  /\ nextIndex \in 0..MaxWindow
  /\ issuing \in {"idle", "upserted", "bumped"}
  /\ shown \in -1..MaxWindow - 1 /\ issued \subseteq Indices
  /\ history \subseteq Indices /\ vanished \subseteq Indices
  /\ plan \in [rebuild : BOOLEAN, gap : Gaps] \cup {None}
  /\ planned \in [status : [Indices -> Status], next : 0..MaxWindow]
  /\ at \in 0..MaxWindow /\ quiet \in 0..MaxWindow /\ found \subseteq Indices

\* wallet/scan.py: "no issued address is ever re-issued", whatever scans,
\* rebuilds, narrower gaps, failures and crashes fall between two issues: the
\* cursor is past every index that new_address or a staged change returned.  An
\* index that was only previewed, or whose issue died before it returned, is
\* not among them: the next issue returns it, as the docstring of new_address
\* says.
NeverReissued == \A i \in issued : i < nextIndex

\* What was shown is issued already, behind the cursor, or next to be issued:
\* /verifyaddress answers that any index beyond was "NEVER shown", whatever
\* was previewed, listed or verified before a scan moved the cursor.
ShownIsShowable == shown <= nextIndex

\* A row the store holds as allocated is never downgraded to unused: not by a
\* scan planned before it was allocated, nor by one that never reached it.
AllocatedStays ==
  [][\A i \in Indices : status[i] = "allocated" => status'[i] \in {"allocated", "used"}]_vars

\* Only a scan planned as a rebuild can lower the cursor: every scan of a
\* program launched to rescan, and the resync of a request, of a new chain
\* server or of a wider gap limit.  The scan of a plain start, a poll or a lazy
\* caller never does, however much the chain forgot.
LoweredOnlyByRebuild == [][nextIndex' < nextIndex => plan.rebuild]_vars

\* A rebuild that lowers the cursor leaves in front of it no address that its
\* own walk found paid, none whose row it leaves marked, and of those that were
\* issued only such as a payment vanished from.  It may leave there an address
\* that was only shown, and one that was paid after its probe.
CursorOnFreshAddress ==
  [][nextIndex' < nextIndex =>
       \A i \in nextIndex'..MaxWindow - 1 :
         /\ i \notin found /\ status'[i] \notin {"used", "allocated"}
         /\ i \in issued => i \in vanished]_vars
=============================================================================
