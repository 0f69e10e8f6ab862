------------------------- MODULE AddressIndexProofs -------------------------
(***************************************************************************)
(* Proofs about AddressIndex for every window and every set of gap limits: *)
(* the type invariant, what a scan may do to rows and cursor, that only an *)
(* address a payment vanished from can come in front of the cursor again,  *)
(* and, while the mempool forgets nothing, that none is issued twice and   *)
(* none is shown beyond the cursor.                                        *)
(***************************************************************************)
EXTENDS AddressIndex, WellFoundedInduction, TLAPS

-----------------------------------------------------------------------------
(* The largest index of a set *)

Below == {ss \in Nat \X Nat : ss[1] < ss[2]}

LEMMA BelowWellFounded == IsWellFoundedOn(Below, Nat)
  BY NatLessThanWellFounded DEF OpToRel, Below

\* Every set of indices that has a member has a largest one.
LEMMA LargestIndex ==
  ASSUME NEW S \in SUBSET Indices, S # {}
  PROVE  \E x \in S : \A y \in S : x >= y
<1> DEFINE T == {MaxWindow - i : i \in S}
<1>1. T \subseteq Nat
  BY AddressAssumption DEF Indices
<1>2. T # {}
  OBVIOUS
<1> HIDE DEF T
<1>3. PICK m \in T : \A n \in T : ~(<<n, m>> \in Below)
  BY <1>1, <1>2, BelowWellFounded, WFMin
<1>4. PICK x \in S : m = MaxWindow - x
  BY <1>3 DEF T
<1>5. ASSUME NEW y \in S PROVE x >= y
  <2>1. MaxWindow - y \in T
    BY DEF T
  <2>2. ~(MaxWindow - y < MaxWindow - x)
    BY <1>1, <1>3, <1>4, <2>1 DEF Below
  <2> QED
    BY <2>2, AddressAssumption DEF Indices
<1> QED
  BY <1>5

\* HighestOf bounds its set, stays in the window, and is -1 for the empty set.
LEMMA HighestOfBounds ==
  ASSUME NEW S \in SUBSET Indices
  PROVE  /\ HighestOf(S) \in -1..MaxWindow - 1
         /\ \A i \in S : i <= HighestOf(S)
         /\ HighestOf(S) # -1 => HighestOf(S) \in S
<1>1. CASE S = {}
  BY <1>1, AddressAssumption DEF HighestOf
<1>2. CASE S # {}
  <2>1. HighestOf(S) \in S /\ \A y \in S : HighestOf(S) >= y
    BY <1>2, LargestIndex DEF HighestOf, Max
  <2>2. HighestOf(S) \in Indices
    BY <2>1
  <2>3. \A y \in S : y <= HighestOf(S)
    BY <2>1, <2>2, AddressAssumption DEF Indices
  <2> QED
    BY <2>1, <2>2, <2>3, AddressAssumption DEF Indices
<1> QED
  BY <1>1, <1>2

\* The cursor is past every row that was given out or paid.
LEMMA HighestAllocatedBounds ==
  ASSUME NEW rows \in [Indices -> Status]
  PROVE  /\ HighestAllocated(rows) \in -1..MaxWindow - 1
         /\ \A i \in Indices : rows[i] \in {"allocated", "used"} => i <= HighestAllocated(rows)
         /\ HighestAllocated(rows) # -1
              => rows[HighestAllocated(rows)] \in {"allocated", "used"}
<1> DEFINE S == {i \in Indices : rows[i] \in {"allocated", "used"}}
<1>1. S \in SUBSET Indices
  OBVIOUS
<1>2. /\ HighestOf(S) \in -1..MaxWindow - 1
      /\ \A i \in S : i <= HighestOf(S)
      /\ HighestOf(S) # -1 => HighestOf(S) \in S
  BY <1>1, HighestOfBounds
<1> QED
  BY <1>2 DEF HighestAllocated

LEMMA LargerOfTwo ==
  ASSUME NEW a \in Int, NEW b \in Int
  PROVE  Max({a, b}) = IF a >= b THEN a ELSE b
<1>1. CASE a >= b
  BY <1>1 DEF Max
<1>2. CASE ~(a >= b)
  BY <1>2 DEF Max
<1> QED
  BY <1>1, <1>2

-----------------------------------------------------------------------------
(* The invariants *)

Plans == [rebuild : BOOLEAN, gap : Gaps]

\* Whatever the mempool forgets: an issue under way has its row allocated, and
\* a scan that keeps the cursor may find it moved on only past such a row.
CursorInv ==
  /\ TypeOK
  /\ issuing = "upserted" => nextIndex < MaxWindow /\ status[nextIndex] = "allocated"
  /\ issuing = "bumped" => nextIndex > 0 /\ status[nextIndex - 1] = "allocated"
  /\ plan # None /\ ~plan.rebuild /\ planned.next < nextIndex
       => status[nextIndex - 1] \in {"allocated", "used"}

Marked == {"allocated", "used"}

\* Of an address no payment vanished from: a used row is on the chain, a scan
\* has found it once it walked past it, and an issued address is still marked
\* and behind the cursor.
KeptInv ==
  \A i \in Indices \ vanished :
    /\ status[i] = "used" => i \in history
    /\ i \in found => i \in history
    /\ plan # None /\ i < at /\ status[i] = "used" => i \in found
    /\ i \in issued => status[i] \in Marked /\ i < nextIndex

\* While nothing vanishes: the cursor stands right behind a marked row and past
\* every used one, so a scan, whose plan saw no more rows marked than now are,
\* can only move it on.
ShownInv ==
  /\ vanished = {}
  /\ \A i \in found : i < at
  /\ \A i \in Indices : status[i] = "used" => i < nextIndex
  /\ nextIndex > 0 => status[nextIndex - 1] \in Marked
  /\ plan # None => /\ planned.next <= nextIndex
                    /\ \A i \in Indices : planned.status[i] \in Marked => status[i] \in Marked
  /\ ShownIsShowable

LEMMA NothingPlannedType == NothingPlanned \in [status : [Indices -> Status], next : 0..MaxWindow]
  BY AddressAssumption DEF NothingPlanned, Status

LEMMA CursorInvInit == Init => CursorInv
  BY NothingPlannedType, AddressAssumption DEF Init, CursorInv, TypeOK, Status, Indices

\* What an answer that issues nothing does to the registry.
LEMMA ShowsBounds ==
  ASSUME TypeOK, PrintNextReceive \/ ListAddresses \/ VerifyAddress
  PROVE  \E i \in Indices :
           /\ Shows(i)
           /\ shown' = IF shown >= i THEN shown ELSE i
           /\ shown' \in -1..MaxWindow - 1
           /\ i <= nextIndex \/ status[i] = "used"
<1>1. nextIndex \in 0..MaxWindow /\ shown \in -1..MaxWindow - 1
  BY DEF TypeOK
<1>2. PICK i \in Indices : Shows(i) /\ (i <= nextIndex \/ status[i] = "used")
  BY <1>1 DEF PrintNextReceive, ListAddresses, VerifyAddress
<1>3. shown' = IF shown >= i THEN shown ELSE i
  BY <1>1, <1>2, LargerOfTwo, AddressAssumption DEF Shows, Indices
<1> QED
  BY <1>1, <1>2, <1>3, AddressAssumption DEF Indices

\* Where the cursor is after a scan is persisted.
LEMMA FlooredNextBounds ==
  ASSUME TypeOK, plan # None
  PROVE  /\ FlooredNext \in 0..MaxWindow
         /\ ~plan.rebuild => FlooredNext >= planned.next
         /\ \A i \in found : i < FlooredNext
         /\ \A i \in Indices : status[i] \in {"allocated", "used"} => i < FlooredNext
         /\ plan.rebuild => \A i \in Indices :
              planned.status[i] \in {"allocated", "used"} => i < FlooredNext
         /\ \/ FlooredNext = 0
            \/ FlooredNext - 1 \in found
            \/ status[FlooredNext - 1] \in {"allocated", "used"}
            \/ plan.rebuild /\ planned.status[FlooredNext - 1] \in {"allocated", "used"}
            \/ ~plan.rebuild /\ FlooredNext = planned.next
<1> DEFINE f == HighestOf(found)
           h == HighestAllocated(planned.status)
           s == HighestAllocated(status)
<1>1. f \in -1..MaxWindow - 1 /\ (\A i \in found : i <= f) /\ (f # -1 => f \in found)
  BY HighestOfBounds DEF TypeOK
<1>2. /\ h \in -1..MaxWindow - 1
      /\ \A i \in Indices : planned.status[i] \in {"allocated", "used"} => i <= h
      /\ h # -1 => planned.status[h] \in {"allocated", "used"}
  BY HighestAllocatedBounds DEF TypeOK
<1>3. /\ s \in -1..MaxWindow - 1
      /\ \A i \in Indices : status[i] \in {"allocated", "used"} => i <= s
      /\ s # -1 => status[s] \in {"allocated", "used"}
  BY HighestAllocatedBounds DEF TypeOK
<1>4. planned.next \in 0..MaxWindow /\ plan.rebuild \in BOOLEAN /\ found \subseteq Indices
  BY DEF TypeOK
<1> HIDE DEF f, h, s
<1>5. /\ FetchedNext \in 0..MaxWindow
      /\ FetchedNext >= f + 1
      /\ ~plan.rebuild => FetchedNext >= planned.next
      /\ plan.rebuild => FetchedNext >= h + 1
      /\ \/ FetchedNext = f + 1
         \/ plan.rebuild /\ FetchedNext = h + 1
         \/ ~plan.rebuild /\ FetchedNext = planned.next
  <2>1. Max({h + 1, f + 1}) = IF h + 1 >= f + 1 THEN h + 1 ELSE f + 1
    BY <1>1, <1>2, LargerOfTwo
  <2>2. Max({planned.next, f + 1}) = IF planned.next >= f + 1 THEN planned.next ELSE f + 1
    BY <1>1, <1>4, LargerOfTwo
  <2>3. FetchedNext = IF plan.rebuild THEN Max({h + 1, f + 1}) ELSE Max({planned.next, f + 1})
    BY DEF FetchedNext, f, h
  <2> QED
    BY <1>1, <1>2, <1>4, <2>1, <2>2, <2>3, AddressAssumption
<1>6. FlooredNext = IF FetchedNext >= s + 1 THEN FetchedNext ELSE s + 1
  BY <1>3, <1>5, LargerOfTwo DEF FlooredNext, s
<1>7. \/ FlooredNext = 0
      \/ FlooredNext - 1 \in found
      \/ status[FlooredNext - 1] \in {"allocated", "used"}
      \/ plan.rebuild /\ planned.status[FlooredNext - 1] \in {"allocated", "used"}
      \/ ~plan.rebuild /\ FlooredNext = planned.next
  <2>1. CASE FlooredNext = s + 1
    BY <1>3, <2>1
  <2>2. CASE FlooredNext = FetchedNext /\ FetchedNext = f + 1
    BY <1>1, <2>2
  <2>3. CASE FlooredNext = FetchedNext /\ plan.rebuild /\ FetchedNext = h + 1
    BY <1>2, <2>3
  <2> QED
    BY <1>5, <1>6, <2>1, <2>2, <2>3
<1> QED
  BY <1>1, <1>2, <1>3, <1>4, <1>5, <1>6, <1>7, AddressAssumption DEF Indices

\* What a scan writes over a row.
LEMMA MergedStatusType ==
  ASSUME TypeOK, NEW i \in Indices
  PROVE  /\ MergedStatus(i) \in {"unused", "allocated", "used"}
         /\ MergedStatus(i) = "used" => i \in found
         /\ i \in found => MergedStatus(i) = "used"
         /\ status[i] = "allocated" => MergedStatus(i) \in {"allocated", "used"}
         /\ MergedStatus(i) = "allocated" => "allocated" \in {status[i], planned.status[i]}
  BY DEF MergedStatus, Fetched
-----------------------------------------------------------------------------
(* CursorInv is inductive: one step per action *)

LEMMA CursorInvStep == CursorInv /\ [Next]_vars => CursorInv'
<1> SUFFICES ASSUME CursorInv, [Next]_vars PROVE CursorInv'
  OBVIOUS
<1> USE AddressAssumption
<1>0. TypeOK
  BY DEF CursorInv
<1>1. CASE IssueUpsert
  BY <1>0, <1>1 DEF CursorInv, TypeOK, IssueUpsert, chain, scan, Status, Indices
<1>2. CASE IssueBump
  BY <1>0, <1>2 DEF CursorInv, TypeOK, IssueBump, chain, scan, Indices
<1>3. CASE IssueShow
  <2>1. nextIndex - 1 \in Indices /\ shown \in -1..MaxWindow - 1
    BY <1>0, <1>3 DEF CursorInv, TypeOK, IssueShow, Indices
  <2>2. shown' = IF shown >= nextIndex - 1 THEN shown ELSE nextIndex - 1
    BY <1>3, <2>1, LargerOfTwo DEF IssueShow, Indices
  <2>3. shown' \in -1..MaxWindow - 1 /\ issued' \subseteq Indices
    BY <1>0, <1>3, <2>1, <2>2 DEF IssueShow, TypeOK, Indices
  <2> QED
    BY <1>0, <1>3, <2>3 DEF CursorInv, TypeOK, IssueShow, chain, scan
<1>4. CASE IssueFails
  BY <1>0, <1>4 DEF CursorInv, TypeOK, IssueFails, store, chain, scan
<1>12. CASE PrintNextReceive \/ ListAddresses \/ VerifyAddress
  <2>1. PICK i \in Indices : Shows(i) /\ shown' \in -1..MaxWindow - 1
    BY <1>0, <1>12, ShowsBounds
  <2> QED
    BY <1>0, <2>1 DEF CursorInv, TypeOK, Shows, chain, scan
<1>5. ASSUME NEW gap \in Gaps, NEW rebuild \in BOOLEAN, PlanScan(gap, rebuild)
      PROVE  CursorInv'
  <2>1. /\ plan' = [rebuild |-> rebuild, gap |-> gap]
        /\ planned' = [status |-> status, next |-> IF rebuild THEN 0 ELSE nextIndex]
        /\ at' = 0 /\ quiet' = 0 /\ found' = {}
        /\ issuing = "idle"
        /\ UNCHANGED <<status, nextIndex, shown, issuing, issued, history, vanished>>
    BY <1>5 DEF PlanScan, store, chain
  <2>2. plan' \in Plans /\ plan'.rebuild = rebuild
    BY <2>1 DEF Plans
  <2>3. planned' \in [status : [Indices -> Status], next : 0..MaxWindow]
    BY <1>0, <2>1 DEF TypeOK
  <2>4. /\ at' = 0 /\ quiet' = 0 /\ found' = {} /\ issuing = "idle"
        /\ UNCHANGED <<status, nextIndex, shown, issuing, issued, history, vanished>>
    BY <2>1
  <2>5. TypeOK'
    BY <1>0, <2>2, <2>3, <2>4 DEF TypeOK, Plans
  <2>6. ~rebuild => planned'.next = nextIndex
    BY <2>1
  <2>7. ~(planned'.next < nextIndex) \/ plan'.rebuild
    BY <1>0, <2>2, <2>6 DEF TypeOK
  <2> QED
    BY <2>4, <2>5, <2>7 DEF CursorInv
<1>6. CASE FetchProbe
  <2>1. plan.gap \in 1..MaxWindow
    <3>1. plan \in [rebuild : BOOLEAN, gap : Gaps]
      BY <1>0, <1>6 DEF TypeOK, FetchProbe
    <3>2. plan.gap \in Gaps
      BY <3>1
    <3> QED
      BY <3>2
  <2>2. at \in 0..MaxWindow /\ quiet \in 0..MaxWindow /\ found \subseteq Indices
    BY <1>0 DEF TypeOK
  <2>3. at < MaxWindow /\ quiet < plan.gap
    BY <1>6, <2>1, <2>2 DEF FetchProbe, WalkEnded
  <2>4. at \in Indices /\ at' = at + 1
    BY <1>6, <2>2, <2>3 DEF FetchProbe, Indices
  <2>5. quiet' \in 0..MaxWindow
    BY <1>6, <2>1, <2>2, <2>3 DEF FetchProbe
  <2>6. found' \subseteq Indices
    BY <1>6, <2>2, <2>4 DEF FetchProbe
  <2>7. at' \in 0..MaxWindow
    BY <2>2, <2>3, <2>4
  <2>8. UNCHANGED <<status, nextIndex, shown, issuing, issued, history, vanished, plan, planned>>
    BY <1>6 DEF FetchProbe, store, chain
  <2>9. TypeOK'
    BY <1>0, <2>5, <2>6, <2>7, <2>8 DEF TypeOK
  <2> QED
    BY <2>8, <2>9 DEF CursorInv
<1>7. CASE FetchFails
  BY <1>0, <1>7, NothingPlannedType DEF CursorInv, TypeOK, FetchFails, ScanEnds, store, chain
<1>8. CASE PersistScan
  <2>1. status' \in [Indices -> Status]
    BY <1>0, <1>8, MergedStatusType DEF TypeOK, PersistScan, Status
  <2>2. nextIndex' \in 0..MaxWindow
    BY <1>0, <1>8, FlooredNextBounds DEF PersistScan
  <2> QED
    BY <1>0, <1>8, <2>1, <2>2, NothingPlannedType DEF CursorInv, TypeOK, PersistScan, ScanEnds, chain
<1>9. ASSUME NEW i \in Indices, Pay(i) \/ Vanish(i)
      PROVE  CursorInv'
  BY <1>0, <1>9 DEF CursorInv, TypeOK, Pay, Vanish, store, scan
<1>10. CASE Crash
  BY <1>0, <1>10, NothingPlannedType DEF CursorInv, TypeOK, Crash, ScanEnds, store, chain
<1>11. CASE UNCHANGED vars
  BY <1>0, <1>11 DEF CursorInv, TypeOK, vars, store, chain, scan
<1> QED
  BY <1>1, <1>2, <1>3, <1>4, <1>5, <1>6, <1>7, <1>8, <1>9, <1>10, <1>11, <1>12 DEF Next

LEMMA CursorInvAlways == Spec => []CursorInv
  BY CursorInvInit, CursorInvStep, PTL DEF Spec

\* Every variable keeps its type; the walk never leaves the window.
THEOREM TypeCorrect == Spec => []TypeOK
<1>1. CursorInv => TypeOK
  BY DEF CursorInv
<1> QED
  BY <1>1, CursorInvAlways, PTL

\* Only the persist of a scan and an issue write rows.
LEMMA RowsWrittenBy ==
  ASSUME Next
  PROVE  \/ UNCHANGED status
         \/ IssueUpsert
         \/ PersistScan
  BY DEF Next, IssueBump, IssueShow, IssueFails, PrintNextReceive, ListAddresses,
         VerifyAddress, Shows, PlanScan, FetchProbe, FetchFails, Pay, Vanish, Crash, store

\* A scan never downgrades an allocated row, whenever it was planned.
THEOREM AllocatedStaysHolds == Spec => AllocatedStays
<1>1. CursorInv /\ [Next]_vars
        => [\A i \in Indices : status[i] = "allocated"
              => status'[i] \in {"allocated", "used"}]_vars
  <2> SUFFICES ASSUME CursorInv, Next, NEW i \in Indices, status[i] = "allocated"
               PROVE  status'[i] \in {"allocated", "used"}
    OBVIOUS
  <2>1. CASE UNCHANGED status
    BY <2>1
  <2>2. CASE IssueUpsert
    BY <2>2 DEF IssueUpsert, CursorInv, TypeOK
  <2>3. CASE PersistScan
    BY <2>3, MergedStatusType DEF PersistScan, CursorInv
  <2> QED
    BY <2>1, <2>2, <2>3, RowsWrittenBy
<1> QED
  BY <1>1, CursorInvAlways, PTL DEF Spec, AllocatedStays

\* Only the persist of a scan can lower the cursor, and only of a rebuild.
LEMMA LoweredByRebuild ==
  ASSUME CursorInv, Next, nextIndex' < nextIndex
  PROVE  PersistScan /\ plan.rebuild
<1>1. PersistScan
  <2>1. ~UNCHANGED nextIndex
    BY DEF CursorInv, TypeOK
  <2>2. ~IssueBump
    BY DEF CursorInv, TypeOK, IssueBump
  <2> QED
    BY <2>1, <2>2 DEF Next, IssueUpsert, IssueShow, IssueFails, PrintNextReceive,
       ListAddresses, VerifyAddress, Shows, PlanScan, FetchProbe, FetchFails, Pay, Vanish,
       Crash, store
<1>2. ASSUME ~plan.rebuild PROVE FALSE
  <2>1. /\ nextIndex' >= planned.next
        /\ nextIndex' \in 0..MaxWindow
        /\ \A i \in Indices : status[i] \in {"allocated", "used"} => i < nextIndex'
    BY <1>1, <1>2, FlooredNextBounds DEF PersistScan, CursorInv
  <2>2. planned.next < nextIndex /\ nextIndex - 1 \in Indices
    BY <2>1, AddressAssumption DEF CursorInv, TypeOK, Indices
  <2>3. status[nextIndex - 1] \in {"allocated", "used"}
    BY <1>1, <1>2, <2>2 DEF PersistScan, CursorInv
  <2>4. nextIndex - 1 < nextIndex'
    BY <2>1, <2>2, <2>3
  <2> QED
    BY <2>1, <2>4, AddressAssumption DEF CursorInv, TypeOK
<1> QED
  BY <1>1, <1>2 DEF CursorInv, TypeOK, PersistScan

\* No scan but a rebuild (a rescan, a new chain server, a new gap limit) lowers
\* the cursor: none of a start, a poll or a lazy caller.
THEOREM LoweredOnlyByRebuildHolds == Spec => LoweredOnlyByRebuild
<1>1. CursorInv /\ [Next]_vars => [nextIndex' < nextIndex => plan.rebuild]_vars
  BY LoweredByRebuild
<1> QED
  BY <1>1, CursorInvAlways, PTL DEF Spec, LoweredOnlyByRebuild

-----------------------------------------------------------------------------
(* Addresses no payment vanished from *)

LEMMA KeptInvInit == Init => KeptInv
  BY DEF Init, KeptInv

LEMMA KeptInvStep == CursorInv /\ KeptInv /\ [Next]_vars => KeptInv'
<1> SUFFICES ASSUME CursorInv, KeptInv, [Next]_vars PROVE KeptInv'
  OBVIOUS
<1> USE AddressAssumption DEF Marked
<1>0. TypeOK
  BY DEF CursorInv
<1>1. CASE IssueUpsert
  BY <1>0, <1>1 DEF KeptInv, TypeOK, IssueUpsert, chain, scan, Indices
<1>2. CASE IssueBump
  BY <1>0, <1>2 DEF KeptInv, TypeOK, IssueBump, chain, scan, Indices
<1>3. CASE IssueShow
  BY <1>0, <1>3 DEF CursorInv, KeptInv, TypeOK, IssueShow, chain, scan, Indices
<1>4. CASE IssueFails
  BY <1>4 DEF KeptInv, IssueFails, store, chain, scan
<1>5. CASE PrintNextReceive \/ ListAddresses \/ VerifyAddress
  BY <1>5 DEF KeptInv, PrintNextReceive, ListAddresses, VerifyAddress, Shows, chain, scan
<1>6. ASSUME NEW gap \in Gaps, NEW rebuild \in BOOLEAN, PlanScan(gap, rebuild)
      PROVE  KeptInv'
  BY <1>0, <1>6 DEF KeptInv, PlanScan, store, chain, Indices
<1>7. CASE FetchProbe
  <2>1. ASSUME NEW i \in Indices \ vanished
        PROVE  /\ i \in found' => i \in history
               /\ i < at' /\ status[i] = "used" => i \in found'
    BY <1>0, <1>7, <2>1 DEF TypeOK, KeptInv, FetchProbe, Indices
  <2> QED
    BY <1>7, <2>1 DEF KeptInv, FetchProbe, store, chain
<1>8. CASE FetchFails
  BY <1>8 DEF KeptInv, FetchFails, ScanEnds, store, chain
<1>9. CASE PersistScan
  <2>1. /\ nextIndex' = FlooredNext
        /\ \A i \in Indices : status'[i] = IF i < at THEN MergedStatus(i) ELSE status[i]
        /\ plan # None /\ plan' = None /\ found' = {}
        /\ UNCHANGED <<issued, history, vanished>>
    BY <1>9 DEF PersistScan, ScanEnds, chain
  <2>2. ASSUME NEW i \in Indices \ vanished, i \in issued
        PROVE  status'[i] \in Marked /\ i < nextIndex'
    <3>1. status[i] \in Marked
      BY <2>2 DEF KeptInv
    <3>2. status[i] = "used" /\ i < at => i \in found
      BY <2>1 DEF KeptInv
    <3>3. status'[i] \in Marked
      BY <1>0, <2>1, <3>1, <3>2, MergedStatusType
    <3> QED
      BY <1>0, <2>1, <3>1, <3>3, FlooredNextBounds
  <2>3. ASSUME NEW i \in Indices \ vanished, status'[i] = "used"
        PROVE  i \in history
    BY <1>0, <2>1, <2>3, MergedStatusType DEF KeptInv
  <2> QED
    BY <2>1, <2>2, <2>3 DEF KeptInv
<1>10. ASSUME NEW i \in Indices, Pay(i) \/ Vanish(i) PROVE KeptInv'
  BY <1>10 DEF KeptInv, Pay, Vanish, store, scan
<1>11. CASE Crash
  BY <1>11 DEF KeptInv, Crash, ScanEnds, store, chain
<1>12. CASE UNCHANGED vars
  BY <1>12 DEF KeptInv, vars, store, chain, scan
<1> QED
  BY <1>1, <1>2, <1>3, <1>4, <1>5, <1>6, <1>7, <1>8, <1>9, <1>10, <1>11, <1>12 DEF Next

LEMMA KeptInvAlways == Spec => []KeptInv
  BY KeptInvInit, KeptInvStep, CursorInvAlways, PTL DEF Spec

\* A rebuild that lowers the cursor leaves in front of it no address its walk
\* found or whose row is marked, and no issued one but such as a payment
\* vanished from.
THEOREM CursorOnFreshAddressHolds == Spec => CursorOnFreshAddress
<1>1. CursorInv /\ KeptInv /\ KeptInv' /\ [Next]_vars
        => [nextIndex' < nextIndex =>
              \A i \in nextIndex'..MaxWindow - 1 :
                /\ i \notin found /\ status'[i] \notin {"used", "allocated"}
                /\ i \in issued => i \in vanished]_vars
  <2> SUFFICES ASSUME CursorInv, KeptInv', Next, nextIndex' < nextIndex,
                      NEW i \in nextIndex'..MaxWindow - 1
               PROVE  /\ i \notin found /\ status'[i] \notin {"used", "allocated"}
                      /\ i \in issued => i \in vanished
    OBVIOUS
  <2>1. PersistScan /\ plan.rebuild /\ TypeOK
    BY LoweredByRebuild DEF CursorInv
  <2>2. /\ nextIndex' \in 0..MaxWindow
        /\ \A j \in found : j < nextIndex'
        /\ \A j \in Indices : status[j] \in {"allocated", "used"} => j < nextIndex'
        /\ \A j \in Indices : planned.status[j] \in {"allocated", "used"} => j < nextIndex'
    BY <2>1, FlooredNextBounds DEF PersistScan
  <2>3. i \in Indices /\ ~(i < nextIndex')
    BY <2>2, AddressAssumption DEF Indices
  <2>4. /\ i \notin found
        /\ status[i] \notin {"allocated", "used"}
        /\ planned.status[i] \notin {"allocated", "used"}
    BY <2>2, <2>3
  <2>5. MergedStatus(i) = "unused"
    BY <2>1, <2>3, <2>4, MergedStatusType
  <2>6. status'[i] = IF i < at THEN MergedStatus(i) ELSE status[i]
    BY <2>1, <2>3 DEF PersistScan
  <2>7. i \in issued => i \in vanished
    BY <2>1, <2>3 DEF KeptInv, PersistScan, chain
  <2> QED
    BY <2>4, <2>5, <2>6, <2>7
<1> QED
  BY <1>1, CursorInvAlways, KeptInvAlways, PTL DEF Spec, CursorOnFreshAddress

-----------------------------------------------------------------------------
(* While nothing vanishes *)

LEMMA ShownInvInit == Init => ShownInv
  BY DEF Init, ShownInv, ShownIsShowable

LEMMA ShownInvStep ==
  ~MempoolForgets /\ CursorInv /\ KeptInv /\ ShownInv /\ [Next]_vars => ShownInv'
<1> SUFFICES ASSUME ~MempoolForgets, CursorInv, KeptInv, ShownInv, [Next]_vars
             PROVE  ShownInv'
  OBVIOUS
<1> USE AddressAssumption DEF Marked
<1>0. TypeOK
  BY DEF CursorInv
<1>1. CASE IssueUpsert
  BY <1>0, <1>1 DEF ShownInv, ShownIsShowable, TypeOK, IssueUpsert, chain, scan, Indices
<1>2. CASE IssueBump
  BY <1>0, <1>2 DEF CursorInv, ShownInv, ShownIsShowable, TypeOK, IssueBump, chain, scan, Indices
<1>3. CASE IssueShow
  <2>1. shown' = IF shown >= nextIndex - 1 THEN shown ELSE nextIndex - 1
    BY <1>0, <1>3, LargerOfTwo DEF TypeOK, IssueShow
  <2> QED
    BY <1>0, <1>3, <2>1 DEF ShownInv, ShownIsShowable, TypeOK, IssueShow, chain, scan
<1>4. CASE IssueFails
  BY <1>4 DEF ShownInv, ShownIsShowable, IssueFails, store, chain, scan
<1>5. CASE PrintNextReceive \/ ListAddresses \/ VerifyAddress
  <2>1. PICK i \in Indices : /\ Shows(i)
                             /\ shown' = IF shown >= i THEN shown ELSE i
                             /\ i <= nextIndex \/ status[i] = "used"
    BY <1>0, <1>5, ShowsBounds
  <2>2. shown' <= nextIndex
    BY <1>0, <2>1 DEF ShownInv, ShownIsShowable, TypeOK, Indices
  <2> QED
    BY <2>1, <2>2 DEF ShownInv, ShownIsShowable, Shows, chain, scan
<1>6. ASSUME NEW gap \in Gaps, NEW rebuild \in BOOLEAN, PlanScan(gap, rebuild)
      PROVE  ShownInv'
  <2>1. /\ planned'.next = (IF rebuild THEN 0 ELSE nextIndex)
        /\ planned'.status = status
        /\ found' = {}
        /\ UNCHANGED <<status, nextIndex, shown, vanished>>
    BY <1>6 DEF PlanScan, store, chain
  <2>2. planned'.next <= nextIndex
    BY <1>0, <2>1 DEF TypeOK
  <2> QED
    BY <2>1, <2>2 DEF ShownInv, ShownIsShowable
<1>7. CASE FetchProbe
  <2>1. at \in Nat /\ at' = at + 1 /\ found \subseteq Indices
    BY <1>0, <1>7 DEF TypeOK, FetchProbe
  <2>2. found' \subseteq found \cup {at}
    BY <1>7 DEF FetchProbe
  <2>3. ASSUME NEW i \in found' PROVE i < at'
    <3>1. CASE i = at
      BY <2>1, <3>1
    <3>2. CASE i \in found
      <4>1. i < at /\ i \in Int
        BY <2>1, <3>2 DEF ShownInv, Indices
      <4> QED
        BY <2>1, <4>1
    <3> QED
      BY <2>2, <3>1, <3>2
  <2> QED
    BY <1>7, <2>3 DEF ShownInv, ShownIsShowable, FetchProbe, store, chain
<1>8. CASE FetchFails
  BY <1>8 DEF ShownInv, ShownIsShowable, FetchFails, ScanEnds, store, chain
<1>9. CASE PersistScan
  <2>1. /\ nextIndex' = FlooredNext
        /\ \A i \in Indices : status'[i] = IF i < at THEN MergedStatus(i) ELSE status[i]
        /\ plan # None /\ plan' = None /\ found' = {}
        /\ UNCHANGED <<shown, vanished>>
    BY <1>9 DEF PersistScan, ScanEnds, chain
  <2>2. ASSUME NEW i \in Indices, status[i] \in Marked
        PROVE  status'[i] \in Marked
    <3>1. status[i] = "used" /\ i < at => i \in found
      BY <2>1 DEF KeptInv, ShownInv
    <3> QED
      BY <1>0, <2>1, <2>2, <3>1, MergedStatusType
  <2>3. nextIndex' \in 0..MaxWindow /\ nextIndex \in 0..MaxWindow
    BY <1>0, <2>1, FlooredNextBounds DEF TypeOK
  <2>4. nextIndex' >= nextIndex
    <3>1. CASE nextIndex > 0
      <4>1. nextIndex - 1 \in Indices /\ status[nextIndex - 1] \in Marked
        BY <2>3, <3>1 DEF ShownInv, Indices
      <4>2. nextIndex - 1 < nextIndex'
        BY <1>0, <2>1, <4>1, FlooredNextBounds
      <4> QED
        BY <2>3, <4>2
    <3> QED
      BY <2>3, <3>1
  <2>5. ASSUME NEW i \in Indices, status'[i] = "used"
        PROVE  i < nextIndex'
    <3>1. status[i] = "used" \/ i \in found
      BY <1>0, <2>1, <2>5, MergedStatusType
    <3> QED
      BY <1>0, <2>1, <3>1, FlooredNextBounds
  <2>6. ASSUME NEW t \in Indices, nextIndex' = t + 1
        PROVE  status'[t] \in Marked
    <3>1. FlooredNext = t + 1 /\ FlooredNext # 0 /\ FlooredNext - 1 = t
      BY <2>1, <2>6 DEF Indices
    <3>2. CASE t \in found
      <4>1. t < at /\ MergedStatus(t) = "used"
        BY <1>0, <3>2, MergedStatusType DEF ShownInv
      <4> QED
        BY <2>1, <4>1
    <3>3. CASE status[t] \in Marked
      BY <2>2, <3>3
    <3>4. CASE planned.status[t] \in Marked
      BY <2>1, <2>2, <3>4 DEF ShownInv
    <3>5. CASE FlooredNext = planned.next
      <4>1. planned.next <= nextIndex /\ planned.next \in 0..MaxWindow
        BY <1>0, <2>1 DEF ShownInv, TypeOK
      <4>2. nextIndex = t + 1
        <5>1. nextIndex' <= nextIndex
          BY <2>1, <3>5, <4>1
        <5>2. nextIndex' = nextIndex
          BY <2>3, <2>4, <5>1
        <5> QED
          BY <2>6, <5>2
      <4>3. nextIndex > 0 /\ nextIndex - 1 = t
        BY <4>2 DEF Indices
      <4>4. status[t] \in Marked
        BY <4>3 DEF ShownInv
      <4> QED
        BY <2>2, <4>4
    <3> QED
      BY <1>0, <2>1, <3>1, <3>2, <3>3, <3>4, <3>5, FlooredNextBounds
  <2>7. shown <= nextIndex'
    BY <1>0, <2>3, <2>4 DEF ShownInv, ShownIsShowable, TypeOK
  <2>8. ASSUME nextIndex' > 0
        PROVE  status'[nextIndex' - 1] \in Marked
    <3>1. PICK t \in Indices : nextIndex' = t + 1
      BY <2>3, <2>8, AddressAssumption DEF Indices
    <3>2. nextIndex' - 1 = t
      BY <3>1 DEF Indices
    <3> QED
      BY <2>6, <3>1, <3>2
  <2> QED
    BY <2>1, <2>5, <2>7, <2>8 DEF ShownInv, ShownIsShowable
<1>10. ASSUME NEW i \in Indices, Pay(i) \/ Vanish(i) PROVE ShownInv'
  BY <1>10 DEF ShownInv, ShownIsShowable, Pay, Vanish, store, scan
<1>11. CASE Crash
  BY <1>11 DEF ShownInv, ShownIsShowable, Crash, ScanEnds, store, chain
<1>12. CASE UNCHANGED vars
  BY <1>12 DEF ShownInv, ShownIsShowable, vars, store, chain, scan
<1> QED
  BY <1>1, <1>2, <1>3, <1>4, <1>5, <1>6, <1>7, <1>8, <1>9, <1>10, <1>11, <1>12 DEF Next

LEMMA ShownInvAlways ==
  ASSUME ~MempoolForgets
  PROVE  Spec => []ShownInv
<1>1. CursorInv /\ KeptInv /\ ShownInv /\ [Next]_vars => ShownInv'
  BY ShownInvStep
<1> QED
  BY <1>1, ShownInvInit, CursorInvAlways, KeptInvAlways, PTL DEF Spec

\* While no transaction vanishes, no index that an issue returned comes up for
\* issue again, whatever scans, rebuilds, gap limits, failures and crashes fall
\* between two issues.
THEOREM NeverReissuedHolds ==
  ASSUME ~MempoolForgets
  PROVE  Spec => []NeverReissued
<1>1. CursorInv /\ KeptInv /\ ShownInv => NeverReissued
  BY DEF CursorInv, TypeOK, KeptInv, ShownInv, NeverReissued
<1> QED
  BY <1>1, CursorInvAlways, KeptInvAlways, ShownInvAlways, PTL

\* While no transaction vanishes, nothing that was previewed, listed, verified
\* or issued ever lies beyond the cursor, where /verifyaddress would deny that
\* it was shown.
THEOREM ShownIsShowableHolds ==
  ASSUME ~MempoolForgets
  PROVE  Spec => []ShownIsShowable
<1>1. ShownInv => ShownIsShowable
  BY DEF ShownInv
<1> QED
  BY <1>1, ShownInvAlways, PTL
=============================================================================
