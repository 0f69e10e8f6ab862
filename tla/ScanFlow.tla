------------------------------ MODULE ScanFlow ------------------------------
(***************************************************************************)
(* Background scans (app.py: StartupScan, ChainWorker, ScanFlow and the    *)
(* client swap of ChainBackendFlow._install).  The engine thread plans and *)
(* persists; the worker thread runs one fetch after the other, with the    *)
(* client it holds when a fetch starts; a finished fetch comes back as a   *)
(* command in the engine's queue, or straight to an engine that waits      *)
(* (scan_now).  A swap of the chain backend supersedes the fetch in flight *)
(* by a generation stamp.                                                  *)
(*                                                                         *)
(* What a scan brings is abstracted to which backend it asked, how far the *)
(* chain was when it asked, and the gap limit of its plan; what it does to *)
(* addresses is module AddressIndex.                                       *)
(***************************************************************************)
EXTENDS Naturals, Sequences

CONSTANTS
  None,     \* no job, no answer
  Backends, \* chain servers the user may connect to
  GapLimits,\* gap limits of the config file
  BootGap,  \* the gap limit read when the program started
  MaxTip,   \* bound on the chain's height
  MaxSwaps  \* bound on superseding swaps

ASSUME ScanFlowAssumption ==
  /\ Backends # {} /\ GapLimits \subseteq Nat /\ BootGap \in GapLimits
  /\ MaxTip \in Nat /\ MaxSwaps \in Nat

VARIABLES
  gate,       \* StartupScan.state
  started,    \* the armed plan was handed to the worker
  armed,      \* the gap limit of _startup_plan, or None
  generation, \* bumped by each superseding arm
  scanError,  \* a failure is on display
  engine,     \* idle, or waiting inside scan_now
  client,     \* the backend the worker's client talks to
  jobs,       \* the worker's queue
  running,    \* the fetch in progress, or None
  answer,     \* the outcome scan_now waits for, or None
  commands,   \* finished fetches queued for the engine
  stored,     \* what the store holds: the last scan persisted
  tip,        \* height of the chain
  liveGap,    \* the gap limit in the config file now
  resynced    \* history: the last swap armed its rescan

flowV == <<gate, started, armed, generation, scanError>>
workerV == <<jobs, running, answer, commands>>
world == <<tip, liveGap>>
vars == <<flowV, workerV, world, engine, client, stored, resynced>>

GateState == {"disabled", "awaiting_backend", "pending", "running", "done", "skipped"}
InProgress == gate \in {"awaiting_backend", "pending", "running"}

\* A job carries the stamp of its delivery, or None when the engine waits for
\* it; "live" is history, the gap limit in the config file when it was planned.
Stamps == 0..MaxSwaps
Jobs == [stamp : Stamps \cup {None}, gap : GapLimits, live : GapLimits]
Data == [backend : Backends, tip : 0..MaxTip, gap : GapLimits]

Init ==
  /\ gate \in {"disabled", "awaiting_backend", "pending"}
  /\ started = FALSE
  /\ armed = IF gate = "pending" THEN BootGap ELSE None
  /\ generation = 0 /\ scanError = FALSE
  /\ engine = "idle" /\ client \in Backends
  /\ jobs = <<>> /\ running = None /\ answer = None /\ commands = <<>>
  /\ stored = [backend |-> client, tip |-> 0, gap |-> BootGap]
  /\ tip = 0 /\ liveGap = BootGap /\ resynced = TRUE

-----------------------------------------------------------------------------
(* Arming a background scan *)

Job(stamp, gap, live) == [stamp |-> stamp, gap |-> gap, live |-> live]

\* The tail of every arm: plan with the gap limit as it is now, submit once.
ArmAndBegin(gen, gap) ==
  /\ armed' = gap
  /\ started' = TRUE
  /\ generation' = gen
  /\ gate' = "running"
  /\ scanError' = FALSE
  /\ jobs' = Append(jobs, Job(gen, gap, gap))
  /\ UNCHANGED <<running, answer, commands>>

\* Planning failed: the failure is on display, the gate is what it was.
PlanFails ==
  /\ scanError' = TRUE
  /\ UNCHANGED <<gate, started, armed, generation, workerV>>

NotBegun == ~started
ArmedNotBegun == ~started /\ armed # None

\* begin() at boot: the plan made at startup is submitted once.
Begin ==
  /\ engine = "idle"
  /\ ArmedNotBegun
  /\ started' = TRUE
  /\ gate' = "running"
  /\ scanError' = FALSE
  /\ jobs' = Append(jobs, Job(generation, armed, liveGap))
  /\ UNCHANGED <<armed, generation, running, answer, commands, world, engine, client,
                 stored, resynced>>

\* resync_now and kick_scan: refused while a scan is in progress.
ResyncNow ==
  /\ engine = "idle"
  /\ ~InProgress
  /\ ArmAndBegin(generation, liveGap) \/ PlanFails
  /\ UNCHANGED <<world, engine, client, stored, resynced>>

\* Forgetting the stamp would let the fetch in flight count as the new one's.
KeptGeneration == generation
BumpedGeneration == generation + 1

\* _install of a backend: swap the worker's client, then release a deferred
\* startup or supersede whatever is in flight.  b = client stands for the
\* user's consent to the server already wired.
InstallBackend(b) ==
  /\ engine = "idle"
  /\ gate # "pending" \* the pump begins the armed scan before any command
  /\ client' = b
  /\ \/ /\ gate = "awaiting_backend"
        /\ ArmAndBegin(generation, liveGap)
        /\ resynced' = TRUE
     \/ /\ gate = "awaiting_backend"
        /\ gate' = "skipped" /\ scanError' = TRUE
        /\ UNCHANGED <<started, armed, generation, workerV>>
        /\ resynced' = FALSE
     \/ /\ gate # "awaiting_backend" /\ generation < MaxSwaps
        /\ ArmAndBegin(BumpedGeneration, liveGap)
        /\ resynced' = TRUE
     \/ /\ gate # "awaiting_backend"
        /\ PlanFails
        /\ resynced' = FALSE
  /\ UNCHANGED <<world, engine, stored>>

-----------------------------------------------------------------------------
(* The worker *)

FetchOf(job) == [job |-> job, data |-> [backend |-> client, tip |-> tip, gap |-> job.gap]]

WorkerStarts ==
  /\ running = None /\ jobs # <<>>
  /\ running' = FetchOf(Head(jobs))
  /\ jobs' = Tail(jobs)
  /\ UNCHANGED <<flowV, answer, commands, world, engine, client, stored, resynced>>

Outcome(ok) == [ok |-> ok, stamp |-> running.job.stamp, data |-> running.data]

\* The delivery: to the engine that waits, or into its command queue.
DeliversSuccess(ok) ==
  IF running.job.stamp = None
    THEN answer' = (IF ok THEN Outcome(ok) ELSE None) /\ UNCHANGED commands
    ELSE commands' = Append(commands, Outcome(ok)) /\ UNCHANGED answer
Delivers(ok) ==
  IF running.job.stamp = None
    THEN answer' = Outcome(ok) /\ UNCHANGED commands
    ELSE commands' = Append(commands, Outcome(ok)) /\ UNCHANGED answer

WorkerEnds(ok) ==
  /\ running # None
  /\ running' = None
  /\ Delivers(ok)
  /\ UNCHANGED <<flowV, jobs, world, engine, client, stored, resynced>>

Worker == WorkerStarts \/ \E ok \in BOOLEAN : WorkerEnds(ok)

-----------------------------------------------------------------------------
(* The engine takes what the worker brings *)

AnyStamp(done) == FALSE
StaleStamp(done) == done.stamp # generation

\* The gate a failed scan leaves: money moves again, on cached state.
StillRunning == gate
GateAfterFailure == "skipped"

\* _finish: a superseded fetch is discarded; a failed fetch or persist opens the
\* gate with a warning; anything else is persisted.
Finish ==
  /\ engine = "idle" /\ commands # <<>>
  /\ commands' = Tail(commands)
  /\ LET done == Head(commands) IN
       \/ /\ StaleStamp(done)
          /\ UNCHANGED <<gate, scanError, stored>>
       \/ /\ ~StaleStamp(done) \* the fetch failed, or the store did
          /\ gate' = GateAfterFailure /\ scanError' = TRUE
          /\ UNCHANGED stored
       \/ /\ ~StaleStamp(done) /\ done.ok
          /\ gate' = "done" /\ scanError' = FALSE
          /\ stored' = done.data
  /\ UNCHANGED <<started, armed, generation, jobs, running, answer, world, engine, client,
                 resynced>>

\* No lazy or watch scan while a background scan is in progress: the handlers
\* refuse or defer, the pump does not poll.
AnyTime == TRUE
StandsDown == ~InProgress

\* scan_now: plans with the gap limit of the boot and waits for the worker.
ScanNow ==
  /\ engine = "idle" /\ StandsDown
  /\ engine' = "waiting"
  /\ jobs' = Append(jobs, Job(None, BootGap, liveGap))
  /\ UNCHANGED <<flowV, running, answer, commands, world, client, stored, resynced>>

ScanNowEnds ==
  /\ engine = "waiting" /\ answer # None
  /\ engine' = "idle"
  /\ answer' = None
  /\ \/ answer.ok /\ stored' = answer.data /\ scanError' = FALSE
     \/ UNCHANGED <<stored, scanError>> \* the fetch failed, or the store did
  /\ UNCHANGED <<gate, started, armed, generation, jobs, running, commands, world, client,
                 resynced>>

-----------------------------------------------------------------------------
(* The world *)

BlockFound ==
  /\ tip < MaxTip
  /\ tip' = tip + 1
  /\ UNCHANGED <<flowV, workerV, liveGap, engine, client, stored, resynced>>

\* The settings chat rewrites the config file; a wider gap limit then starts a
\* rescan, unless one is in progress, and a narrower one never does.
SetGapLimit(gap) ==
  /\ engine = "idle"
  /\ gate # "pending"
  /\ liveGap' = gap
  /\ IF gap > liveGap /\ ~InProgress
       THEN ArmAndBegin(generation, gap) \/ PlanFails
       ELSE UNCHANGED <<flowV, workerV>>
  /\ UNCHANGED <<tip, engine, client, stored, resynced>>

Next ==
  \/ Begin \/ ResyncNow \/ Finish \/ ScanNow \/ ScanNowEnds
  \/ \E b \in Backends : InstallBackend(b)
  \/ Worker
  \/ BlockFound
  \/ \E gap \in GapLimits : SetGapLimit(gap)

\* The worker thread always gets on (every fetch is bounded by the window cap
\* and the client's timeouts); the pump takes its commands and starts the armed
\* scan.  Nothing obliges the user, the chain or a poll.
Fairness ==
  /\ WF_vars(Worker)
  /\ WF_vars(Begin)
  /\ WF_vars(Finish)
  /\ WF_vars(ScanNowEnds)

Spec == Init /\ [][Next]_vars /\ Fairness

-----------------------------------------------------------------------------

TypeOK ==
  /\ gate \in GateState
  /\ started \in BOOLEAN /\ scanError \in BOOLEAN /\ resynced \in BOOLEAN
  /\ armed \in GapLimits \cup {None}
  /\ generation \in Stamps
  /\ engine \in {"idle", "waiting"}
  /\ client \in Backends
  /\ jobs \in Seq(Jobs)
  /\ running \in [job : Jobs, data : Data] \cup {None}
  /\ answer \in [ok : BOOLEAN, stamp : {None}, data : Data] \cup {None}
  /\ commands \in Seq([ok : BOOLEAN, stamp : Stamps, data : Data])
  /\ stored \in Data
  /\ tip \in 0..MaxTip /\ liveGap \in GapLimits

\* A scan never overwrites the store with an older view of the same server,
\* although fetches queue up, are superseded, and come back by two routes.
NeverBackwards ==
  [][stored'.backend = stored.backend => stored'.tip >= stored.tip]_vars

\* Once a swap has armed its rescan, nothing fetched from the server the user
\* left reaches the store.
SwapSticks == [][(stored' # stored /\ resynced) => stored'.backend = client]_vars

\* Fetches that will be delivered with the current stamp.
LiveJobs ==
  Len(SelectSeq(jobs, LAMBDA j : j.stamp = generation))
  + (IF running # None /\ running.job.stamp = generation THEN 1 ELSE 0)
  + Len(SelectSeq(commands, LAMBDA c : c.stamp = generation))

\* While the gate says a scan is running, exactly one delivery can end it; when
\* it does not, none can: a late result never reopens or closes the gate.
RunningHasOneOwner == LiveJobs = IF gate = "running" THEN 1 ELSE 0

\* Moves of money refused during a scan are not refused for ever: the gate of
\* an armed scan opens, by success or by failure.
GateOpens == gate \in {"pending", "running"} ~> ~InProgress

\* An engine that waits in a handler waits for its own fetch only: the gate
\* guarantees that no background fetch is queued or running (ChainWorker.scan).
WaitsForItsOwn ==
  engine = "waiting" =>
    Len(jobs) + (IF running # None THEN 1 ELSE 0) + (IF answer # None THEN 1 ELSE 0) = 1

\* An engine that waits for a scan in a handler answers again, whatever
\* becomes of the fetch.
EngineReturns == engine = "waiting" ~> engine = "idle"

\* app.py, ScanFlow.__init__: the boot gap limit is "never the live value
\* anymore", so every plan is made with the gap limit of the moment.
PlansUseLiveGap == \A k \in 1..Len(jobs) : jobs[k].gap = jobs[k].live
=============================================================================
