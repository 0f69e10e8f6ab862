------------------------------ MODULE EventBus ------------------------------
(***************************************************************************)
(* How the replies of the engine reach the browser tabs                    *)
(* (ui/web/server.py: _Bus and the event stream of _Handler; the listening *)
(* loop of static/app.js).  The engine thread publishes numbered events    *)
(* into a ring and into one bounded queue per connection, and never waits  *)
(* for a browser.  A connection first streams what the ring retains past   *)
(* the tab's cursor, then its queue.  A tab whose queue overflows is cut   *)
(* off, reconnects with its cursor, and is told when the ring has lost     *)
(* what it missed.                                                         *)
(*                                                                         *)
(* An event is its number.  A subscription whose tab is gone affects       *)
(* nobody, so it is removed with its connection.                           *)
(***************************************************************************)
EXTENDS Naturals, Sequences

CONSTANTS
  Clients,        \* browser tabs
  RING_SIZE,      \* events retained for replay
  QUEUE_MAXSIZE,  \* events queued for one connection
  MaxEvents,      \* bound on the events published
  MaxLosses       \* bound on the connections that break

ASSUME BusAssumption ==
  /\ {RING_SIZE, QUEUE_MAXSIZE} \subseteq Nat \ {0}
  /\ {MaxEvents, MaxLosses} \subseteq Nat

VARIABLES
  lastId,     \* the number of the last event
  ring,       \* _Bus._ring
  closed,     \* _Bus.closed
  subs,       \* _Bus._subs: the connections that are fed
  queue,      \* _Subscriber.events
  dead,       \* _Subscriber.dead
  resyncFrom, \* _Subscriber.resync_from, or 0
  replay,     \* what _events has yet to stream of the ring
  writer,     \* where the connection's thread is: gone, replay, check or get
  wire,       \* frames sent and not yet read by the tab
  link,       \* the tab's side of the connection: up or down
  cursor,     \* state.lastEventId of the tab
  gapTo,      \* the last gap the tab was told of ends before this event
  losses      \* connections broken so far

bus == <<lastId, ring, closed>>
server == <<subs, queue, dead, resyncFrom, replay, writer>>
tab == <<link, cursor, gapTo>>
vars == <<bus, server, wire, tab, losses>>

Stop == 0  \* the shutdown sentinel in a queue

Event(id) == [kind |-> "event", id |-> id]
Resync(id) == [kind |-> "resync", id |-> id]

Init ==
  /\ lastId = 0 /\ ring = <<>> /\ closed = FALSE
  /\ subs = {}
  /\ queue = [c \in Clients |-> <<>>]
  /\ dead = [c \in Clients |-> FALSE]
  /\ resyncFrom = [c \in Clients |-> 0]
  /\ replay = [c \in Clients |-> <<>>]
  /\ writer = [c \in Clients |-> "gone"]
  /\ wire = [c \in Clients |-> <<>>]
  /\ link = [c \in Clients |-> "down"]
  /\ cursor = [c \in Clients |-> 0]
  /\ gapTo = [c \in Clients |-> 0]
  /\ losses = 0

-----------------------------------------------------------------------------
(* The engine thread *)

\* A deque of RING_SIZE: the oldest event makes room.
UnboundedRing(id) == Append(ring, id)
Retained(id) ==
  IF Len(ring) < RING_SIZE THEN Append(ring, id) ELSE Append(Tail(ring), id)

Full(c) == Len(queue[c]) >= QUEUE_MAXSIZE

\* A connection that has no room for an event is dropped, never the event.
NoneDropped == {}
Dropped == {c \in subs : Full(c)}

Publish ==
  /\ lastId < MaxEvents
  /\ ~closed
  /\ lastId' = lastId + 1
  /\ ring' = Retained(lastId + 1)
  /\ queue' = [c \in Clients |-> IF c \in subs /\ ~Full(c)
                                   THEN Append(queue[c], lastId + 1) ELSE queue[c]]
  /\ dead' = [c \in Clients |-> dead[c] \/ c \in Dropped]
  /\ subs' = subs \ Dropped
  /\ UNCHANGED <<closed, resyncFrom, replay, writer, wire, tab, losses>>

\* Every connection is marked, because the sentinel may find no room.
NoneDoomed == {}
Doomed == subs

Shutdown ==
  /\ ~closed
  /\ closed' = TRUE
  /\ dead' = [c \in Clients |-> dead[c] \/ c \in Doomed]
  /\ queue' = [c \in Clients |-> IF c \in subs /\ ~Full(c)
                                   THEN Append(queue[c], Stop) ELSE queue[c]]
  /\ subs' = {}
  /\ UNCHANGED <<lastId, ring, resyncFrom, replay, writer, wire, tab, losses>>

-----------------------------------------------------------------------------
(* A connection's thread *)

\* A cursor from before the ring: the replay begins after a gap.  A tab without
\* a cursor resumes nothing and is told nothing.
GapAtOldest(after) ==
  IF after >= 1 /\ ring # <<>> /\ Head(ring) > after THEN Head(ring) ELSE 0
GapBefore(after) ==
  IF after >= 1 /\ ring # <<>> /\ Head(ring) > after + 1 THEN Head(ring) ELSE 0

Backlog(after) == SelectSeq(ring, LAMBDA id : id > after)

\* The tab connects with its cursor; the ring is copied and the live queue
\* registered under one hold of the lock.
Connect(c) ==
  /\ link[c] = "down"
  /\ link' = [link EXCEPT ![c] = "up"]
  /\ writer' = [writer EXCEPT ![c] = "replay"]
  /\ queue' = [queue EXCEPT ![c] = <<>>]
  /\ dead' = [dead EXCEPT ![c] = closed]
  /\ replay' = [replay EXCEPT ![c] = IF closed THEN <<>> ELSE Backlog(cursor[c])]
  /\ resyncFrom' = [resyncFrom EXCEPT ![c] = IF closed THEN 0 ELSE GapBefore(cursor[c])]
  /\ subs' = IF closed THEN subs ELSE subs \cup {c}
  /\ UNCHANGED <<bus, wire, cursor, gapTo, losses>>

Send(c, frame) == wire' = [wire EXCEPT ![c] = Append(@, frame)]
GoesTo(c, place) == writer' = [writer EXCEPT ![c] = place]

\* The notice of a gap, then the backlog, past the bounded queue.
StreamBacklog(c) ==
  /\ writer[c] = "replay"
  /\ \/ /\ resyncFrom[c] # 0
        /\ Send(c, Resync(resyncFrom[c]))
        /\ resyncFrom' = [resyncFrom EXCEPT ![c] = 0]
        /\ UNCHANGED <<replay, writer>>
     \/ /\ resyncFrom[c] = 0 /\ replay[c] # <<>>
        /\ Send(c, Event(Head(replay[c])))
        /\ replay' = [replay EXCEPT ![c] = Tail(@)]
        /\ UNCHANGED <<resyncFrom, writer>>
     \/ /\ resyncFrom[c] = 0 /\ replay[c] = <<>>
        /\ GoesTo(c, "check")
        /\ UNCHANGED <<resyncFrom, replay, wire>>
  /\ UNCHANGED <<bus, subs, queue, dead, tab, losses>>

Ends(c) == GoesTo(c, "gone") /\ subs' = subs \ {c}

\* _pump_sse looks at the mark before each wait, not after it.
NeverLooks(c) == FALSE
LooksDead(c) == dead[c]

CheckDead(c) ==
  /\ writer[c] = "check"
  /\ IF LooksDead(c) THEN Ends(c) ELSE GoesTo(c, "get") /\ UNCHANGED subs
  /\ UNCHANGED <<bus, queue, dead, resyncFrom, replay, wire, tab, losses>>

\* The next of the queue; the sentinel ends the connection, and a wait that
\* times out sends a heartbeat, which the tab ignores.
StreamLive(c) ==
  /\ writer[c] = "get"
  /\ \/ /\ queue[c] = <<>>
        /\ GoesTo(c, "check")
        /\ UNCHANGED <<queue, subs, wire>>
     \/ /\ queue[c] # <<>> /\ Head(queue[c]) # Stop
        /\ Send(c, Event(Head(queue[c])))
        /\ GoesTo(c, "check")
        /\ queue' = [queue EXCEPT ![c] = Tail(@)]
        /\ UNCHANGED subs
     \/ /\ queue[c] # <<>> /\ Head(queue[c]) = Stop
        /\ Ends(c)
        /\ queue' = [queue EXCEPT ![c] = Tail(@)]
        /\ UNCHANGED wire
  /\ UNCHANGED <<bus, dead, resyncFrom, replay, tab, losses>>

-----------------------------------------------------------------------------
(* The tab and the network *)

\* handleEvent: a frame at or below the cursor is a duplicate; a gap is told.
Receive(c) ==
  /\ link[c] = "up" /\ wire[c] # <<>>
  /\ LET frame == Head(wire[c]) IN
       IF frame.kind = "resync"
         THEN gapTo' = [gapTo EXCEPT ![c] = frame.id] /\ UNCHANGED cursor
         ELSE /\ cursor' = [cursor EXCEPT ![c] = IF frame.id > @ THEN frame.id ELSE @]
              /\ UNCHANGED gapTo
  /\ wire' = [wire EXCEPT ![c] = Tail(@)]
  /\ UNCHANGED <<bus, server, link, losses>>

\* The server closed: the tab has read everything and connects again.
Eof(c) ==
  /\ link[c] = "up" /\ wire[c] = <<>> /\ writer[c] = "gone"
  /\ link' = [link EXCEPT ![c] = "down"]
  /\ UNCHANGED <<bus, server, wire, cursor, gapTo, losses>>

\* The connection breaks, or a write of the server times out: frames on the
\* wire are lost, and the next write of the server fails.
Lose(c) ==
  /\ losses < MaxLosses
  /\ link[c] = "up"
  /\ losses' = losses + 1
  /\ link' = [link EXCEPT ![c] = "down"]
  /\ wire' = [wire EXCEPT ![c] = <<>>]
  /\ Ends(c)
  /\ UNCHANGED <<bus, queue, dead, resyncFrom, replay, cursor, gapTo>>

Next ==
  \/ Publish \/ Shutdown
  \/ \E c \in Clients :
       \/ Connect(c) \/ StreamBacklog(c) \/ CheckDead(c) \/ StreamLive(c)
       \/ Receive(c) \/ Eof(c) \/ Lose(c)

\* A connection's thread gets on (waits and writes have timeouts); a tab reads
\* what arrives and retries for ever.
Fairness ==
  \A c \in Clients :
    /\ WF_vars(StreamBacklog(c)) /\ WF_vars(CheckDead(c)) /\ WF_vars(StreamLive(c))
    /\ WF_vars(Connect(c)) /\ WF_vars(Receive(c)) /\ WF_vars(Eof(c))

Spec == Init /\ [][Next]_vars /\ Fairness

-----------------------------------------------------------------------------

Ids == 1..MaxEvents

TypeOK ==
  /\ lastId \in 0..MaxEvents
  /\ ring \in Seq(Ids) /\ Len(ring) <= RING_SIZE
  /\ closed \in BOOLEAN
  /\ subs \subseteq Clients
  /\ queue \in [Clients -> Seq(Ids \cup {Stop})]
  /\ \A c \in Clients : Len(queue[c]) <= QUEUE_MAXSIZE
  /\ dead \in [Clients -> BOOLEAN]
  /\ resyncFrom \in [Clients -> 0..MaxEvents]
  /\ replay \in [Clients -> Seq(Ids)]
  /\ writer \in [Clients -> {"gone", "replay", "check", "get"}]
  /\ wire \in [Clients -> Seq([kind : {"event", "resync"}, id : Ids])]
  /\ link \in [Clients -> {"up", "down"}]
  /\ cursor \in [Clients -> 0..MaxEvents] /\ gapTo \in [Clients -> 0..MaxEvents]
  /\ losses \in 0..MaxLosses

\* "The gap is never silent": a tab reads every event, once and in order,
\* through overflows, broken connections and replays; where it cannot, it was
\* told first.  Its first event is wherever the ring begins.
ContiguousOrTold ==
  [][\A c \in Clients : cursor'[c] # cursor[c] =>
       \/ cursor'[c] = cursor[c] + 1
       \/ cursor[c] = 0
       \/ cursor'[c] = gapTo[c]]_vars

\* A tab is told of a gap only when the events between are gone for good.
AlarmsAreTrue ==
  [][\A c \in Clients : gapTo'[c] # gapTo[c] =>
       gapTo'[c] > cursor[c] + 1 /\ Head(ring) >= gapTo'[c]]_vars

\* "A stale or absent cursor ALWAYS makes progress": whenever the engine falls
\* silent, every tab comes to the last event.
CatchesUp == \A c \in Clients : []<>(closed \/ cursor[c] = lastId)

\* No parked connection holds the shutdown hostage.
WritersEnd == \A c \in Clients : closed ~> writer[c] = "gone"
=============================================================================
