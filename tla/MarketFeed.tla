----------------------------- MODULE MarketFeed -----------------------------
(***************************************************************************)
(* The market half of market-state's `loop` command: windows of a market   *)
(* WebSocket, one after the other, in a process that its platform starts   *)
(* again.  A message passes three queues before the tables show it: the    *)
(* socket's, the stream's deliveryQueue and the publisher's publishQueue.  *)
(*                                                                         *)
(* A stream is settled once, and settling stops its timers but closes no   *)
(* socket: the loop goes on while the old stream may still be at work.     *)
(* A failed publish leaves publishQueue rejected for good.                 *)
(*                                                                         *)
(* A payload is one event: a list of events behaves as successive ones.    *)
(* Account polling is present as a user of the publisher only.             *)
(***************************************************************************)
EXTENDS Integers, FiniteSets, Sequences, SequencesExt

CONSTANTS
  Contracts,   \* asset ids of the exchange
  Universes,   \* the sets of them a snapshot of the universe may select
  Events,      \* the events the exchange may send
  Garbage,     \* a payload that is not JSON
  Streams,     \* bound: sockets the process may have at once
  Loop,        \* the loop itself, as a user of the publisher
  Health,      \* the key of the market-data health row
  Missing,     \* no value
  StaleAfter,  \* marketDataStaleAfterMs
  MaxClock,    \* bound: the time
  MaxEvents,   \* bound: payloads received
  MaxKills     \* bound: times the process is killed

Event == [kind : {"book", "price_change"}, assets : SUBSET Contracts]

ASSUME FeedAssumption ==
  /\ Universes \subseteq SUBSET Contracts
  /\ \A assets \in Universes : IsFiniteSet(assets)
  /\ Events \subseteq Event
  /\ \A e \in Events : e.kind = "book" => Cardinality(e.assets) = 1
  /\ Loop \notin Streams /\ Health \notin Contracts /\ Garbage \notin Event
  /\ {StaleAfter, MaxClock, MaxEvents, MaxKills} \subseteq Nat

VARIABLES
  pc,        \* the loop: "universe", "publish", "connect", "streaming" or "ended"
  tracked,   \* the assets of the universe last fetched
  current,   \* the stream whose promise the loop awaits
  stream,    \* the streams, see Stream
  queue,     \* publishQueue: who waits for a publish, first come first served
  broken,    \* publishQueue is rejected
  rows,      \* the current-state table
  clock, events, kills,
  disturbed  \* history: this process has rejected a stream

process == <<pc, tracked, current, stream, queue, broken>>
environment == <<clock, events, kills>>
vars == <<process, rows, environment, disturbed>>

Times == 0 .. MaxClock
Stamp == Times \cup {Missing}
HealthRow == [observed : Nat, latest : Stamp, stale : BOOLEAN]

ASSUME MissingAssumption == Missing \notin Nat \cup HealthRow \cup Streams

\* What a stream keeps: its socket ("closed" while messages received are being
\* delivered, "reporting" while its health is published), how its promise is
\* settled, payloads received, book timestamps by asset, the timestamp of the
\* last message, and the envelopes of the payload in hand yet to be published.
Idle == [socket |-> "none", settled |-> "no", inbox |-> <<>>,
         books |-> [c \in {} |-> Missing], latest |-> Missing, unsent |-> <<>>]

Fresh(assets) ==
  [Idle EXCEPT !.socket = "connecting", !.books = [c \in assets |-> Missing]]

Init ==
  /\ pc = "universe"
  /\ tracked = {}
  /\ current = Missing
  /\ stream = [s \in Streams |-> Idle]
  /\ queue = <<>>
  /\ broken = FALSE
  /\ rows = [k \in Contracts \cup {Health} |-> Missing]
  /\ clock = 0 /\ events = 0 /\ kills = 0
  /\ disturbed = FALSE

\* The history, over the steps of one process.
Note ==
  disturbed' = (disturbed \/ \E s \in Streams : stream'[s].settled = "rejected")

-----------------------------------------------------------------------------
(* A stream. *)

Settled(st, result) == [st EXCEPT !.settled = IF @ = "no" THEN result ELSE @]

Observed(st) == {c \in DOMAIN st.books : st.books[c] # Missing}

HealthOf(st) ==
  [observed |-> Cardinality(Observed(st)),
   latest |-> st.latest,
   stale |-> IF st.latest = Missing THEN TRUE ELSE clock - st.latest > StaleAfter]

\* MarketStateStore's handlers.  A price change counts as a message whatever it
\* names, the others only for an asset of the window.
Handled(st, event, ts) ==
  LET known == event.assets \cap DOMAIN st.books
  IN  [st EXCEPT
         !.latest = IF event.kind = "price_change" \/ known # {} THEN ts ELSE @,
         !.books = [c \in DOMAIN @ |-> IF c \in known THEN ts ELSE @[c]],
         !.unsent = [i \in 1 .. Cardinality(known) |->
                       [key |-> SetToSeq(known)[i], value |-> ts]]]

\* The publisher, asked by a: at most one envelope of each waits, for it awaits.
Enqueued(waiting, a, wanted) == IF wanted THEN Append(waiting, a) ELSE waiting

Open(s) ==
  /\ stream[s].socket = "connecting"
  /\ stream' = [stream EXCEPT ![s].socket = "open"]
  /\ UNCHANGED <<pc, tracked, current, queue, broken, rows, environment>>
  /\ Note

\* An error, and the close that follows it.
SocketError(s) ==
  /\ stream[s].socket \in {"connecting", "open"}
  /\ stream' = [stream EXCEPT ![s] = Settled([@ EXCEPT !.socket = "closed"], "rejected")]
  /\ UNCHANGED <<pc, tracked, current, queue, broken, rows, environment>>
  /\ Note

\* The end of the window, by a timer that does not outlive settling.
TimerClose(s) ==
  /\ stream[s].socket = "open" /\ stream[s].settled = "no"
  /\ stream' = [stream EXCEPT ![s].socket = "closed"]
  /\ UNCHANGED <<pc, tracked, current, queue, broken, rows, environment>>
  /\ Note

ServerClose(s) ==
  /\ stream[s].socket = "open"
  /\ stream' = [stream EXCEPT ![s].socket = "closed"]
  /\ UNCHANGED <<pc, tracked, current, queue, broken, rows, environment>>
  /\ Note

Receive(s, payload) ==
  /\ stream[s].socket = "open"
  /\ events < MaxEvents
  /\ events' = events + 1
  /\ stream' = [stream EXCEPT ![s].inbox = Append(@, [event |-> payload, ts |-> clock])]
  /\ UNCHANGED <<pc, tracked, current, queue, broken, rows, clock, kills>>
  /\ Note

\* Mutant of Busy: a payload does not wait for the one before it.
NeverBusy(s) == FALSE

\* deliveryQueue: the payload in hand is not delivered yet.
Busy(s) == stream[s].unsent # <<>>

\* Mutant of NextIndex: the newest payload first.
NewestIndex(s) == Len(stream[s].inbox)

\* The payload delivered next.
NextIndex(s) == 1

\* The next payload, handled up to its first publish.
Deliver(s) ==
  /\ stream[s].inbox # <<>> /\ ~Busy(s)
  /\ LET next == NextIndex(s)
         payload == stream[s].inbox[next]
         rest == [stream[s] EXCEPT !.inbox = RemoveAt(@, next)]
         after == IF payload.event = Garbage THEN Settled(rest, "rejected")
                  ELSE Handled(rest, payload.event, payload.ts)
     IN  /\ stream' = [stream EXCEPT ![s] = after]
         /\ queue' = Enqueued(queue, s, after.unsent # <<>>)
  /\ UNCHANGED <<pc, tracked, current, broken, rows, environment>>
  /\ Note

\* Mutant of Drained: the close does not wait for deliveryQueue.
AlwaysDrained(s) == stream[s].unsent = <<>>

Drained(s) == stream[s].inbox = <<>> /\ stream[s].unsent = <<>>

\* After the close, and what was received before it: the health row.
Report(s) ==
  /\ stream[s].socket = "closed" /\ Drained(s)
  /\ stream' = [stream EXCEPT
       ![s].socket = "reporting",
       ![s].unsent = <<[key |-> Health, value |-> HealthOf(stream[s])]>>]
  /\ queue' = Append(queue, s)
  /\ UNCHANGED <<pc, tracked, current, broken, rows, environment>>
  /\ Note

-----------------------------------------------------------------------------
(* The publisher. *)

Asker == Head(queue)

\* currentStateKeyForEnvelope knows no key of a universe snapshot.
Put ==
  IF Asker = Loop THEN rows
  ELSE LET envelope == Head(stream[Asker].unsent)
       IN  [rows EXCEPT ![envelope.key] = envelope.value]

\* A stream is done when its health is; what it leaves is for the loop to see.
Done(s, result) ==
  IF s = current
  THEN Settled([stream[s] EXCEPT !.socket = "none", !.unsent = <<>>], result)
  ELSE Idle

\* The asker's await returns.
Accepted(s) ==
  IF stream[s].socket = "reporting" THEN Done(s, "resolved")
  ELSE [stream[s] EXCEPT !.unsent = Tail(@)]

\* The asker's await throws: the rest of its payload is dropped.
Refused(s) ==
  IF stream[s].socket = "reporting" THEN Done(s, "rejected")
  ELSE Settled([stream[s] EXCEPT !.unsent = <<>>], "rejected")

Publish ==
  /\ queue # <<>> /\ ~broken
  /\ rows' = Put
  /\ IF Asker = Loop
     THEN pc' = "connect" /\ queue' = Tail(queue) /\ UNCHANGED stream
     ELSE /\ stream' = [stream EXCEPT ![Asker] = Accepted(Asker)]
          /\ queue' = Enqueued(Tail(queue), Asker, Len(stream[Asker].unsent) > 1)
          /\ UNCHANGED pc
  /\ UNCHANGED <<tracked, current, broken, environment>>
  /\ Note

\* Mutant of AfterRefusal: the loop goes on without the universe published.
SurvivesRefusal == "connect"

\* The loop catches nothing.
AfterRefusal == "ended"

\* The row write fails, or the archive after it; or a publish failed before.
PublishFails ==
  /\ queue # <<>>
  /\ rows' \in IF broken THEN {rows} ELSE {rows, Put}
  /\ broken' = TRUE
  /\ queue' = Tail(queue)
  /\ IF Asker = Loop
     THEN pc' = AfterRefusal /\ UNCHANGED stream
     ELSE stream' = [stream EXCEPT ![Asker] = Refused(Asker)] /\ UNCHANGED pc
  /\ UNCHANGED <<tracked, current, environment>>
  /\ Note

\* A publish of the account poller, behind nothing that still waits.
AccountPublishFails ==
  /\ pc = "streaming" /\ ~broken
  /\ broken' = TRUE
  /\ UNCHANGED <<pc, tracked, current, stream, queue, rows, environment>>
  /\ Note

-----------------------------------------------------------------------------
(* The loop and its process. *)

BuildUniverse ==
  /\ pc = "universe"
  /\ \/ /\ pc' = "publish"
        /\ tracked' \in Universes
        /\ queue' = Append(queue, Loop)
     \/ pc' = "ended" /\ UNCHANGED <<tracked, queue>>
  /\ UNCHANGED <<current, stream, broken, rows, environment>>
  /\ Note

\* With nothing to track the stream's promise is rejected at once.
Connect ==
  /\ pc = "connect"
  /\ IF tracked = {}
     THEN pc' = "universe" /\ UNCHANGED <<current, stream>>
     ELSE \E s \in {t \in Streams : stream[t].socket = "none"} :
            /\ pc' = "streaming"
            /\ current' = s
            /\ stream' = [stream EXCEPT ![s] = Fresh(tracked)]
  /\ tracked' = {}
  /\ UNCHANGED <<queue, broken, rows, environment>>
  /\ Note

\* The stream is settled; a signal may have asked the loop to stop.
EndWindow ==
  /\ pc = "streaming"
  /\ stream[current].settled # "no"
  /\ pc' \in {"universe", "ended"}
  /\ current' = Missing
  /\ stream' = [stream EXCEPT ![current] = IF @.socket = "none" THEN Idle ELSE @]
  /\ UNCHANGED <<tracked, queue, broken, rows, environment>>
  /\ Note

NewProcess ==
  /\ pc' = "universe" /\ tracked' = {} /\ current' = Missing
  /\ stream' = [s \in Streams |-> Idle]
  /\ queue' = <<>> /\ broken' = FALSE /\ disturbed' = FALSE
  /\ UNCHANGED <<rows, clock, events>>

\* A process whose main has ended lives on while it has a socket.
Restart ==
  /\ pc = "ended" /\ \A s \in Streams : stream[s].socket = "none"
  /\ NewProcess
  /\ UNCHANGED kills

Kill == kills < MaxKills /\ kills' = kills + 1 /\ NewProcess

Tick ==
  /\ clock < MaxClock
  /\ clock' = clock + 1
  /\ UNCHANGED <<process, rows, events, kills>>
  /\ Note

Next ==
  \/ BuildUniverse \/ Connect \/ EndWindow \/ Restart \/ Kill \/ Tick
  \/ Publish \/ PublishFails \/ AccountPublishFails
  \/ \E s \in Streams :
       \/ Open(s) \/ SocketError(s) \/ TimerClose(s) \/ ServerClose(s)
       \/ Deliver(s) \/ Report(s)
       \/ \E payload \in Events \cup {Garbage} : Receive(s, payload)

Spec == Init /\ [][Next]_vars

-----------------------------------------------------------------------------
(* Fairness.  The process runs: its microtasks, timers and awaits come.  A *)
(* connection attempt ends, as the operating system makes it.  The         *)
(* exchange closes a connection that no longer pings, which is what a      *)
(* settled stream leaves behind.  The platform restarts a process.         *)

FairSpec ==
  /\ Spec
  /\ WF_vars(BuildUniverse) /\ WF_vars(Connect)
  /\ WF_vars(EndWindow) /\ WF_vars(Restart)
  /\ WF_vars(Publish \/ PublishFails)
  /\ \A s \in Streams :
       /\ WF_vars(Open(s) \/ SocketError(s))
       /\ WF_vars(TimerClose(s))
       /\ WF_vars(stream[s].settled # "no" /\ ServerClose(s))
       /\ WF_vars(Deliver(s)) /\ WF_vars(Report(s))

-----------------------------------------------------------------------------
(* Properties. *)

\* Types; and a stream waits in the publisher's queue exactly once while it has
\* something to publish (await in marketChannelClient.ts), the loop while its
\* universe is being published.
TypeOK ==
  /\ pc \in {"universe", "publish", "connect", "streaming", "ended"}
  /\ tracked \in SUBSET Contracts /\ current \in Streams \cup {Missing}
  /\ \A s \in Streams :
       /\ stream[s].socket \in {"none", "connecting", "open", "closed", "reporting"}
       /\ stream[s].settled \in {"no", "resolved", "rejected"}
       /\ stream[s].latest \in Stamp
       /\ stream[s].books \in [DOMAIN stream[s].books -> Stamp]
  /\ rows[Health] \in HealthRow \cup {Missing}
  /\ \A c \in Contracts : rows[c] \in Stamp
  /\ \A a \in Streams \cup {Loop} :
       Cardinality({i \in DOMAIN queue : queue[i] = a})
         = IF a = Loop THEN (IF pc = "publish" THEN 1 ELSE 0)
           ELSE IF stream[a].unsent # <<>> THEN 1 ELSE 0

\* A market row is never replaced by an older message, across payloads, windows
\* and processes, as long as no stream was rejected and left behind: this is
\* what the two queues and the order of the windows are for.
RowsMoveForward ==
  [][~disturbed' => \A c \in Contracts :
       rows[c] # Missing => rows'[c] # Missing /\ rows'[c] >= rows[c]]_vars

\* A window that ends well leaves in the tables all it received: the last state
\* of every contract it observed, and a health row that says so.
WindowComplete ==
  \A s \in Streams :
    ~disturbed /\ current = s /\ stream[s].settled = "resolved"
      => /\ stream[s].inbox = <<>>
         /\ \A c \in Observed(stream[s]) : rows[c] = stream[s].books[c]
         /\ rows[Health].latest = stream[s].latest
         /\ rows[Health].observed = Cardinality(Observed(stream[s]))

\* Publishing does not fail for ever: a rejected publishQueue ends the process,
\* and the next one publishes again.
FeedRecovers == broken ~> ~broken

\* Market data whose health row says it is not stale is not stale (a halting
\* condition of the risk policy; the readers look at nothing but the row).
FreshIsFresh ==
  rows[Health] # Missing /\ ~rows[Health].stale => clock - rows[Health].latest <= StaleAfter
=============================================================================
