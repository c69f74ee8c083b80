---------------------------- MODULE AccountFeed ----------------------------
(***************************************************************************)
(* The account half of market-state: windows of polling within `loop` or   *)
(* `account-stream`, and the one-shot `account-snapshot`, in a process     *)
(* that its platform starts again.                                         *)
(*                                                                         *)
(* A refresh is stamped, asks the exchange four questions at once, and     *)
(* publishes the account, one row per position and its health, each publish*)
(* awaited.  The publisher is shared with the market stream: whoever fails *)
(* in it leaves it rejected for good.                                      *)
(*                                                                         *)
(* What the exchange answers is abstracted to the instant it was true, the *)
(* contracts of the positions, and whether the answer shows a defect.      *)
(***************************************************************************)
EXTENDS Integers, Sequences

CONSTANTS
  Contracts,   \* asset ids
  Events,      \* event slugs
  EventOf,     \* the event of each contract's market
  Positions,   \* the lists of positions the exchange may answer
  Missing,     \* no value
  StaleAfter,  \* accountStateStaleAfterMs
  MaxClock,    \* bound: the time
  MaxFaults    \* bound: failures, defective answers, signals and kills

ASSUME AccountAssumption ==
  /\ EventOf \in [Contracts -> Events]
  /\ "account" \notin Events /\ "health" \notin Events
  /\ Positions \subseteq Seq(Contracts) /\ <<>> \in Positions
  /\ {StaleAfter, MaxClock, MaxFaults} \subseteq Nat

VARIABLES
  \* The process.
  command,   \* "loop", "account-stream" or "account-snapshot"
  pc,        \* "universe", "announce", "window", "fetch", "publish", "report",
             \* "health" or "ended"
  stamp,     \* tsMs of the refresh
  answers,   \* what fetchAccountSnapshot has so far, see Unanswered
  store,     \* the AccountStateStore
  unsent,    \* envelopes of the refresh yet to be published
  broken,    \* publishQueue is rejected
  \* The current-state table.
  account,   \* the account_state_snapshot row
  health,    \* the account_state_health row
  positions, \* position_snapshot rows: event -> [contract, ts]
  clock, faults,
  ahead      \* history: the account row is of a later refresh than the health row

process == <<command, pc, stamp, answers, store, unsent, broken>>
table == <<account, health, positions, ahead>>
vars == <<process, table, clock, faults>>

Commands == {"loop", "account-stream", "account-snapshot"}
Polling == command # "account-snapshot"

Questions == {"collateral", "orders", "trades", "positions"}
Times == 0 .. MaxClock
Stamp == Times \cup {Missing}

\* read: when the first answer was given, which is the oldest.
Unanswered == [open |-> Questions, read |-> Missing, held |-> <<>>, clean |-> TRUE]

\* "no successful account refresh yet"
FreshStore == [last |-> Missing, clean |-> FALSE, failed |-> FALSE]

AccountRow == [ts : Times, read : Times, held : Positions, clean : BOOLEAN]
\* command is not in the row: it tells the properties who wrote it.
HealthRow == [ts : Times, last : Stamp, stale : BOOLEAN, ok : BOOLEAN, command : Commands]
PositionRow == [contract : Contracts, ts : Times]

ASSUME MissingAssumption == Missing \notin Nat \cup AccountRow \cup HealthRow \cup PositionRow

Init ==
  /\ command = "loop" /\ pc = "universe"
  /\ stamp = Missing /\ answers = Unanswered
  /\ store = FreshStore /\ unsent = <<>> /\ broken = FALSE
  /\ account = Missing /\ health = Missing
  /\ positions = [e \in Events |-> Missing]
  /\ clock = 0 /\ faults = 0 /\ ahead = FALSE

Fault == faults < MaxFaults /\ faults' = faults + 1

-----------------------------------------------------------------------------
(* The loop. *)

\* buildSnapshotEnvelope, which may fail.
BuildUniverse ==
  /\ pc = "universe"
  /\ \/ pc' = "announce" /\ UNCHANGED faults
     \/ pc' = "ended" /\ Fault
  /\ UNCHANGED <<command, stamp, answers, store, unsent, broken, table, clock>>

\* The universe is published; a failure here ends the process.
Announce ==
  /\ pc = "announce"
  /\ \/ ~broken /\ pc' = "window" /\ UNCHANGED <<broken, faults>>
     \/ broken /\ pc' = "ended" /\ UNCHANGED <<broken, faults>>
     \/ ~broken /\ pc' = "ended" /\ broken' = TRUE /\ Fault
  /\ UNCHANGED <<command, stamp, answers, store, unsent, table, clock>>

\* A window refreshes at least once, unless a signal asks it to stop.
BeginRefresh ==
  /\ pc = "window"
  /\ pc' = "fetch"
  /\ stamp' = clock
  /\ answers' = Unanswered
  /\ UNCHANGED <<command, store, unsent, broken, table, clock, faults>>

AfterWindow == IF command = "loop" THEN "universe" ELSE "ended"

\* The deadline is near; or a signal has come, and the loop ends.
EndWindow ==
  /\ pc = "window"
  /\ \/ stamp # Missing /\ pc' = AfterWindow /\ UNCHANGED faults
     \/ command = "loop" /\ pc' = "ended" /\ Fault
  /\ stamp' = Missing
  /\ answers' = Unanswered
  /\ UNCHANGED <<command, store, unsent, broken, table, clock>>

-----------------------------------------------------------------------------
(* One refresh. *)

\* One of the four answers; a defect in it is one that evaluateSnapshotIssues
\* reports, which never looks at the trades.
Answer(q) ==
  /\ pc = "fetch" /\ q \in answers.open
  /\ \E held \in Positions, clean \in BOOLEAN :
       /\ q # "positions" => held = answers.held
       /\ q = "trades" => clean
       /\ IF clean THEN UNCHANGED faults ELSE Fault
       /\ answers' = [open |-> answers.open \ {q},
                      read |-> IF answers.read = Missing THEN clock ELSE answers.read,
                      held |-> held,
                      clean |-> answers.clean /\ clean]
  /\ UNCHANGED <<command, pc, stamp, store, unsent, broken, table, clock>>

AfterFailure == IF Polling THEN "report" ELSE "ended"

RecordFailure == [store EXCEPT !.failed = TRUE]

\* A question fails: the whole refresh does. The one-shot catches nothing.
FetchFails ==
  /\ pc = "fetch"
  /\ Fault
  /\ pc' = AfterFailure
  /\ answers' = Unanswered
  /\ store' = IF Polling THEN RecordFailure ELSE store
  /\ UNCHANGED <<command, stamp, unsent, broken, table, clock>>

\* Mutant of Applied: an error recorded before stays.
AppliedOverError == [last |-> stamp, clean |-> answers.clean, failed |-> store.failed]

\* Mutant of Applied: the success is dated when the answers are in.
AppliedLate == [last |-> clock, clean |-> answers.clean, failed |-> FALSE]

Applied == [last |-> stamp, clean |-> answers.clean, failed |-> FALSE]

HealthOf(st, now) ==
  [ts |-> now, last |-> st.last,
   stale |-> IF st.last = Missing THEN TRUE ELSE now - st.last > StaleAfter,
   ok |-> st.clean /\ ~st.failed, command |-> command]

Envelope(key, value) == [key |-> key, value |-> value]

AccountEnvelope ==
  Envelope("account", [ts |-> stamp, read |-> answers.read, held |-> answers.held,
                       clean |-> answers.clean])

\* One per position, in the order of the answer.
PositionEnvelopes ==
  [i \in DOMAIN answers.held |->
     Envelope(EventOf[answers.held[i]], [contract |-> answers.held[i], ts |-> stamp])]

\* Mutant of Envelopes: the account itself is left out.
EnvelopesOfPositions == PositionEnvelopes

\* Mutant of Envelopes: the health goes out with the account.
EnvelopesHealthFirst ==
  <<AccountEnvelope, Envelope("health", HealthOf(Applied, stamp))>> \o PositionEnvelopes

\* The one-shot has its health ready, and publishes it before the positions.
Envelopes ==
  IF Polling
  THEN <<AccountEnvelope>> \o PositionEnvelopes
  ELSE <<AccountEnvelope, Envelope("health", HealthOf(Applied, stamp))>> \o PositionEnvelopes

Apply ==
  /\ pc = "fetch" /\ answers.open = {}
  /\ pc' = "publish"
  /\ store' = Applied
  /\ unsent' = Envelopes
  /\ answers' = Unanswered
  /\ UNCHANGED <<command, stamp, broken, table, clock, faults>>

\* Whatever became of the refresh, its health follows.
Report ==
  /\ pc = "report"
  /\ pc' = "health"
  /\ unsent' = <<Envelope("health", HealthOf(store, clock))>>
  /\ UNCHANGED <<command, stamp, answers, store, broken, table, clock, faults>>

-----------------------------------------------------------------------------
(* The publisher. *)

Put ==
  LET envelope == Head(unsent) IN
  /\ account' = IF envelope.key = "account" THEN envelope.value ELSE account
  /\ health' = IF envelope.key = "health" THEN envelope.value ELSE health
  /\ positions' = [e \in Events |->
                     IF envelope.key = e THEN envelope.value ELSE positions[e]]
  /\ ahead' = (envelope.key # "health" /\ (envelope.key = "account" \/ ahead))

\* What follows the last envelope of a list.
AfterLast ==
  CASE pc = "health" -> "window"
    [] pc = "publish" /\ Polling -> "report"
    [] OTHER -> "ended"

Publish ==
  /\ unsent # <<>> /\ ~broken
  /\ Put
  /\ unsent' = Tail(unsent)
  /\ pc' = IF Tail(unsent) = <<>> THEN AfterLast ELSE pc
  /\ UNCHANGED <<command, stamp, answers, store, broken, clock, faults>>

\* The row or the archive fails to be written, or something failed before.  The
\* rest of the refresh is dropped; a health that fails ends the window, which
\* the loop only logs.
PublishFails ==
  /\ unsent # <<>>
  /\ IF broken THEN UNCHANGED <<table, faults>>
     ELSE Fault /\ (Put \/ UNCHANGED table)
  /\ broken' = TRUE
  /\ unsent' = <<>>
  /\ IF pc = "health"
     THEN pc' = AfterWindow /\ stamp' = Missing /\ UNCHANGED store
     ELSE /\ pc' = AfterFailure
          /\ store' = IF Polling THEN RecordFailure ELSE store
          /\ UNCHANGED stamp
  /\ UNCHANGED <<command, answers, clock>>

\* A publish of the market stream of the same window.
MarketPublishFails ==
  /\ command = "loop" /\ pc \notin {"universe", "announce", "ended"}
  /\ ~broken
  /\ Fault
  /\ broken' = TRUE
  /\ UNCHANGED <<command, pc, stamp, answers, store, unsent, table, clock>>

-----------------------------------------------------------------------------
(* The process and time. *)

NewProcess ==
  /\ \/ command' = "loop" /\ pc' = "universe" /\ stamp' = Missing
     \/ command' = "account-stream" /\ pc' = "window" /\ stamp' = Missing
     \/ command' = "account-snapshot" /\ pc' = "fetch" /\ stamp' = clock
  /\ answers' = Unanswered /\ store' = FreshStore
  /\ unsent' = <<>> /\ broken' = FALSE
  /\ UNCHANGED <<table, clock>>

Restart == pc = "ended" /\ NewProcess /\ UNCHANGED faults

Kill == pc # "ended" /\ Fault /\ NewProcess

Tick ==
  /\ clock < MaxClock
  /\ clock' = clock + 1
  /\ UNCHANGED <<process, table, faults>>

Poll ==
  \/ BuildUniverse \/ Announce \/ BeginRefresh \/ EndWindow
  \/ \E q \in Questions : Answer(q)
  \/ FetchFails \/ Apply \/ Report \/ Publish \/ PublishFails \/ Restart

Next == Poll \/ MarketPublishFails \/ Kill \/ Tick

Spec == Init /\ [][Next]_vars

\* The process runs, a request is answered or times out, the deadline of a
\* window comes, and the platform restarts what ended.
FairSpec == Spec /\ WF_vars(Poll)

-----------------------------------------------------------------------------
(* Properties. *)

\* Types; and the process has something to publish exactly while it says so.
TypeOK ==
  /\ command \in Commands
  /\ pc \in {"universe", "announce", "window", "fetch", "publish", "report",
             "health", "ended"}
  /\ stamp \in Stamp
  /\ answers.open \subseteq Questions /\ answers.read \in Stamp
  /\ answers.held \in Positions
  /\ store \in [last : Stamp, clean : BOOLEAN, failed : BOOLEAN]
  /\ unsent # <<>> <=> pc \in {"publish", "health"}
  /\ account \in AccountRow \cup {Missing}
  /\ health \in HealthRow \cup {Missing}
  /\ \A e \in Events : positions[e] \in PositionRow \cup {Missing}

\* A health row without issues speaks of a refresh that is in the table whole,
\* whatever was interrupted before it: its account row, until the next one, and
\* for every event it holds a position in, a row of that refresh.  The one-shot
\* command does not keep this.
HealthyRefreshStored ==
  health # Missing /\ health.ok /\ health.command # "account-snapshot" /\ ~ahead =>
    /\ account # Missing /\ account.ts = health.last
    /\ \A i \in DOMAIN account.held :
         positions[EventOf[account.held[i]]] # Missing
           /\ positions[EventOf[account.held[i]]].ts = account.ts

\* What a health row did not call stale was not: every part of the account row
\* was true at most StaleAfter before the health was computed, however long the
\* four answers took.
ReportedFreshWasFresh ==
  health # Missing /\ account # Missing /\ ~health.stale =>
    account.read >= health.ts - StaleAfter

\* Once nothing fails any more, the health row says so and goes on saying so,
\* whatever was rejected, recorded or lost before.
AccountRecovers == <>[](health # Missing /\ health.ok)
=============================================================================
