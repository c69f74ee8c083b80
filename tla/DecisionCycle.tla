---------------------------- MODULE DecisionCycle ----------------------------
(***************************************************************************)
(* openclaw-control/src/decisionCycle.ts: from proposals to execution      *)
(* intents.  A cycle is a process of its own, started by a schedule or a   *)
(* Slack message, and cycles may overlap.  It reads, allocates and checks  *)
(* in memory and then writes row by row; it may end at any await, by an    *)
(* exception (a missing row, a leg without a price, a failed call) or with *)
(* its process.                                                            *)
(*                                                                         *)
(* Around the cycles run operator commands, the market, which shows any    *)
(* state of Markets at each read, and the writers of position snapshots:   *)
(* the paper broker for the complexes of intents, market-state for what    *)
(* the account itself holds.  A snapshot is a mark: positions at the price *)
(* of the moment, with the reserve of open orders, whatever was planned.   *)
(***************************************************************************)
EXTENDS ExecutionPlanning

CONSTANTS
  Cycles,         \* the runs of the decision cycle
  Offers,         \* the sets of proposals one search may find
  Markets,        \* the market states a read may return
  Failures,       \* the sets of halting checks that may fail
  AccountValues,  \* total_position_value_usd of the account, in cents
  Marks,          \* what a position snapshot may show, in cents
  Held,           \* the market complexes the account itself has positions in
  AccountSleeve,  \* the sleeve market-state files them under
  MaxCommands,    \* bound: operator commands
  MaxUpdates      \* bound: position snapshots written

Opportunities == UNION Offers

ASSUME CycleAssumption ==
  /\ Opportunities \subseteq Proposal /\ {} \in Offers
  /\ Markets \subseteq MarketState
  /\ Failures \subseteq SUBSET HaltChecks
  /\ AccountValues \subseteq Nat /\ Marks \subseteq Nat
  /\ Held \subseteq MarketComplexes /\ AccountSleeve \in Sleeves
  /\ MaxCommands \in Nat /\ MaxUpdates \in Nat

\* A basket names a contract once.
ASSUME BasketAssumption ==
  \A proposal \in Opportunities : \A j, k \in DOMAIN proposal.legs :
    proposal.legs[j].contract = proposal.legs[k].contract => j = k

\* Complexes are named after the event's slug in the account's rows and after its
\* identifier in proposals.
ASSUME HeldAssumption == \A proposal \in Opportunities : proposal.complex \notin Held

VARIABLES
  \* The tables.
  operator,     \* control#operator: [paused, flatten]
  snapshots,    \* position_snapshot rows: complex -> [sleeve, cents]
  intents,      \* execution_intent rows
  ledger,       \* decision-ledger rows: [kind, cycle, proposal, status, cents]
  \* A cycle in memory, each a function of the cycle.
  pc,
  seen,         \* the operator state it read first
  proposals,    \* proposals not yet allocated
  loaded,       \* history: the exposure it loaded
  exposure,     \* the exposure with its own reservations
  allocations,  \* allocator decisions: [proposal, cents, forwarded]
  risks,        \* risk decisions: [proposal, status, cents]
  plans,        \* intents built
  outbox,       \* writes still to do: [table, row]
  \* The environment.
  commands,     \* operator commands so far
  updates,      \* position snapshots written so far
  overlapped,   \* history: some cycle loaded its exposure beside another
  unseen        \* history: the most a loaded exposure left out, by scope

tables == <<operator, snapshots, intents, ledger>>
memory == <<seen, proposals, loaded, exposure, allocations, risks, plans, outbox>>
environment == <<commands, updates, overlapped, unseen>>
vars == <<tables, pc, memory, environment>>

Phases == {"start", "propose", "expose", "allocate", "assess", "plan", "write", "done"}
Running == {c \in Cycles : pc[c] \notin {"start", "done"}}
Stopped(state) == state.paused \/ state.flatten

\* Where a limit counts what is planned: altogether, in a sleeve, in a complex.
Scopes ==
  [kind : {"gross"}, of : {"all"}] \cup [kind : {"sleeve"}, of : Sleeves]
    \cup [kind : {"complex"}, of : MarketComplexes]

In(sleeve, complex, x) ==
  \/ x.kind = "gross"
  \/ x.kind = "sleeve" /\ sleeve = x.of
  \/ x.kind = "complex" /\ complex = x.of

\* What cents for a proposal come to in a scope, and a set of intents.
Share(p, cents, x) == IF In(p.sleeve, p.complex, x) THEN cents ELSE 0
Planned(set, x) == Total([i \in set |-> Share(i.proposal, i.notional, x)])

\* What the snapshots show in a scope.
RowsIn(x) == {k \in DOMAIN snapshots : In(snapshots[k].sleeve, k, x)}
Shown(x) == Total([k \in RowsIn(x) |-> snapshots[k].cents])

\* The rows operator commands leave.
OperatorStates ==
  {[paused |-> FALSE, flatten |-> FALSE], [paused |-> TRUE, flatten |-> FALSE],
   [paused |-> TRUE, flatten |-> TRUE]}

Init ==
  /\ operator \in OperatorStates
  /\ snapshots = [k \in {} |-> Null]
  /\ intents = {}
  /\ ledger = {}
  /\ pc = [c \in Cycles |-> "start"]
  /\ seen = [c \in Cycles |-> operator]
  /\ proposals = [c \in Cycles |-> {}]
  /\ loaded = [c \in Cycles |-> NoExposure]
  /\ exposure = [c \in Cycles |-> NoExposure]
  /\ allocations = [c \in Cycles |-> <<>>]
  /\ risks = [c \in Cycles |-> <<>>]
  /\ plans = [c \in Cycles |-> <<>>]
  /\ outbox = [c \in Cycles |-> <<>>]
  /\ commands = 0 /\ updates = 0
  /\ overlapped = FALSE
  /\ unseen = [x \in Scopes |-> 0]

-----------------------------------------------------------------------------
(* Writes. *)

LedgerRow(kind, c, proposal, status, cents) ==
  [table |-> "ledger",
   row |-> [kind |-> kind, cycle |-> c, proposal |-> proposal, status |-> status,
            cents |-> cents]]
IntentRow(intent) == [table |-> "state", row |-> intent]

CycleRow(c) == LedgerRow("decision_cycle", c, Null, "none", 0)

ProposalRows(c, given) ==
  [i \in DOMAIN given |-> LedgerRow("strategy_proposal", c, given[i].proposal, "none", 0)]
AllocatorRows(c, given) ==
  [i \in DOMAIN given |->
     LedgerRow("allocator_decision", c, given[i].proposal,
               IF given[i].forwarded THEN "forwarded_to_risk" ELSE "rejected",
               given[i].cents)]
RiskRows(c, given) ==
  [i \in DOMAIN given |->
     LedgerRow("risk_decision", c, given[i].proposal, given[i].status, given[i].cents)]

\* The row the worker reads comes first, then its copy in the ledger.
IntentRows(c, given) ==
  [i \in 1 .. 2 * Len(given) |->
     LET intent == given[(i + 1) \div 2]
     IN  IF i % 2 = 1 THEN IntentRow(intent)
         ELSE LedgerRow("execution_intent", c, intent.proposal, "none", intent.notional)]

\* Mutant of Writes: the cycle's own row is written before the intents.
WritesCycleRowEarly(c) ==
  ProposalRows(c, allocations[c]) \o AllocatorRows(c, allocations[c])
    \o RiskRows(c, risks[c]) \o <<CycleRow(c)>> \o IntentRows(c, plans[c])

\* Mutant of Writes: the intents are written first.
WritesIntentsFirst(c) ==
  IntentRows(c, plans[c]) \o ProposalRows(c, allocations[c])
    \o AllocatorRows(c, allocations[c]) \o RiskRows(c, risks[c]) \o <<CycleRow(c)>>

Writes(c) ==
  ProposalRows(c, allocations[c]) \o AllocatorRows(c, allocations[c])
    \o RiskRows(c, risks[c]) \o IntentRows(c, plans[c]) \o <<CycleRow(c)>>

-----------------------------------------------------------------------------
(* The cycle. *)

\* Past its decisions a cycle needs nothing but its outbox.
Forget(c) ==
  /\ proposals' = [proposals EXCEPT ![c] = {}]
  /\ loaded' = [loaded EXCEPT ![c] = NoExposure]
  /\ exposure' = [exposure EXCEPT ![c] = NoExposure]
  /\ allocations' = [allocations EXCEPT ![c] = <<>>]
  /\ risks' = [risks EXCEPT ![c] = <<>>]
  /\ plans' = [plans EXCEPT ![c] = <<>>]

ReadOperator(c) ==
  /\ pc[c] = "start"
  /\ pc' = [pc EXCEPT ![c] = "propose"]
  /\ seen' = [seen EXCEPT ![c] = operator]
  /\ UNCHANGED <<tables, proposals, loaded, exposure, allocations, risks, plans,
                 outbox, environment>>

\* The search for proposals reads the operator row again, and finds nothing
\* when it asks to stop or the market data are stale.
Propose(c) ==
  /\ pc[c] = "propose"
  /\ \E found \in Offers :
       /\ Stopped(operator) => found = {}
       /\ proposals' = [proposals EXCEPT ![c] = found]
       /\ pc' = [pc EXCEPT ![c] = IF found = {} THEN "write" ELSE "expose"]
       /\ outbox' = [outbox EXCEPT ![c] = IF found = {} THEN <<CycleRow(c)>> ELSE <<>>]
  /\ UNCHANGED <<tables, seen, loaded, exposure, allocations, risks, plans, environment>>

OfSleeve(s) == {k \in DOMAIN snapshots : snapshots[k].sleeve = s}

\* Mutant of LoadedExposure: the account's value counts, whatever the snapshots show.
LoadedExposureOfAccount(accountValue) == [NoExposure EXCEPT !.gross = accountValue]

\* Position snapshots know no contracts; without any the account's value counts.
LoadedExposure(accountValue) ==
  IF DOMAIN snapshots = {} THEN [NoExposure EXCEPT !.gross = accountValue]
  ELSE [NoExposure EXCEPT
          !.gross = Total([k \in DOMAIN snapshots |-> snapshots[k].cents]),
          !.sleeve = [s \in Sleeves |-> Total([k \in OfSleeve(s) |-> snapshots[k].cents])],
          !.complex = [k \in MarketComplexes |->
                         IF k \in DOMAIN snapshots THEN snapshots[k].cents ELSE 0]]

LoadExposure(c) ==
  /\ pc[c] = "expose"
  /\ pc' = [pc EXCEPT ![c] = "allocate"]
  /\ \E value \in AccountValues :
       loaded' = [loaded EXCEPT ![c] = LoadedExposure(value)]
  /\ exposure' = [exposure EXCEPT ![c] = loaded'[c]]
  /\ overlapped' = (overlapped \/ Running # {c})
  /\ unseen' = [x \in Scopes |-> MaxOf(unseen[x], Planned(intents, x) - Shown(x))]
  /\ UNCHANGED <<tables, seen, proposals, allocations, risks, plans, outbox, commands,
                 updates>>

\* What a proposal is allocated, given the least room under its limits.
Grant(proposal, e, room) ==
  IF IsValid(proposal)
  THEN MinOf(RequestedNotional(proposal), Capacity(proposal, e, room))
  ELSE 0

\* The scores' order is left open.
AllocateNext(c) ==
  /\ pc[c] = "allocate"
  /\ \E proposal \in proposals[c] :
     \E room \in Rooms(proposal, exposure[c]) :
       LET e         == exposure[c]
           cents     == Grant(proposal, e, room)
           forwarded == IsValid(proposal) /\ Capacity(proposal, e, room) > 0
       IN  /\ IsLeast(room, Rooms(proposal, e))
           /\ exposure' = [exposure EXCEPT
                ![c] = IF forwarded THEN ReserveExposure(proposal, cents, e) ELSE e]
           /\ allocations' = [allocations EXCEPT
                ![c] = Append(@, [proposal |-> proposal, cents |-> cents,
                                  forwarded |-> forwarded])]
           /\ proposals' = [proposals EXCEPT ![c] = @ \ {proposal}]
  /\ pc' = [pc EXCEPT ![c] = IF proposals'[c] = {} THEN "assess" ELSE "allocate"]
  /\ UNCHANGED <<tables, seen, loaded, risks, plans, outbox, environment>>

Forwarded(c) == {n \in DOMAIN allocations[c] : allocations[c][n].forwarded}

\* Risk has decided on as many as come before it.
IsNext(n, c) == Cardinality({m \in Forwarded(c) : m < n}) = Len(risks[c])

\* Each forwarded allocation is checked against the rows read for it, the
\* operator state read first and the health read along the way.
Assess(c) ==
  /\ pc[c] = "assess"
  /\ \E n \in Forwarded(c) :
       LET given == allocations[c][n]
           legs  == given.proposal.legs
       IN  \E market \in [ContractsOf(legs) -> Markets], failing \in Failures,
              thinnest \in DOMAIN legs :
             LET decision == EvaluateRisk(given.proposal, given.cents, seen[c], failing,
                                          market, thinnest)
             IN  /\ IsNext(n, c)
                 /\ IsThinnest(thinnest, legs, market)
                 /\ risks' = [risks EXCEPT
                      ![c] = Append(@, [proposal |-> given.proposal, status |-> decision.status,
                                        cents |-> decision.cents])]
                 /\ pc' = [pc EXCEPT
                      ![c] = IF decision.status \in {"approved", "resized"}
                             THEN "plan" ELSE "assess"]
  /\ UNCHANGED <<tables, seen, proposals, loaded, exposure, allocations, plans,
                 outbox, environment>>

\* The market is read again for the plan.
Plan(c) ==
  /\ pc[c] = "plan"
  /\ pc' = [pc EXCEPT ![c] = "assess"]
  /\ LET approved == risks[c][Len(risks[c])]
         legs     == approved.proposal.legs
     IN  \E market \in [ContractsOf(legs) -> Markets] :
           /\ HasPrices(legs, market)
           /\ plans' = [plans EXCEPT
                ![c] = Append(@, [cycle |-> c, proposal |-> approved.proposal,
                                  notional |-> approved.cents,
                                  legs |-> BuildExecutionIntent(approved.proposal,
                                                                approved.cents, market).legs])]
  /\ UNCHANGED <<tables, seen, proposals, loaded, exposure, allocations, risks,
                 outbox, environment>>

BeginWrites(c) ==
  /\ pc[c] = "assess"
  /\ Len(risks[c]) = Cardinality(Forwarded(c))
  /\ pc' = [pc EXCEPT ![c] = "write"]
  /\ outbox' = [outbox EXCEPT ![c] = Writes(c)]
  /\ Forget(c)
  /\ UNCHANGED <<tables, seen, environment>>

WriteNext(c) ==
  /\ pc[c] = "write"
  /\ LET write == Head(outbox[c]) IN
       IF write.table = "state"
       THEN intents' = intents \cup {write.row} /\ UNCHANGED ledger
       ELSE ledger' = ledger \cup {write.row} /\ UNCHANGED intents
  /\ outbox' = [outbox EXCEPT ![c] = Tail(@)]
  /\ pc' = [pc EXCEPT ![c] = IF outbox'[c] = <<>> THEN "done" ELSE "write"]
  /\ UNCHANGED <<operator, snapshots, seen, proposals, loaded, exposure, allocations,
                 risks, plans, environment>>

Fail(c) ==
  /\ c \in Running
  /\ pc' = [pc EXCEPT ![c] = "done"]
  /\ outbox' = [outbox EXCEPT ![c] = <<>>]
  /\ Forget(c)
  /\ UNCHANGED <<tables, seen, environment>>

-----------------------------------------------------------------------------
(* The environment. *)

Command ==
  /\ commands < MaxCommands
  /\ commands' = commands + 1
  /\ operator' \in OperatorStates \ {operator}
  /\ UNCHANGED <<snapshots, intents, ledger, pc, memory, updates, overlapped, unseen>>

\* A snapshot takes the place of the one before it.
PutSnapshot(k, sleeve) ==
  /\ updates < MaxUpdates
  /\ updates' = updates + 1
  /\ \E cents \in Marks :
       snapshots' = [other \in DOMAIN snapshots \cup {k} |->
                       IF other = k THEN [sleeve |-> sleeve, cents |-> cents]
                       ELSE snapshots[other]]
  /\ UNCHANGED <<operator, intents, ledger, pc, memory, commands, overlapped, unseen>>

\* The paper broker sums up the positions and open orders that intents of a
\* complex have led to.  It shows any sum: orders fill in part, are cut to the
\* cash, cancelled and flattened, and positions are marked at prices that move.
UpdateAggregatedPositionSnapshot(intent) ==
  PutSnapshot(intent.proposal.complex, intent.proposal.sleeve)

\* Market-state shows what the account itself holds.
UpdateAccountPosition(k) == PutSnapshot(k, AccountSleeve)

Step(c) ==
  \/ ReadOperator(c) \/ Propose(c) \/ LoadExposure(c) \/ AllocateNext(c)
  \/ Assess(c) \/ Plan(c) \/ BeginWrites(c) \/ WriteNext(c) \/ Fail(c)

Next ==
  \/ \E c \in Cycles : Step(c)
  \/ Command
  \/ \E intent \in intents : UpdateAggregatedPositionSnapshot(intent)
  \/ \E k \in Held : UpdateAccountPosition(k)

Spec == Init /\ [][Next]_vars

-----------------------------------------------------------------------------
(* Correctness. *)

Intent ==
  [cycle : Cycles, proposal : Opportunities, notional : Nat,
   legs : Seq([contract : Contracts, side : Sides, limit : Nat \ {0}, size : Nat])]

Row == [kind : {"strategy_proposal", "allocator_decision", "risk_decision",
                "execution_intent", "decision_cycle"},
        cycle : Cycles, proposal : Opportunities \cup {Null},
        status : RiskStatuses \cup {"none", "forwarded_to_risk"}, cents : Nat]

\* Rows and memory have their types; no decision is ever for less than nothing.
TypeOK ==
  /\ operator \in [paused : BOOLEAN, flatten : BOOLEAN]
  /\ DOMAIN snapshots \subseteq MarketComplexes
  /\ \A k \in DOMAIN snapshots : snapshots[k] \in [sleeve : Sleeves, cents : Nat]
  /\ intents \subseteq Intent
  /\ ledger \subseteq Row
  /\ pc \in [Cycles -> Phases]
  /\ seen \in [Cycles -> [paused : BOOLEAN, flatten : BOOLEAN]]
  /\ proposals \in [Cycles -> SUBSET Opportunities]
  /\ loaded \in [Cycles -> Exposure] /\ exposure \in [Cycles -> Exposure]
  /\ allocations \in [Cycles -> Seq([proposal : Opportunities, cents : Nat,
                                     forwarded : BOOLEAN])]
  /\ risks \in [Cycles -> Seq([proposal : Opportunities, status : RiskStatuses,
                               cents : Nat])]
  /\ plans \in [Cycles -> Seq(Intent)]
  /\ outbox \in [Cycles -> Seq([table : {"state"}, row : Intent]
                                \cup [table : {"ledger"}, row : Row])]
  /\ commands \in Nat /\ updates \in Nat /\ overlapped \in BOOLEAN /\ unseen \in [Scopes -> Nat]

\* Within a limit, to half a cent.
Within(cents, limit) == 2 * UnitsPerCent * cents <= 2 * limit + UnitsPerCent

\* However many proposals a cycle funds, and in whatever order, its exposure
\* exceeds a limit only where it already did when it was loaded.
WithinLimits ==
  \A c \in Cycles :
    LET before == loaded[c]
        after  == exposure[c]
    IN  /\ after.gross = before.gross \/ Within(after.gross, GrossLimit)
        /\ \A s \in Sleeves : after.sleeve[s] = before.sleeve[s]
                                \/ Within(after.sleeve[s], SleeveLimit)
        /\ \A k \in MarketComplexes : after.complex[k] = before.complex[k]
                                        \/ Within(after.complex[k], ComplexLimit)
        /\ \A d \in Contracts : after.contract[d] = before.contract[d]
                                  \/ Within(after.contract[d], ContractLimit)
        /\ ActiveSleeves(after) <= MaxOf(ActiveSleeves(before), MaxActiveSleeves)

Limit(x) ==
  CASE x.kind = "gross" -> GrossLimit
    [] x.kind = "sleeve" -> SleeveLimit
    [] x.kind = "complex" -> ComplexLimit

\* What all cycles together have ever planned, altogether, in a sleeve and in a
\* complex, exceeds its limit by no more than a cycle was not shown of it when it
\* loaded its exposure, as long as no cycle loads it beside another.
LimitsAcrossCycles ==
  ~overlapped => \A x \in Scopes : Within(Planned(intents, x) - unseen[x], Limit(x))

\* Behind every intent the worker can see stand its proposal, an allocation of
\* at least its notional and a risk decision that approves just that, whatever
\* a failure kept from being written; and its legs take no more than their
\* shares at their limit prices, to half a unit of size.
IntentsAccountedFor ==
  \A i \in intents :
    /\ LedgerRow("strategy_proposal", i.cycle, i.proposal, "none", 0).row \in ledger
    /\ \E row \in ledger : /\ row.kind = "allocator_decision" /\ row.cycle = i.cycle
                            /\ row.proposal = i.proposal
                            /\ row.status = "forwarded_to_risk" /\ i.notional <= row.cents
    /\ \E row \in ledger : /\ row.kind = "risk_decision" /\ row.cycle = i.cycle
                            /\ row.proposal = i.proposal
                            /\ row.status \in {"approved", "resized"}
                            /\ i.notional = row.cents
    /\ \A k \in DOMAIN i.legs :
         LET limit == i.legs[k].limit
         IN  2 * Len(i.legs) * limit * i.legs[k].size
               <= 2 * UnitsPerCent * i.notional + Len(i.legs) * limit

\* A cycle that read an operator state asking to stop publishes nothing, although
\* it reads the state a second time for its proposals.
NoIntentWhenStopped == \A i \in intents : ~Stopped(seen[i.cycle])

\* The cycle's own row closes it: once it is written, every approval has its
\* intent, where the worker sees it and in the ledger.
CycleRowSettles ==
  \A c \in Cycles : CycleRow(c).row \in ledger =>
    \A row \in ledger :
      row.kind = "risk_decision" /\ row.cycle = c /\ row.status \in {"approved", "resized"}
        => /\ \E i \in intents : i.cycle = c /\ i.proposal = row.proposal
           /\ LedgerRow("execution_intent", c, row.proposal, "none", row.cents).row \in ledger

=============================================================================
