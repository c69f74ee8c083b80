------------------------- MODULE AccountFeedProofs -------------------------
(***************************************************************************)
(* Proofs about AccountFeed, for any contracts, events and tolerance.      *)
(***************************************************************************)
EXTENDS AccountFeed, SequenceTheorems, TLAPS

-----------------------------------------------------------------------------
(* The inductive invariant. *)

Wire == [key : {"account"}, value : AccountRow]
                \cup [key : {"health"}, value : HealthRow]
                \cup [key : Events, value : PositionRow]

Answers == [open : SUBSET Questions, read : Stamp, held : Positions, clean : BOOLEAN]
Stores == [last : Stamp, clean : BOOLEAN, failed : BOOLEAN]

Typed ==
  /\ TypeOK
  /\ clock \in Times /\ broken \in BOOLEAN /\ ahead \in BOOLEAN
  /\ answers \in Answers
  /\ unsent \in Seq(Wire)
  /\ positions \in [Events -> PositionRow \cup {Missing}]
  /\ pc \in {"fetch", "publish"} => stamp # Missing
  /\ pc = "fetch" /\ answers.open # Questions => answers.read # Missing

IsAccount(i) == unsent[i].key = "account"
IsHealth(i) == unsent[i].key = "health"
AccountIsNext == unsent # <<>> /\ IsAccount(1)

\* The account goes out first, its health first or right after it.
Order ==
  \A i \in DOMAIN unsent :
    /\ IsAccount(i) => i = 1
    /\ IsHealth(i) => /\ i = 1 \/ (i = 2 /\ IsAccount(1) /\ ~Polling)
                      /\ unsent[i].value.command = command

\* What is read later is read of a later time.
Dated ==
  /\ stamp # Missing => stamp <= clock
  /\ answers.read # Missing =>
       pc = "fetch" /\ stamp <= answers.read /\ answers.read <= clock
  /\ account # Missing => account.read <= clock /\ (pc = "fetch" => account.read <= stamp)
  /\ AccountIsNext =>
       LET row == unsent[1].value IN
       /\ row.read <= clock
       /\ store.last # Missing /\ store.last <= row.read
       /\ account # Missing => account.read <= row.read

ReadSince(t) == account # Missing /\ account.read >= t

\* What the store and the health in hand promise, while it can be published.
Fresh ==
  /\ health # Missing /\ ~health.stale => ReadSince(health.ts - StaleAfter)
  /\ ~broken /\ store.last # Missing /\ ~AccountIsNext => ReadSince(store.last)
  /\ ~broken => \A i \in DOMAIN unsent :
       IsHealth(i) /\ ~unsent[i].value.stale =>
         IF i = 1 THEN ReadSince(unsent[i].value.ts - StaleAfter)
         ELSE unsent[1].value.read >= unsent[i].value.ts - StaleAfter

Row(e, ts) == positions[e] # Missing /\ positions[e].ts = ts
Coming(e) == \E j \in DOMAIN unsent : unsent[j].key = e

Stored(ts) ==
  /\ account # Missing /\ account.ts = ts
  /\ \A i \in DOMAIN account.held : Row(EventOf[account.held[i]], ts)

\* A refresh on its way: what of it is in the table and what is yet to come.
UnderWay ==
  pc = "publish" /\ Polling =>
    /\ \A i \in DOMAIN unsent : ~IsHealth(i) /\ unsent[i].value.ts = store.last
    /\ IsAccount(1) =>
         \A i \in DOMAIN unsent[1].value.held : Coming(EventOf[unsent[1].value.held[i]])
    /\ ~IsAccount(1) =>
         /\ account # Missing /\ account.ts = store.last
         /\ \A i \in DOMAIN account.held :
              Row(EventOf[account.held[i]], store.last) \/ Coming(EventOf[account.held[i]])

Whole ==
  /\ HealthyRefreshStored
  /\ UnderWay
  /\ pc = "report" /\ store.clean /\ ~store.failed => Stored(store.last)
  /\ \A i \in DOMAIN unsent : IsHealth(i) /\ Polling /\ unsent[i].value.ok =>
       Stored(unsent[i].value.last)
  /\ unsent # <<>> /\ unsent[1].key \in Events =>
       ahead \/ (health # Missing /\ health.command = "account-snapshot")
  /\ pc = "health" => Len(unsent) = 1

-----------------------------------------------------------------------------
(* Types. *)

LEMMA Blanks ==
  /\ Unanswered \in Answers /\ Unanswered.open = Questions /\ Unanswered.read = Missing
  /\ FreshStore \in Stores /\ FreshStore.last = Missing
  /\ RecordFailure \in Stores \/ store \notin Stores
  /\ <<>> \in Seq(Wire)
  /\ 0 \in Times /\ Missing \in Stamp /\ Times \subseteq Stamp /\ Times \subseteq Nat
  /\ Missing \notin Times
  <1>1. Unanswered \in Answers /\ Unanswered.open = Questions /\ Unanswered.read = Missing
    BY AccountAssumption DEF Unanswered, Answers, Stamp
  <1>2. FreshStore \in Stores /\ FreshStore.last = Missing
    BY DEF FreshStore, Stores, Stamp
  <1>3. RecordFailure \in Stores \/ store \notin Stores
    BY DEF RecordFailure, Stores
  <1>4. <<>> \in Seq(Wire)
    BY EmptySeq
  <1> QED BY <1>1, <1>2, <1>3, <1>4, AccountAssumption, MissingAssumption DEF Times, Stamp

LEMMA InitTyped == Init => Typed
  BY Blanks DEF Init, Typed, TypeOK, Commands, Answers, Stores

LEMMA HealthTyped ==
  ASSUME NEW st \in Stores, NEW t \in Times, command \in Commands
  PROVE  HealthOf(st, t) \in HealthRow
  <1> DEFINE stale == IF st.last = Missing THEN TRUE ELSE t - st.last > StaleAfter
             ok == st.clean /\ ~st.failed
  <1>1. stale \in BOOLEAN /\ ok \in BOOLEAN
    <2>1. ok \in BOOLEAN
      OBVIOUS
    <2>2. (t - st.last > StaleAfter) \in BOOLEAN
      OBVIOUS
    <2>3. CASE st.last = Missing
      BY <2>1, <2>3
    <2>4. CASE st.last # Missing
      BY <2>1, <2>2, <2>4
    <2> QED BY <2>3, <2>4
  <1>2. st.last \in Stamp
    BY DEF Stores
  <1>3. HealthOf(st, t) = [ts |-> t, last |-> st.last, stale |-> stale, ok |-> ok,
                           command |-> command]
    BY DEF HealthOf
  <1> HIDE DEF stale, ok
  <1> QED BY <1>1, <1>2, <1>3 DEF HealthRow

LEMMA PositionsAreWire ==
  ASSUME Typed, pc = "fetch", answers.open = {}
  PROVE  /\ PositionEnvelopes \in Seq(Wire)
         /\ DOMAIN PositionEnvelopes = DOMAIN answers.held
         /\ Len(PositionEnvelopes) = Len(answers.held)
  <1>1. stamp \in Times
    BY DEF Typed, TypeOK, Stamp, Questions
  <1>2. /\ answers.held \in Seq(Contracts) /\ Len(answers.held) \in Nat
        /\ DOMAIN answers.held = 1 .. Len(answers.held)
    BY AccountAssumption DEF Typed, TypeOK
  <1>3. \A i \in 1 .. Len(answers.held) :
          Envelope(EventOf[answers.held[i]], [contract |-> answers.held[i], ts |-> stamp]) \in Wire
    BY <1>1, <1>2, AccountAssumption DEF Envelope, Wire, PositionRow
  <1>4. PositionEnvelopes \in Seq(Wire)
    BY <1>2, <1>3, IsASeq DEF PositionEnvelopes
  <1>5. DOMAIN PositionEnvelopes = DOMAIN answers.held
    BY DEF PositionEnvelopes
  <1>6. Len(PositionEnvelopes) \in Nat /\ 1 .. Len(PositionEnvelopes) = 1 .. Len(answers.held)
    BY <1>2, <1>4, <1>5, LenProperties
  <1> QED BY <1>2, <1>4, <1>5, <1>6

LEMMA EnvelopesAreWire ==
  ASSUME Typed, pc = "fetch", answers.open = {}
  PROVE  Envelopes \in Seq(Wire) \ {<<>>}
  <1>1. answers.read \in Times /\ stamp \in Times
    BY DEF Typed, TypeOK, Stamp, Questions
  <1>3. AccountEnvelope \in Wire
    BY <1>1 DEF AccountEnvelope, Envelope, Wire, AccountRow, Typed, Answers
  <1>4. PositionEnvelopes \in Seq(Wire)
    BY PositionsAreWire
  <1>5. Envelope("health", HealthOf(Applied, stamp)) \in Wire
    <2>1. Applied \in Stores
      BY <1>1 DEF Applied, Stores, Stamp, Typed, TypeOK, Answers
    <2> QED BY <1>1, <2>1, HealthTyped DEF Envelope, Wire, Typed, TypeOK
  <1> QED BY <1>3, <1>4, <1>5 DEF Envelopes

LEMMA PutTyped ==
  ASSUME Typed, unsent # <<>>, Put
  PROVE  /\ account' \in AccountRow \cup {Missing}
         /\ health' \in HealthRow \cup {Missing}
         /\ positions' \in [Events -> PositionRow \cup {Missing}]
         /\ ahead' \in BOOLEAN
  <1>1. Head(unsent) \in Wire
    BY DEF Typed
  <1> QED BY <1>1, AccountAssumption DEF Put, Wire, Typed, TypeOK

LEMMA TypedStep == Typed /\ [Next]_vars => Typed'
  <1> SUFFICES ASSUME Typed, [Next]_vars PROVE Typed'
    OBVIOUS
  <1> USE DEF Typed, TypeOK, Answers, Stores, process, table
  <1>1. CASE BuildUniverse
    BY <1>1 DEF BuildUniverse
  <1>2. CASE Announce
    BY <1>2 DEF Announce
  <1>3. CASE BeginRefresh
    BY <1>3, Blanks DEF BeginRefresh
  <1>4. CASE EndWindow
    BY <1>4, Blanks DEF EndWindow, AfterWindow
  <1>5. ASSUME NEW q \in Questions, Answer(q) PROVE Typed'
    BY <1>5, Blanks DEF Answer, Answers
  <1>6. CASE FetchFails
    BY <1>6, Blanks DEF FetchFails, AfterFailure, Stores
  <1>7. CASE Apply
    BY <1>7, EnvelopesAreWire, Blanks DEF Apply, Applied, Answers
  <1>8. CASE Report
    <2>1. HealthOf(store, clock) \in HealthRow
      BY HealthTyped
    <2>2. <<Envelope("health", HealthOf(store, clock))>> \in Seq(Wire) \ {<<>>}
      BY <2>1 DEF Envelope, Wire
    <2> QED BY <1>8, <2>2 DEF Report
  <1>9. CASE Publish
    BY <1>9, PutTyped DEF Publish, AfterLast, Polling
  <1>10. CASE PublishFails
    BY <1>10, PutTyped, Blanks DEF PublishFails, AfterFailure, AfterWindow, Stores
  <1>11. CASE MarketPublishFails
    BY <1>11 DEF MarketPublishFails
  <1>12. ASSUME NewProcess PROVE Typed'
    BY <1>12, Blanks DEF NewProcess, Commands, Stores
  <1>13. CASE Tick
    BY <1>13, AccountAssumption DEF Tick, Times
  <1>14. CASE UNCHANGED vars
    BY <1>14 DEF vars
  <1> QED
    BY <1>1, <1>2, <1>3, <1>4, <1>5, <1>6, <1>7, <1>8, <1>9, <1>10, <1>11, <1>12, <1>13, <1>14
    DEF Next, Poll, Restart, Kill

\* The rows and the memory of the feed keep their types, and the process has
\* something to publish exactly while it says so (cli.ts, accountStateStore.ts).
THEOREM TypeCorrect == Spec => []TypeOK
  <1>1. Typed => TypeOK
    BY DEF Typed
  <1> QED BY <1>1, InitTyped, TypedStep, PTL DEF Spec

-----------------------------------------------------------------------------
(* The list of envelopes: what goes out first, and what is left after it. *)

LEMMA Unsent ==
  ASSUME Typed, unsent # <<>>
  PROVE  /\ 1 \in DOMAIN unsent /\ Head(unsent) = unsent[1]
         /\ Len(unsent) \in Nat /\ DOMAIN unsent = 1 .. Len(unsent)
         /\ DOMAIN Tail(unsent) = 1 .. Len(unsent) - 1
         /\ \A i \in DOMAIN Tail(unsent) :
              i + 1 \in DOMAIN unsent /\ Tail(unsent)[i] = unsent[i + 1]
         /\ \A i \in DOMAIN unsent : unsent[i] \in Wire
  BY DEF Typed

LEMMA EnvelopesShape ==
  ASSUME Typed, pc = "fetch", answers.open = {}
  PROVE  /\ 1 \in DOMAIN Envelopes /\ Envelopes[1] = AccountEnvelope
         /\ \A i \in DOMAIN Envelopes \ {1} :
              \/ /\ i = 2 /\ ~Polling
                 /\ Envelopes[i] = Envelope("health", HealthOf(Applied, stamp))
              \/ Envelopes[i].key \in Events /\ Envelopes[i].value.ts = stamp
         /\ Polling => \A k \in DOMAIN answers.held :
              \E j \in DOMAIN Envelopes : Envelopes[j].key = EventOf[answers.held[k]]
  <1> DEFINE rest == PositionEnvelopes
             n == Len(answers.held)
  <1>1. answers.held \in Seq(Contracts) /\ n \in Nat /\ DOMAIN answers.held = 1 .. n
    BY AccountAssumption DEF Typed, TypeOK
  <1>2. /\ rest \in Seq(Wire) /\ DOMAIN rest = 1 .. n /\ Len(rest) = n
        /\ \A k \in 1 .. n : rest[k].key = EventOf[answers.held[k]]
                             /\ rest[k].key \in Events /\ rest[k].value.ts = stamp
    <2>1. \A k \in 1 .. n :
            rest[k] = Envelope(EventOf[answers.held[k]],
                               [contract |-> answers.held[k], ts |-> stamp])
      BY <1>1 DEF PositionEnvelopes
    <2>2. \A k \in 1 .. n : EventOf[answers.held[k]] \in Events
      BY <1>1, AccountAssumption
    <2> HIDE DEF rest
    <2>3. \A k \in 1 .. n : /\ rest[k].key = EventOf[answers.held[k]]
                            /\ rest[k].value.ts = stamp
      <3> SUFFICES ASSUME NEW k \in 1 .. n
                   PROVE  rest[k].key = EventOf[answers.held[k]] /\ rest[k].value.ts = stamp
        OBVIOUS
      <3> DEFINE event == EventOf[answers.held[k]]
                 row == [contract |-> answers.held[k], ts |-> stamp]
      <3>1. row.ts = stamp
        OBVIOUS
      <3>2. rest[k] = [key |-> event, value |-> row]
        BY <2>1 DEF Envelope
      <3> HIDE DEF row
      <3> QED BY <3>1, <3>2
    <2> QED BY <1>1, <2>2, <2>3, PositionsAreWire DEF rest
  <1> HIDE DEF rest
  <1>3. CASE Polling
    <2>1. Envelopes = <<AccountEnvelope>> \o rest
      BY <1>3 DEF Envelopes, rest
    <2>2. /\ DOMAIN Envelopes = 1 .. n + 1 /\ Envelopes[1] = AccountEnvelope
          /\ \A k \in 1 .. n : Envelopes[k + 1] = rest[k]
      BY <1>1, <1>2, <2>1
    <2>3. ASSUME NEW i \in DOMAIN Envelopes \ {1}
          PROVE  Envelopes[i].key \in Events /\ Envelopes[i].value.ts = stamp
      <3>1. i - 1 \in 1 .. n /\ Envelopes[i] = rest[i - 1]
        BY <1>1, <2>2, <2>3
      <3> QED BY <1>2, <3>1
    <2>4. ASSUME NEW k \in DOMAIN answers.held
          PROVE  \E j \in DOMAIN Envelopes : Envelopes[j].key = EventOf[answers.held[k]]
      <3>1. k + 1 \in DOMAIN Envelopes /\ Envelopes[k + 1].key = EventOf[answers.held[k]]
        BY <1>1, <1>2, <2>2
      <3> QED BY <3>1
    <2> QED BY <1>1, <2>2, <2>3, <2>4
  <1>4. CASE ~Polling
    <2> DEFINE own == Envelope("health", HealthOf(Applied, stamp))
    <2>1. Envelopes = <<AccountEnvelope, own>> \o rest
      BY <1>4 DEF Envelopes, rest
    <2> HIDE DEF own
    <2>2. /\ DOMAIN Envelopes = 1 .. n + 2
          /\ Envelopes[1] = AccountEnvelope /\ Envelopes[2] = own
          /\ \A k \in 1 .. n : Envelopes[k + 2] = rest[k]
      BY <1>1, <1>2, <2>1
    <2>3. ASSUME NEW i \in DOMAIN Envelopes \ {1, 2}
          PROVE  Envelopes[i].key \in Events /\ Envelopes[i].value.ts = stamp
      <3>1. i - 2 \in 1 .. n /\ Envelopes[i] = rest[i - 2]
        BY <1>1, <2>2, <2>3
      <3> QED BY <1>2, <3>1
    <2> QED BY <1>1, <1>4, <2>2, <2>3 DEF own
  <1> QED BY <1>3, <1>4

-----------------------------------------------------------------------------
(* The order of what is published. *)

LEMMA NoneUnsent ==
  ASSUME unsent' = <<>>
  PROVE  Order' /\ ~AccountIsNext' /\ DOMAIN unsent' = {}
  BY DEF Order, AccountIsNext

LEMMA OrderStep == Typed /\ Order /\ [Next]_vars => Order'
  <1> SUFFICES ASSUME Typed, Order, [Next]_vars PROVE Order'
    OBVIOUS
  <1> USE DEF IsAccount, IsHealth, Polling
  <1>1. CASE UNCHANGED <<command, unsent>>
    BY <1>1 DEF Order
  <1>2. CASE Apply
    <2>1. pc = "fetch" /\ answers.open = {} /\ unsent' = Envelopes /\ command' = command
      BY <1>2 DEF Apply
    <2>2. AccountEnvelope.key = "account"
      BY DEF AccountEnvelope, Envelope
    <2>3. /\ Envelope("health", HealthOf(Applied, stamp)).key = "health"
          /\ Envelope("health", HealthOf(Applied, stamp)).value.command = command
      BY DEF Envelope, HealthOf
    <2> QED BY <2>1, <2>2, <2>3, EnvelopesShape, AccountAssumption DEF Order
  <1>3. CASE Report
    <2> DEFINE own == Envelope("health", HealthOf(store, clock))
    <2>1. own.key = "health" /\ own.value.command = command
      BY DEF Envelope, HealthOf
    <2> HIDE DEF own
    <2>2. unsent' = <<own>> /\ command' = command
      BY <1>3 DEF Report, own
    <2> QED BY <2>1, <2>2 DEF Order
  <1>4. CASE Publish
    <2>1. unsent # <<>> /\ unsent' = Tail(unsent) /\ command' = command
      BY <1>4 DEF Publish
    <2> QED BY <2>1, Unsent DEF Order
  <1>5. CASE PublishFails \/ NewProcess
    BY <1>5, NoneUnsent DEF PublishFails, NewProcess
  <1> QED
    BY <1>1, <1>2, <1>3, <1>4, <1>5
    DEF Next, Poll, Restart, Kill, BuildUniverse, Announce, BeginRefresh, EndWindow, Answer,
        FetchFails, MarketPublishFails, Tick, vars, process

LEMMA PutAccount ==
  ASSUME Typed, Order, unsent # <<>>, Put
  PROVE  /\ AccountIsNext => account' = unsent[1].value /\ account' \in AccountRow
         /\ ~AccountIsNext => account' = account
         /\ IsHealth(1) => health' = unsent[1].value /\ health' \in HealthRow
         /\ ~IsHealth(1) => health' = health
         /\ unsent' = Tail(unsent) => ~AccountIsNext'
  <1>1. /\ Head(unsent) = unsent[1] /\ unsent[1] \in Wire /\ 1 \in DOMAIN unsent
    BY Unsent
  <1>2. unsent' = Tail(unsent) => ~AccountIsNext'
    <2> SUFFICES ASSUME unsent' = Tail(unsent), unsent' # <<>>, unsent'[1].key = "account" PROVE FALSE
      BY DEF AccountIsNext, IsAccount
    <2>1. 1 \in DOMAIN Tail(unsent)
      BY Unsent DEF Typed
    <2> QED BY <2>1, Unsent DEF Order, IsAccount
  <1>3. /\ unsent[1].key = "account" => unsent[1].value \in AccountRow
        /\ unsent[1].key = "health" => unsent[1].value \in HealthRow
    BY <1>1, AccountAssumption DEF Wire
  <1> QED BY <1>1, <1>2, <1>3 DEF Put, AccountIsNext, IsAccount, IsHealth

LEMMA Numbers ==
  ASSUME Typed
  PROVE  /\ clock \in Nat /\ StaleAfter \in Nat /\ Missing \notin Nat
         /\ stamp \in Nat \cup {Missing} /\ answers.read \in Nat \cup {Missing}
         /\ store.last \in Nat \cup {Missing}
         /\ account # Missing => account.read \in Nat
         /\ health # Missing => health.ts \in Nat
         /\ AccountIsNext => unsent[1].value \in AccountRow /\ unsent[1].value.read \in Nat
         /\ \A i \in DOMAIN unsent : IsHealth(i) => unsent[i].value \in HealthRow
                                                    /\ unsent[i].value.ts \in Nat
  <1>1. Times \subseteq Nat /\ Stamp \subseteq Nat \cup {Missing}
    BY AccountAssumption DEF Times, Stamp
  <1>2. AccountIsNext => unsent[1].value \in AccountRow
    BY Unsent, AccountAssumption DEF AccountIsNext, IsAccount, Wire
  <1>3. \A i \in DOMAIN unsent : IsHealth(i) => unsent[i].value \in HealthRow
    BY Unsent, AccountAssumption DEF IsHealth, Wire, Typed
  <1> QED
    BY <1>1, <1>2, <1>3, AccountAssumption, MissingAssumption
    DEF Typed, TypeOK, AccountRow, HealthRow

LEMMA DatedStep == Typed /\ Order /\ Dated /\ [Next]_vars => Dated'
  <1> SUFFICES ASSUME Typed, Order, Dated, [Next]_vars PROVE Dated'
    OBVIOUS
  <1> USE Numbers DEF Dated, AccountIsNext, IsAccount
  <1>1. CASE BuildUniverse \/ Announce
    BY <1>1 DEF BuildUniverse, Announce, table
  <1>2. CASE BeginRefresh
    BY <1>2, Blanks DEF BeginRefresh, table
  <1>3. CASE EndWindow
    BY <1>3, Blanks DEF EndWindow, AfterWindow, table
  <1>4. ASSUME NEW q \in Questions, Answer(q) PROVE Dated'
    <2>1. /\ answers'.read = IF answers.read = Missing THEN clock ELSE answers.read
          /\ pc = "fetch"
          /\ UNCHANGED <<command, pc, stamp, store, unsent, broken, table, clock>>
      BY <1>4 DEF Answer
    <2>2. stamp # Missing
      BY <2>1 DEF Typed
    <2> QED BY <2>1, <2>2 DEF table
  <1>5. CASE FetchFails
    <2>1. /\ store'.last = store.last /\ answers'.read = Missing /\ pc' # "fetch"
          /\ UNCHANGED <<stamp, unsent, table, clock>>
      BY <1>5, Blanks DEF FetchFails, RecordFailure, AfterFailure, Typed, TypeOK
    <2> QED BY <2>1 DEF table
  <1>6. CASE Apply
    <2>1. /\ unsent' = Envelopes /\ answers'.read = Missing /\ pc' = "publish"
          /\ store'.last = stamp /\ answers.open = {} /\ pc = "fetch"
          /\ UNCHANGED <<stamp, table, clock>>
      BY <1>6, Blanks DEF Apply, Applied
    <2>2. answers.read # Missing /\ stamp # Missing
      BY <2>1 DEF Typed, Questions
    <2>3. Envelopes[1].value.read = answers.read
      BY <2>1, EnvelopesShape DEF AccountEnvelope, Envelope
    <2> QED BY <2>1, <2>2, <2>3 DEF table
  <1>7. CASE Report
    <2>1. /\ pc' = "health" /\ pc = "report" /\ unsent'[1].key = "health"
          /\ UNCHANGED <<stamp, answers, store, table, clock>>
      BY <1>7 DEF Report, Envelope
    <2> QED BY <2>1 DEF table
  <1>8. CASE Publish
    <2>1. /\ unsent # <<>> /\ unsent' = Tail(unsent) /\ Put /\ pc' # "fetch" /\ pc # "fetch"
          /\ UNCHANGED <<stamp, answers, store, clock>>
      BY <1>8 DEF Publish, AfterLast, Typed, TypeOK
    <2> QED BY <2>1, PutAccount
  <1>9. CASE PublishFails
    <2>1. /\ unsent # <<>> /\ unsent' = <<>> /\ pc' # "fetch" /\ pc # "fetch"
          /\ stamp' \in {stamp, Missing}
          /\ UNCHANGED <<answers, clock>>
          /\ account' = account \/ Put
      BY <1>9 DEF PublishFails, AfterFailure, AfterWindow, Typed, TypeOK, table
    <2> QED BY <2>1, PutAccount
  <1>10. CASE MarketPublishFails
    BY <1>10 DEF MarketPublishFails, table
  <1>11. ASSUME NewProcess PROVE Dated'
    <2>1. /\ answers'.read = Missing /\ unsent' = <<>> /\ UNCHANGED <<account, clock>>
          /\ (stamp' = Missing /\ pc' # "fetch") \/ stamp' = clock
      BY <1>11, Blanks DEF NewProcess, table
    <2> QED BY <2>1
  <1>12. CASE Tick
    BY <1>12 DEF Tick, process, table
  <1>13. CASE UNCHANGED vars
    BY <1>13 DEF vars, process, table
  <1> QED
    BY <1>1, <1>2, <1>3, <1>4, <1>5, <1>6, <1>7, <1>8, <1>9, <1>10, <1>11, <1>12, <1>13
    DEF Next, Poll, Restart, Kill

-----------------------------------------------------------------------------
(* What is called fresh was fresh. *)

\* A health computed now speaks of what the store was last given.
LEMMA FreshHealth ==
  ASSUME Typed, NEW st \in Stores, NEW t \in Times, ~HealthOf(st, t).stale
  PROVE  /\ HealthOf(st, t).ts = t /\ st.last # Missing
         /\ st.last \in Nat /\ t \in Nat /\ StaleAfter \in Nat
         /\ t - st.last <= StaleAfter
  <1> DEFINE stale == IF st.last = Missing THEN TRUE ELSE t - st.last > StaleAfter
  <1>1. HealthOf(st, t).stale = stale /\ HealthOf(st, t).ts = t
    BY DEF HealthOf
  <1>2. st.last # Missing /\ ~(t - st.last > StaleAfter)
    BY <1>1
  <1> HIDE DEF stale
  <1> QED BY <1>1, <1>2, AccountAssumption DEF Stores, Stamp, Times

LEMMA FreshStep == Typed /\ Order /\ Dated /\ Fresh /\ [Next]_vars => Fresh'
  <1> SUFFICES ASSUME Typed, Order, Dated, Fresh, [Next]_vars PROVE Fresh'
    OBVIOUS
  <1> USE Numbers DEF ReadSince
  <1>1. CASE /\ UNCHANGED <<table, unsent>> /\ store'.last = store.last /\ (broken => broken')
             /\ broken' \in BOOLEAN
    BY <1>1 DEF Fresh, table, AccountIsNext, IsAccount, IsHealth, Typed
  <1>2. CASE Apply
    <2>1. /\ pc = "fetch" /\ answers.open = {} /\ unsent' = Envelopes /\ store' = Applied
          /\ UNCHANGED <<table, broken>>
      BY <1>2 DEF Apply
    <2>2. Envelopes[1] = AccountEnvelope /\ 1 \in DOMAIN Envelopes
      BY <2>1, EnvelopesShape
    <2>3. AccountEnvelope.key = "account" /\ AccountEnvelope.value.read = answers.read
      BY DEF AccountEnvelope, Envelope
    <2>4. AccountIsNext'
      BY <2>1, <2>2, <2>3, EnvelopesAreWire DEF AccountIsNext, IsAccount
    <2>5. ASSUME NEW i \in DOMAIN Envelopes, Envelopes[i].key = "health",
                 ~Envelopes[i].value.stale
          PROVE  i # 1 /\ answers.read >= Envelopes[i].value.ts - StaleAfter
      <3>1. i # 1 /\ Envelopes[i].value = HealthOf(Applied, stamp)
        BY <2>1, <2>2, <2>3, <2>5, EnvelopesShape, AccountAssumption DEF Envelope
      <3>2. stamp \in Times /\ Applied \in Stores
        BY <2>1 DEF Typed, TypeOK, Answers, Applied, Stores, Stamp
      <3>3. HealthOf(Applied, stamp).ts = stamp
        BY DEF HealthOf
      <3>4. answers.read # Missing
        BY <2>1 DEF Typed, Questions
      <3> QED BY <2>5, <3>1, <3>2, <3>3, <3>4 DEF Dated, Times
    <2> QED BY <2>1, <2>2, <2>3, <2>4, <2>5 DEF Fresh, table, IsHealth
  <1>3. CASE Report
    <2> DEFINE own == HealthOf(store, clock)
    <2>1. unsent = <<>>
      BY <1>3 DEF Report, Typed, TypeOK
    <2>2. /\ unsent' = <<Envelope("health", own)>>
          /\ UNCHANGED <<table, store, broken>>
      BY <1>3 DEF Report
    <2>3. ~broken /\ ~own.stale => ReadSince(own.ts - StaleAfter)
      <3>1. store \in Stores /\ clock \in Times
        BY DEF Typed, TypeOK, Stores
      <3>2. ~AccountIsNext
        BY <2>1 DEF AccountIsNext
      <3> QED BY <3>1, <3>2, FreshHealth DEF Fresh
    <2> HIDE DEF own
    <2>4. /\ DOMAIN unsent' = {1} /\ unsent'[1].key = "health" /\ unsent'[1].value = own
      BY <2>2 DEF Envelope
    <2>5. ~AccountIsNext /\ ~AccountIsNext'
      BY <2>1, <2>4 DEF AccountIsNext, IsAccount
    <2> QED BY <2>2, <2>3, <2>4, <2>5 DEF Fresh, table, IsHealth
  <1>4. ASSUME unsent # <<>>, ~broken, Put
        PROVE  /\ health' # Missing /\ ~health'.stale => account' # Missing
                                          /\ account'.read >= health'.ts - StaleAfter
               /\ store.last # Missing => account' # Missing /\ account'.read >= store.last
    <2>1. AccountIsNext \/ IsHealth(1) \/ (account' = account /\ health' = health)
      BY <1>4, PutAccount
    <2> QED BY <1>4, <2>1, PutAccount, Unsent, MissingAssumption
            DEF Fresh, Dated, AccountIsNext, IsAccount, IsHealth
  <1>5. CASE Publish
    <2>1. unsent # <<>> /\ ~broken /\ Put /\ unsent' = Tail(unsent) /\ UNCHANGED <<store, broken>>
      BY <1>5 DEF Publish
    <2>2. ASSUME NEW i \in DOMAIN unsent', unsent'[i].key = "health", ~unsent'[i].value.stale
          PROVE  /\ i = 1
                 /\ account' # Missing /\ account'.read >= unsent'[i].value.ts - StaleAfter
      <3>1. i + 1 \in DOMAIN unsent /\ unsent'[i] = unsent[i + 1] /\ i \in Nat \ {0}
        BY <2>1, Unsent
      <3>2. i = 1 /\ IsAccount(1)
        BY <2>2, <3>1 DEF Order, IsHealth
      <3> QED BY <2>1, <2>2, <3>1, <3>2, PutAccount, MissingAssumption
              DEF Fresh, AccountIsNext, IsAccount, IsHealth
    <2> QED BY <1>4, <2>1, <2>2 DEF Fresh, IsHealth
  <1>6. CASE PublishFails
    <2>1. broken' /\ unsent # <<>> /\ unsent' = <<>> /\ (UNCHANGED table \/ (~broken /\ Put))
      BY <1>6 DEF PublishFails
    <2> QED BY <1>4, <2>1 DEF Fresh, table
  <1>7. ASSUME NewProcess PROVE Fresh'
    BY <1>7, Blanks DEF NewProcess, Fresh, table
  <1>8. CASE FetchFails
    BY <1>1, <1>8 DEF FetchFails, RecordFailure, Typed, TypeOK
  <1> QED
    BY <1>1, <1>2, <1>3, <1>5, <1>6, <1>7, <1>8
    DEF Next, Poll, Restart, Kill, BuildUniverse, Announce, BeginRefresh, EndWindow, Answer,
        MarketPublishFails, Tick, vars, process, Typed

\* A health row that is not stale speaks of an account row that is not older
\* than the tolerance in any of its parts (accountClient.ts:191, cli.ts:83).
THEOREM FreshMeansFresh == Spec => []ReportedFreshWasFresh
  <1>1. Init => Order /\ Dated /\ Fresh
    BY Blanks
    DEF Init, Order, Dated, Fresh, AccountIsNext, Unanswered, FreshStore
  <1>2. Typed /\ Fresh => ReportedFreshWasFresh
    BY DEF Fresh, ReadSince, ReportedFreshWasFresh
  <1> QED
    BY <1>1, <1>2, InitTyped, TypedStep, OrderStep, DatedStep, FreshStep, PTL DEF Spec

-----------------------------------------------------------------------------
(* What is called healthy is in the table. *)

\* The table after one envelope.
LEMMA PutRows ==
  ASSUME Typed, Order, unsent # <<>>, Put
  PROVE  /\ \A e \in Events : IF unsent[1].key = e THEN positions'[e] = unsent[1].value
                              ELSE positions'[e] = positions[e]
         /\ unsent[1].key \in Events => unsent[1].value # Missing /\ ahead' = ahead
         /\ AccountIsNext => ahead'
         /\ unsent[1].key \in {"account", "health"} \cup Events
  <1>1. unsent[1] = Head(unsent) /\ unsent[1] \in Wire
    BY Unsent
  <1> QED BY <1>1, AccountAssumption, MissingAssumption
          DEF Put, Wire, Typed, AccountIsNext, IsAccount

LEMMA InitWhole == Init => Whole
  BY DEF Init, Whole, HealthyRefreshStored, UnderWay

LEMMA WholeFrame ==
  ASSUME Typed, Whole, UNCHANGED <<table, unsent>>,
         pc' = "report" /\ store'.clean /\ ~store'.failed => Stored(store'.last),
         pc' = "publish" => pc = "publish" /\ store'.last = store.last,
         pc' = "health" => pc = "health",
         unsent # <<>> => command' = command
  PROVE  Whole'
  BY DEF Whole, HealthyRefreshStored, UnderWay, Stored, Row, Coming, IsAccount, IsHealth, Polling,
         table, Typed, TypeOK

LEMMA PutKeepsHealthy ==
  ASSUME Typed, Order, Whole, unsent # <<>>, Put
  PROVE  HealthyRefreshStored'
  <1> SUFFICES ASSUME health' # Missing, health'.ok, health'.command # "account-snapshot", ~ahead'
               PROVE  /\ account' # Missing /\ account'.ts = health'.last
                      /\ \A i \in DOMAIN account'.held :
                           /\ positions'[EventOf[account'.held[i]]] # Missing
                           /\ positions'[EventOf[account'.held[i]]].ts = account'.ts
    BY DEF HealthyRefreshStored
  <1>1. ~AccountIsNext
    BY PutRows
  <1>2. unsent[1].key \notin Events
    BY PutRows, PutAccount, AccountAssumption DEF Whole, IsHealth
  <1>3. IsHealth(1) /\ health' = unsent[1].value /\ account' = account
    BY <1>1, <1>2, PutRows, PutAccount DEF AccountIsNext, IsAccount, IsHealth
  <1>4. \A e \in Events : positions'[e] = positions[e]
    BY <1>2, PutRows
  <1>5. Stored(unsent[1].value.last)
    BY <1>3, Unsent DEF Whole, Order, Polling
  <1>6. \A i \in DOMAIN account.held : EventOf[account.held[i]] \in Events
    BY <1>5, AccountAssumption DEF Stored, Typed, TypeOK, AccountRow
  <1> QED BY <1>3, <1>4, <1>5, <1>6 DEF Stored, Row

\* One envelope of a polled refresh less.
LEMMA PutKeepsUnderWay ==
  ASSUME Typed, Order, Whole, Put, pc = "publish", Polling, unsent # <<>>
  PROVE  /\ account' # Missing /\ account'.ts = store.last
         /\ \A i \in DOMAIN account'.held : LET e == EventOf[account'.held[i]] IN
              \/ positions'[e] # Missing /\ positions'[e].ts = store.last
              \/ \E j \in DOMAIN Tail(unsent) : Tail(unsent)[j].key = e
  <1>0. UnderWay /\ 1 \in DOMAIN unsent /\ unsent[1].value.ts = store.last /\ ~IsHealth(1)
    BY Unsent DEF Whole, UnderWay
  <1>1. ASSUME NEW e \in Events, Coming(e), unsent[1].key # e
        PROVE  \E j \in DOMAIN Tail(unsent) : Tail(unsent)[j].key = e
    <2>1. PICK j \in DOMAIN unsent : unsent[j].key = e
      BY <1>1 DEF Coming
    <2>2. j # 1 /\ j - 1 \in DOMAIN Tail(unsent)
      BY <1>1, <2>1, Unsent
    <2>3. Tail(unsent)[j - 1] = unsent[(j - 1) + 1] /\ (j - 1) + 1 = j
      BY <2>1, <2>2, Unsent
    <2> QED BY <2>1, <2>2, <2>3
  <1>2. CASE IsAccount(1)
    <2>1. account' = unsent[1].value /\ account' \in AccountRow
      BY <1>2, PutAccount DEF AccountIsNext
    <2>2. \A i \in DOMAIN account'.held : EventOf[account'.held[i]] \in Events
      BY <2>1, AccountAssumption DEF AccountRow
    <2>3. \A i \in DOMAIN account'.held : Coming(EventOf[account'.held[i]])
      BY <1>0, <1>2, <2>1 DEF UnderWay
    <2> QED BY <1>0, <1>1, <1>2, <2>1, <2>2, <2>3, AccountAssumption, MissingAssumption DEF IsAccount
  <1>3. CASE ~IsAccount(1)
    <2>1. /\ account' = account /\ account # Missing /\ account.ts = store.last
          /\ \A i \in DOMAIN account.held :
               Row(EventOf[account.held[i]], store.last) \/ Coming(EventOf[account.held[i]])
      BY <1>0, <1>3, PutAccount DEF UnderWay, AccountIsNext
    <2>2. \A i \in DOMAIN account.held : EventOf[account.held[i]] \in Events
      BY <2>1, AccountAssumption DEF Typed, TypeOK, AccountRow
    <2>3. unsent[1].key \in Events /\ unsent[1].value # Missing
      BY <1>0, <1>3, PutRows DEF IsAccount, IsHealth
    <2>4. ASSUME NEW e \in Events, Row(e, store.last) \/ Coming(e)
          PROVE  \/ positions'[e] # Missing /\ positions'[e].ts = store.last
                 \/ \E j \in DOMAIN Tail(unsent) : Tail(unsent)[j].key = e
      <3>1. CASE unsent[1].key = e
        BY <1>0, <2>3, <3>1, PutRows
      <3>2. CASE unsent[1].key # e
        BY <1>1, <2>4, <3>2, PutRows DEF Row
      <3> QED BY <3>1, <3>2
    <2> QED BY <2>1, <2>2, <2>4
  <1> QED BY <1>2, <1>3

LEMMA WholeApply == Typed /\ Whole /\ Apply => Whole'
  <1> SUFFICES ASSUME Typed, Whole, Apply PROVE Whole'
    OBVIOUS
  <1>1. /\ pc = "fetch" /\ answers.open = {} /\ pc' = "publish"
        /\ store' = Applied /\ unsent' = Envelopes
        /\ UNCHANGED <<command, table>>
    BY DEF Apply
  <1>2. Applied.last = stamp
    BY DEF Applied
  <1>3. /\ 1 \in DOMAIN Envelopes /\ Envelopes[1].key = "account"
        /\ Envelopes[1].value.ts = stamp /\ Envelopes[1].value.held = answers.held
    BY <1>1, EnvelopesShape DEF AccountEnvelope, Envelope
  <1>4. HealthyRefreshStored'
    BY <1>1 DEF Whole, HealthyRefreshStored, table
  <1>5. Polling => \A i \in DOMAIN Envelopes :
          Envelopes[i].key # "health" /\ Envelopes[i].value.ts = stamp
    BY <1>1, <1>3, EnvelopesShape, AccountAssumption
  <1>6. Polling => \A k \in DOMAIN answers.held :
          \E j \in DOMAIN Envelopes : Envelopes[j].key = EventOf[answers.held[k]]
    BY <1>1, EnvelopesShape
  <1>7. UnderWay'
    BY <1>1, <1>2, <1>3, <1>5, <1>6 DEF UnderWay, Polling, IsHealth, IsAccount, Coming
  <1> QED BY <1>1, <1>3, <1>4, <1>5, <1>7, AccountAssumption DEF Whole, IsHealth, Polling

LEMMA WholeReport == Typed /\ Whole /\ Report => Whole'
  <1> SUFFICES ASSUME Typed, Whole, Report PROVE Whole'
    OBVIOUS
  <1> DEFINE own == HealthOf(store, clock)
  <1>1. own.ok = (store.clean /\ ~store.failed) /\ own.last = store.last
    BY DEF HealthOf
  <1>2. /\ pc = "report" /\ pc' = "health" /\ unsent' = <<Envelope("health", own)>>
        /\ UNCHANGED <<command, store, table>>
    BY DEF Report
  <1> HIDE DEF own
  <1>3. /\ DOMAIN unsent' = {1} /\ Len(unsent') = 1 /\ unsent'[1].key = "health"
        /\ unsent'[1].value.last = store'.last
        /\ unsent'[1].value.ok = (store.clean /\ ~store.failed)
    BY <1>1, <1>2 DEF Envelope
  <1>4. store.clean /\ ~store.failed => Stored(store.last)'
    BY <1>2 DEF Whole, Stored, Row, table
  <1>5. HealthyRefreshStored' /\ UnderWay'
    BY <1>2 DEF Whole, HealthyRefreshStored, UnderWay, table
  <1>6. \A i \in DOMAIN unsent' : unsent'[i].value.ok => Stored(unsent[i].value.last)'
    <2> SUFFICES ASSUME unsent'[1].value.ok PROVE Stored(unsent[1].value.last)'
      BY <1>3
    <2> QED BY <1>3, <1>4 DEF Stored
  <1> QED BY <1>2, <1>3, <1>5, <1>6, AccountAssumption DEF Whole, IsHealth

LEMMA WholePublish == Typed /\ Order /\ Whole /\ Publish => Whole'
  <1> SUFFICES ASSUME Typed, Order, Whole, Publish PROVE Whole'
    OBVIOUS
  <1>1. /\ unsent # <<>> /\ Put /\ unsent' = Tail(unsent)
        /\ pc' = IF Tail(unsent) = <<>> THEN AfterLast ELSE pc
        /\ UNCHANGED <<command, store>>
    BY DEF Publish
  <1>2. HealthyRefreshStored'
    BY <1>1, PutKeepsHealthy
  <1>3. pc' = "publish" => pc = "publish" /\ Tail(unsent) # <<>>
    BY <1>1 DEF AfterLast
  <1>4. pc' = "report" => pc = "publish" /\ Polling /\ Tail(unsent) = <<>>
    BY <1>1 DEF AfterLast, Typed, TypeOK
  <1>5. pc' # "health"
    <2>1. pc = "health" => Tail(unsent) = <<>>
      BY <1>1, Unsent DEF Whole, Typed
    <2> QED BY <1>1, <2>1 DEF AfterLast
  <1>6. ASSUME NEW i \in DOMAIN Tail(unsent)
        PROVE  /\ i + 1 \in DOMAIN unsent /\ Tail(unsent)[i] = unsent[i + 1]
               /\ ~IsAccount(i + 1)
    BY <1>1, Unsent DEF Order
  <1>7. UnderWay'
    <2> SUFFICES ASSUME pc' = "publish", Polling PROVE UnderWay'
      BY <1>1 DEF UnderWay, Polling
    <2>1. pc = "publish" /\ Tail(unsent) # <<>> /\ 1 \in DOMAIN Tail(unsent)
      BY <1>1, <1>3, Unsent
    <2>2. \A i \in DOMAIN unsent : ~IsHealth(i) /\ unsent[i].value.ts = store.last
      BY <2>1 DEF Whole, UnderWay
    <2>3. /\ account' # Missing /\ account'.ts = store.last
          /\ \A i \in DOMAIN account'.held : LET e == EventOf[account'.held[i]] IN
               \/ positions'[e] # Missing /\ positions'[e].ts = store.last
               \/ \E j \in DOMAIN Tail(unsent) : Tail(unsent)[j].key = e
      BY <1>1, <2>1, PutKeepsUnderWay
    <2> QED BY <1>1, <1>6, <2>1, <2>2, <2>3
            DEF UnderWay, IsAccount, IsHealth, Row, Coming
  <1>8. pc' = "report" => Stored(store.last)'
    <2> SUFFICES ASSUME pc' = "report" PROVE Stored(store.last)'
      OBVIOUS
    <2>1. /\ account' # Missing /\ account'.ts = store.last
          /\ \A i \in DOMAIN account'.held : LET e == EventOf[account'.held[i]] IN
               \/ positions'[e] # Missing /\ positions'[e].ts = store.last
               \/ \E j \in DOMAIN Tail(unsent) : Tail(unsent)[j].key = e
      BY <1>1, <1>4, PutKeepsUnderWay
    <2>2. DOMAIN Tail(unsent) = {}
      BY <1>4
    <2> QED BY <1>1, <2>1, <2>2 DEF Stored, Row
  <1>9. \A i \in DOMAIN Tail(unsent) : Tail(unsent)[i].key = "health" => ~Polling
    BY <1>6 DEF Order, IsHealth
  <1>10. Tail(unsent) # <<>> /\ Tail(unsent)[1].key \in Events =>
           ahead' \/ (health' # Missing /\ health'.command = "account-snapshot")
    <2> SUFFICES ASSUME Tail(unsent) # <<>>, ~ahead'
                 PROVE  health' # Missing /\ health'.command = "account-snapshot"
      OBVIOUS
    <2>1. ~AccountIsNext
      BY <1>1, PutRows
    <2>2. CASE unsent[1].key \in Events
      BY <1>1, <2>1, <2>2, PutRows, PutAccount, AccountAssumption DEF Whole, IsHealth
    <2>3. CASE IsHealth(1)
      <3>1. health' = unsent[1].value /\ unsent[1].value \in HealthRow
        BY <1>1, <2>3, Unsent, PutAccount, AccountAssumption DEF IsHealth, Wire
      <3>2. pc = "publish"
        BY <1>1, Unsent DEF Whole, Typed, TypeOK
      <3>3. ~Polling /\ unsent[1].value.command = command
        BY <1>1, <2>3, <3>2, Unsent DEF Whole, UnderWay, Order
      <3> QED BY <3>1, <3>3, MissingAssumption DEF Polling
    <2> QED BY <1>1, <2>1, <2>2, <2>3, PutRows DEF AccountIsNext, IsAccount, IsHealth
  <1> QED BY <1>1, <1>2, <1>5, <1>7, <1>8, <1>9, <1>10 DEF Whole, IsHealth, Polling

LEMMA WholePublishFails == Typed /\ Order /\ Whole /\ PublishFails => Whole'
  <1> SUFFICES ASSUME Typed, Order, Whole, PublishFails PROVE Whole'
    OBVIOUS
  <1>1. /\ unsent # <<>> /\ unsent' = <<>> /\ (UNCHANGED table \/ Put)
        /\ pc' # "publish" /\ pc' # "health" /\ DOMAIN unsent' = {}
    BY DEF PublishFails, AfterFailure, AfterWindow, Typed, TypeOK
  <1>2. HealthyRefreshStored'
    BY <1>1, PutKeepsHealthy DEF Whole, HealthyRefreshStored, table
  <1>3. pc' = "report" => store'.failed
    BY DEF PublishFails, AfterFailure, AfterWindow, RecordFailure, Typed, TypeOK
  <1> QED BY <1>1, <1>2, <1>3 DEF Whole, UnderWay

LEMMA WholeStep == Typed /\ Order /\ Whole /\ [Next]_vars => Whole'
  <1> SUFFICES ASSUME Typed, Order, Whole, [Next]_vars PROVE Whole'
    OBVIOUS
  <1>1. CASE UNCHANGED <<table, unsent, store, command>> /\ pc' \notin {"report", "publish", "health"}
    BY <1>1, WholeFrame DEF table
  <1>2. CASE UNCHANGED <<table, unsent, store, command, pc>>
    <2>1. pc' = "report" /\ store'.clean /\ ~store'.failed => Stored(store'.last)
      BY <1>2 DEF Whole
    <2> QED BY <1>2, <2>1, WholeFrame
  <1>3. CASE FetchFails
    <2>1. pc' = "report" => store'.failed
      BY <1>3 DEF FetchFails, AfterFailure, RecordFailure, Typed, TypeOK
    <2> QED BY <1>3, <2>1, WholeFrame DEF FetchFails, AfterFailure
  <1>4. ASSUME NewProcess PROVE Whole'
    BY <1>4 DEF NewProcess, Whole, HealthyRefreshStored, UnderWay, FreshStore, table
  <1> QED
    BY <1>1, <1>2, <1>3, <1>4, WholeApply, WholeReport, WholePublish, WholePublishFails
    DEF Next, Poll, Restart, Kill, BuildUniverse, Announce, BeginRefresh, EndWindow, AfterWindow,
        Answer, MarketPublishFails, Tick, vars, process

\* A health row without issues speaks of a refresh that is in the table whole,
\* whatever failed, was killed or started again on the way (cli.ts, the polling
\* loop and its publisher).
THEOREM HealthyIsStored == Spec => []HealthyRefreshStored
  <1>1. Init => Order
    BY DEF Init, Order
  <1>2. Whole => HealthyRefreshStored
    BY DEF Whole
  <1> QED
    BY <1>1, <1>2, InitTyped, InitWhole, TypedStep, OrderStep, WholeStep, PTL DEF Spec

=============================================================================
