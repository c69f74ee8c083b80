-------------------------- MODULE MarketFeedProofs --------------------------
(***************************************************************************)
(* Proofs about MarketFeed, for any contracts, universes, streams and      *)
(* times.                                                                  *)
(***************************************************************************)
EXTENDS MarketFeed, FiniteSetTheorems, SequenceTheorems, TLAPS

-----------------------------------------------------------------------------
(* The inductive invariant. *)

Users == Streams \cup {Loop}
Windows == Universes \cup {{}}
Envelope == [key : Contracts, value : Times] \cup [key : {Health}, value : HealthRow]
Payload == [event : Events \cup {Garbage}, ts : Times]
Books == UNION {[assets -> Stamp] : assets \in Windows}

StreamState ==
  [socket : {"none", "connecting", "open", "closed", "reporting"},
   settled : {"no", "resolved", "rejected"},
   inbox : Seq(Payload), books : Books, latest : Stamp, unsent : Seq(Envelope)]

Typed ==
  /\ pc \in {"universe", "publish", "connect", "streaming", "ended"}
  /\ tracked \in Windows /\ current \in Streams \cup {Missing}
  /\ pc = "streaming" <=> current # Missing
  /\ stream \in [Streams -> StreamState]
  /\ queue \in Seq(Users)
  /\ rows \in [Contracts \cup {Health} -> Stamp \cup HealthRow]
  /\ rows[Health] \in HealthRow \cup {Missing}
  /\ \A c \in Contracts : rows[c] \in Stamp
  /\ clock \in Times /\ broken \in BOOLEAN /\ disturbed \in BOOLEAN

\* A queue in which those of a set wait, each in one place.
Holds(waiting, those) ==
  /\ \A a \in Users : (\E i \in DOMAIN waiting : waiting[i] = a) <=> a \in those
  /\ \A i, j \in DOMAIN waiting : waiting[i] = waiting[j] => i = j

\* Who has something to publish waits for it.
Waiting ==
  {s \in Streams : stream[s].unsent # <<>>} \cup {a \in {Loop} : pc = "publish"}

Queued == Holds(queue, Waiting)

\* The health comes when all else is out, and says what the stream has seen.
Says(row, st) == row.latest = st.latest /\ row.observed = Cardinality(Observed(st))

Orderly(st) ==
  /\ st.socket \in {"none", "connecting"} => st.inbox = <<>> /\ st.unsent = <<>>
  /\ IF st.socket = "reporting"
     THEN /\ st.inbox = <<>> /\ Len(st.unsent) = 1
          /\ st.unsent[1].key = Health /\ Says(st.unsent[1].value, st)
     ELSE \A j \in DOMAIN st.unsent : st.unsent[j].key \in Contracts

\* Nothing bears a time that has not come.
Dated(st) ==
  /\ \A i \in DOMAIN st.inbox : st.inbox[i].ts <= clock
  /\ \A j \in DOMAIN st.unsent : st.unsent[j].key \in Contracts => st.unsent[j].value <= clock

RowsDated == \A c \in Contracts : rows[c] # Missing => rows[c] <= clock

\* What is still to come is no older than the rows, and comes oldest first.
Forward(st) ==
  /\ \A i, j \in DOMAIN st.inbox : i <= j => st.inbox[i].ts <= st.inbox[j].ts
  /\ \A j \in DOMAIN st.unsent : st.unsent[j].key \in Contracts =>
       /\ \A k \in DOMAIN st.unsent :
            st.unsent[k].key \in Contracts => st.unsent[k].value = st.unsent[j].value
       /\ \A i \in DOMAIN st.inbox : st.unsent[j].value <= st.inbox[i].ts
       /\ \A c \in Contracts : rows[c] # Missing => rows[c] <= st.unsent[j].value
  /\ \A i \in DOMAIN st.inbox : \A c \in Contracts :
       rows[c] # Missing => rows[c] <= st.inbox[i].ts

\* What a stream has observed is in the rows or still to come.
Told(st) ==
  /\ \A c \in Observed(st) :
       \/ rows[c] = st.books[c]
       \/ \E j \in DOMAIN st.unsent : st.unsent[j].key = c
  /\ \A j \in DOMAIN st.unsent : st.unsent[j].key \in Contracts =>
       st.unsent[j].key \in DOMAIN st.books /\ st.unsent[j].value = st.books[st.unsent[j].key]

\* A window is not over well before its health is published.
Closed(st) ==
  /\ st.settled # "rejected"
  /\ st.settled = "resolved" =>
       st.socket = "none" /\ rows[Health] # Missing /\ Says(rows[Health], st)

Sound(st) == Forward(st) /\ Told(st) /\ Closed(st)

\* Until a stream is rejected, the one awaited is the only one there is.
Undisturbed ==
  \A s \in Streams : Sound(stream[s]) /\ (s # current => stream[s] = Idle)

IInv ==
  /\ Typed /\ Queued /\ RowsDated
  /\ \A s \in Streams : Orderly(stream[s]) /\ Dated(stream[s])
  /\ ~disturbed => Undisturbed

-----------------------------------------------------------------------------
(* Sets and sequences. *)

\* A finite set in turn: every element has its place.
LEMMA InTurn ==
  ASSUME NEW S, IsFiniteSet(S)
  PROVE  /\ Cardinality(S) \in Nat
         /\ SetToSeq(S) \in [1 .. Cardinality(S) -> S]
         /\ \A x \in S : \E i \in 1 .. Cardinality(S) : SetToSeq(S)[i] = x
  <1> DEFINE n == Cardinality(S)
             f == SetToSeq(S)
  <1>1. n \in Nat /\ ExistsBijection(1 .. n, S)
    BY FS_CardinalityType
  <1>2. \E g \in [1 .. n -> S] : IsInjective(g)
    BY <1>1 DEF ExistsBijection, Bijection, Injection, IsInjective
  <1>3. f \in [1 .. n -> S] /\ IsInjective(f)
    BY <1>2 DEF SetToSeq
  <1>4. f \in Injection(1 .. n, S)
    BY <1>3 DEF Injection
  <1>5. IsFiniteSet(1 .. n) /\ Cardinality(1 .. n) = n
    BY <1>1, FS_Interval
  <1>6. f \in Surjection(1 .. n, S)
    BY <1>1, <1>4, <1>5, FS_Injection
  <1> QED BY <1>1, <1>3, <1>6 DEF Surjection

\* The first of a sequence taken out leaves its tail.
LEMMA RemoveFirstIsTail ==
  ASSUME NEW S, NEW seq \in Seq(S), seq # <<>>
  PROVE  RemoveAt(seq, 1) = Tail(seq)
  <1>1. SubSeq(seq, 1, 1 - 1) = <<>>
    BY SubSeqEmpty
  <1>2. Tail(seq) = SubSeq(seq, 1 + 1, Len(seq)) /\ Tail(seq) \in Seq(S)
    BY TailIsSubSeq, HeadTailProperties
  <1>3. RemoveAt(seq, 1) = <<>> \o Tail(seq)
    BY <1>1, <1>2 DEF RemoveAt
  <1> QED BY <1>2, <1>3, ConcatEmptySeq

LEMMA HoldsAppend ==
  ASSUME NEW waiting \in Seq(Users), NEW those, Holds(waiting, those),
         NEW a \in Users, a \notin those
  PROVE  /\ Append(waiting, a) \in Seq(Users)
         /\ Holds(Append(waiting, a), those \cup {a})
  <1>1. PICK after : after = Append(waiting, a)
    OBVIOUS
  <1>2. /\ after \in Seq(Users) /\ Len(after) = Len(waiting) + 1 /\ Len(waiting) \in Nat
        /\ \A i \in 1 .. Len(waiting) : after[i] = waiting[i]
        /\ after[Len(waiting) + 1] = a
        /\ DOMAIN after = 1 .. Len(after) /\ DOMAIN waiting = 1 .. Len(waiting)
    BY <1>1
  <1>3. \A i \in DOMAIN waiting : waiting[i] # a
    BY DEF Holds
  <1>4. \A i \in DOMAIN after : i \in DOMAIN waiting \/ i = Len(waiting) + 1
    BY <1>2
  <1>5. \A i, j \in DOMAIN after : after[i] = after[j] => i = j
    BY <1>2, <1>3, <1>4 DEF Holds
  <1>6. \A b \in Users : (\E i \in DOMAIN after : after[i] = b) <=> b \in those \cup {a}
    BY <1>2, <1>4 DEF Holds
  <1> QED BY <1>1, <1>2, <1>5, <1>6 DEF Holds

LEMMA HoldsTail ==
  ASSUME NEW waiting \in Seq(Users), NEW those, Holds(waiting, those), waiting # <<>>
  PROVE  /\ Head(waiting) \in Users /\ Head(waiting) \in those
         /\ Tail(waiting) \in Seq(Users)
         /\ Holds(Tail(waiting), those \ {Head(waiting)})
  <1>1. PICK after, first : after = Tail(waiting) /\ first = Head(waiting)
    OBVIOUS
  <1>2. /\ after \in Seq(Users) /\ Len(after) = Len(waiting) - 1 /\ Len(waiting) \in Nat
        /\ Len(waiting) >= 1
        /\ \A i \in 1 .. Len(after) : after[i] = waiting[i + 1]
        /\ first = waiting[1] /\ first \in Users
        /\ DOMAIN after = 1 .. Len(after) /\ DOMAIN waiting = 1 .. Len(waiting)
    BY <1>1
  <1>3. \A i \in DOMAIN waiting : i = 1 \/ (i - 1 \in DOMAIN after /\ after[i - 1] = waiting[i])
    BY <1>2
  <1>4. \A i \in DOMAIN after : i + 1 \in DOMAIN waiting /\ i + 1 # 1
    BY <1>2
  <1>5. \A i, j \in DOMAIN after : after[i] = after[j] => i = j
    <2> TAKE i, j \in DOMAIN after
    <2>1. after[i] = after[j] => i + 1 = j + 1
      BY <1>2, <1>4 DEF Holds
    <2> QED BY <1>2, <2>1
  <1>6. first \in those
    BY <1>2 DEF Holds
  <1>7. \A b \in Users : (\E i \in DOMAIN after : after[i] = b) => b \in those \ {first}
    <2> SUFFICES ASSUME NEW b \in Users, NEW i \in DOMAIN after, after[i] = b
                 PROVE  b \in those \ {first}
      OBVIOUS
    <2>1. waiting[i + 1] = b /\ i + 1 \in DOMAIN waiting /\ i + 1 # 1
      BY <1>2, <1>4
    <2>2. 1 \in DOMAIN waiting
      BY <1>2
    <2> QED BY <1>2, <2>1, <2>2 DEF Holds
  <1>8. \A b \in those \ {first} : b \in Users => \E i \in DOMAIN after : after[i] = b
    <2> SUFFICES ASSUME NEW b \in those \ {first}, b \in Users
                 PROVE  \E i \in DOMAIN after : after[i] = b
      OBVIOUS
    <2>1. PICK i \in DOMAIN waiting : waiting[i] = b
      BY DEF Holds
    <2>2. i # 1
      BY <1>2, <2>1
    <2> QED BY <1>3, <2>1, <2>2
  <1> QED BY <1>1, <1>2, <1>5, <1>6, <1>7, <1>8 DEF Holds

\* The queue as TypeOK counts it.
LEMMA HoldsOnce ==
  ASSUME NEW waiting, NEW those, Holds(waiting, those), NEW a \in Users
  PROVE  Cardinality({i \in DOMAIN waiting : waiting[i] = a}) = IF a \in those THEN 1 ELSE 0
  <1>1. CASE a \in those
    <2>1. PICK i \in DOMAIN waiting : waiting[i] = a
      BY <1>1 DEF Holds
    <2>2. {j \in DOMAIN waiting : waiting[j] = a} = {i}
      BY <2>1 DEF Holds
    <2> QED BY <1>1, <2>2, FS_Singleton
  <1>2. CASE a \notin those
    <2>1. {j \in DOMAIN waiting : waiting[j] = a} = {}
      BY <1>2 DEF Holds
    <2> QED BY <1>2, <2>1, FS_EmptySet
  <1> QED BY <1>1, <1>2

-----------------------------------------------------------------------------
(* Streams. *)

LEMMA StreamFacts ==
  ASSUME NEW st \in StreamState
  PROVE  /\ st.inbox \in Seq(Payload) /\ Len(st.inbox) \in Nat
         /\ DOMAIN st.inbox = 1 .. Len(st.inbox)
         /\ st.unsent \in Seq(Envelope) /\ Len(st.unsent) \in Nat
         /\ DOMAIN st.unsent = 1 .. Len(st.unsent)
         /\ st.latest \in Stamp
         /\ st.books \in Books /\ st.books \in [DOMAIN st.books -> Stamp]
         /\ DOMAIN st.books \in Windows /\ DOMAIN st.books \subseteq Contracts
         /\ IsFiniteSet(DOMAIN st.books)
         /\ Observed(st) \subseteq DOMAIN st.books
         /\ IsFiniteSet(Observed(st)) /\ Cardinality(Observed(st)) \in Nat
  <1>1. st.inbox \in Seq(Payload) /\ st.unsent \in Seq(Envelope) /\ st.latest \in Stamp
        /\ st.books \in Books
    BY DEF StreamState
  <1>2. PICK assets \in Windows : st.books \in [assets -> Stamp]
    BY <1>1 DEF Books
  <1>3. DOMAIN st.books = assets
    BY <1>2
  <1>4. assets \subseteq Contracts /\ IsFiniteSet(assets)
    BY FeedAssumption, FS_EmptySet DEF Windows
  <1>5. Observed(st) \subseteq DOMAIN st.books
    BY DEF Observed
  <1>6. IsFiniteSet(Observed(st))
    BY <1>3, <1>4, <1>5, FS_Subset
  <1>7. Cardinality(Observed(st)) \in Nat
    BY <1>6, FS_CardinalityType
  <1>8. Len(st.inbox) \in Nat /\ DOMAIN st.inbox = 1 .. Len(st.inbox)
        /\ Len(st.unsent) \in Nat /\ DOMAIN st.unsent = 1 .. Len(st.unsent)
    BY <1>1, LenProperties
  <1> QED BY <1>1, <1>2, <1>3, <1>4, <1>5, <1>6, <1>7, <1>8

LEMMA Items ==
  ASSUME NEW st \in StreamState
  PROVE  /\ \A i \in DOMAIN st.inbox : st.inbox[i] \in Payload /\ st.inbox[i].ts \in Nat
         /\ \A j \in DOMAIN st.unsent :
              /\ st.unsent[j] \in Envelope
              /\ st.unsent[j].key \in Contracts =>
                   st.unsent[j].value \in Times /\ st.unsent[j].value \in Nat
              /\ st.unsent[j].key = Health => st.unsent[j].value \in HealthRow
              /\ st.unsent[j].key \in Contracts \cup {Health}
  <1>1. /\ st.inbox \in Seq(Payload) /\ DOMAIN st.inbox = 1 .. Len(st.inbox)
        /\ st.unsent \in Seq(Envelope) /\ DOMAIN st.unsent = 1 .. Len(st.unsent)
    BY StreamFacts
  <1>2. \A i \in DOMAIN st.inbox : st.inbox[i] \in Payload
    BY <1>1, ElementOfSeq
  <1>3. \A j \in DOMAIN st.unsent : st.unsent[j] \in Envelope
    BY <1>1, ElementOfSeq
  <1>4. \A x \in Times : x \in Nat
    BY FeedAssumption DEF Times
  <1> QED BY <1>2, <1>3, <1>4, FeedAssumption DEF Payload, Envelope

LEMMA IdleFacts ==
  /\ Idle \in StreamState
  /\ Idle.socket = "none" /\ Idle.settled = "no"
  /\ Idle.inbox = <<>> /\ Idle.unsent = <<>>
  /\ DOMAIN Idle.inbox = {} /\ DOMAIN Idle.unsent = {}
  /\ Observed(Idle) = {}
  <1>1. [c \in {} |-> Missing] \in Books
    BY DEF Books, Windows
  <1> QED BY <1>1 DEF Idle, StreamState, Stamp, Observed

LEMMA FreshFacts ==
  ASSUME NEW assets \in Windows
  PROVE  /\ Fresh(assets) \in StreamState
         /\ Fresh(assets).socket = "connecting" /\ Fresh(assets).settled = "no"
         /\ Fresh(assets).inbox = <<>> /\ Fresh(assets).unsent = <<>>
         /\ DOMAIN Fresh(assets).inbox = {} /\ DOMAIN Fresh(assets).unsent = {}
         /\ Observed(Fresh(assets)) = {}
  <1>1. PICK books : books = [c \in assets |-> Missing]
    OBVIOUS
  <1>2. books \in Books /\ DOMAIN books = assets /\ \A c \in assets : books[c] = Missing
    BY <1>1 DEF Books, Stamp
  <1>3. Fresh(assets) = [socket |-> "connecting", settled |-> "no", inbox |-> <<>>,
                         books |-> books, latest |-> Missing, unsent |-> <<>>]
    <2>1. PICK none : none = [c \in {} |-> Missing]
      OBVIOUS
    <2>2. PICK idle : idle = Idle
      OBVIOUS
    <2>3. idle = [socket |-> "none", settled |-> "no", inbox |-> <<>>,
                  books |-> none, latest |-> Missing, unsent |-> <<>>]
      BY <2>1, <2>2 DEF Idle
    <2>4. Fresh(assets) = [idle EXCEPT !.socket = "connecting", !.books = books]
      BY <1>1, <2>2 DEF Fresh
    <2> QED BY <2>3, <2>4
  <1> QED BY <1>2, <1>3 DEF StreamState, Stamp, Observed

\* A stream with nothing received, observed or to be published keeps all of it.
Empty(st) ==
  /\ st.socket \in {"none", "connecting"} /\ st.settled = "no"
  /\ st.inbox = <<>> /\ st.unsent = <<>>
  /\ DOMAIN st.inbox = {} /\ DOMAIN st.unsent = {}
  /\ Observed(st) = {}

LEMMA EmptyKeeps ==
  ASSUME NEW st, Empty(st)
  PROVE  /\ Orderly(st) /\ Dated(st) /\ Sound(st)
         /\ Dated(st)' /\ Sound(st)'
  BY DEF Empty, Orderly, Dated, Sound, Forward, Told, Closed

LEMMA SettledFacts ==
  ASSUME NEW st \in StreamState, NEW result \in {"no", "resolved", "rejected"}
  PROVE  /\ Settled(st, result) \in StreamState
         /\ Settled(st, result).settled = IF st.settled = "no" THEN result ELSE st.settled
         /\ Settled(st, result).socket = st.socket
         /\ Settled(st, result).inbox = st.inbox /\ Settled(st, result).unsent = st.unsent
         /\ Settled(st, result).books = st.books /\ Settled(st, result).latest = st.latest
  BY DEF Settled, StreamState

-----------------------------------------------------------------------------
(* One stream moves. *)

LEMMA Parts ==
  ASSUME IInv, NEW s \in Streams
  PROVE  /\ stream[s] \in StreamState /\ Orderly(stream[s]) /\ Dated(stream[s])
         /\ ~disturbed => Sound(stream[s]) /\ (s # current => stream[s] = Idle)
         /\ s # Loop /\ s \in Users /\ Loop \in Users
         /\ s \in Waiting <=> stream[s].unsent # <<>>
         /\ Loop \in Waiting <=> pc = "publish"
  BY FeedAssumption DEF IInv, Typed, Undisturbed, Waiting, Users

\* The queue when a stream has as much to publish as before, or begins to.
LEMMA QueueStays ==
  ASSUME IInv, NEW s \in Streams, NEW new \in StreamState,
         stream' = [stream EXCEPT ![s] = new], pc' = pc, queue' = queue,
         new.unsent = <<>> <=> stream[s].unsent = <<>>
  PROVE  queue' \in Seq(Users) /\ Queued'
  <1>1. Waiting' = Waiting
    BY DEF Waiting, IInv, Typed
  <1> QED BY <1>1 DEF Queued, IInv, Typed, Holds

LEMMA QueueJoined ==
  ASSUME IInv, NEW s \in Streams, NEW new \in StreamState,
         stream' = [stream EXCEPT ![s] = new], pc' = pc, queue' = Append(queue, s),
         stream[s].unsent = <<>>, new.unsent # <<>>
  PROVE  queue' \in Seq(Users) /\ Queued'
  <1>1. Waiting' = Waiting \cup {s}
    BY DEF Waiting, IInv, Typed
  <1>2. s \in Users /\ s \notin Waiting
    BY Parts
  <1>3. PICK q, w : q = queue /\ w = Waiting
    OBVIOUS
  <1>4. q \in Seq(Users) /\ Holds(q, w)
    BY <1>3 DEF IInv, Typed, Queued
  <1>5. Append(q, s) \in Seq(Users) /\ Holds(Append(q, s), w \cup {s})
    BY <1>2, <1>3, <1>4, HoldsAppend
  <1> QED BY <1>1, <1>3, <1>5 DEF Queued, Holds

\* The rows are left alone.
LEMMA MoveOne ==
  ASSUME IInv, NEW s \in Streams, NEW new \in StreamState,
         stream' = [stream EXCEPT ![s] = new], Orderly(new), Dated(new),
         stream[s].socket # "none",
         ~disturbed /\ new.settled # "rejected" /\ Sound(stream[s]) => Sound(new),
         queue' \in Seq(Users), Queued',
         UNCHANGED <<pc, tracked, current, broken, rows, clock>>, Note
  PROVE  IInv'
  <1>1. /\ stream' \in [Streams -> StreamState]
        /\ stream'[s] = new /\ \A t \in Streams : t # s => stream'[t] = stream[t]
    BY DEF IInv, Typed
  <1>2. Typed'
    BY <1>1 DEF IInv, Typed, Note
  <1>3. RowsDated'
    BY DEF IInv, RowsDated
  <1>4. \A t \in Streams : Orderly(stream[t])' /\ Dated(stream[t])'
    <2> SUFFICES ASSUME NEW t \in Streams
                 PROVE  Orderly(stream[t])' /\ Dated(stream[t])'
      OBVIOUS
    <2>1. PICK after : after = stream'[t]
      OBVIOUS
    <2>2. Orderly(after) /\ Dated(after)
      BY <1>1, <2>1, Parts
    <2>3. Dated(stream[t])'
      BY <2>1, <2>2 DEF Dated
    <2>4. Orderly(stream[t])'
      BY <2>1, <2>2 DEF Orderly, Says, Observed
    <2> QED BY <2>3, <2>4
  <1>5. ASSUME ~disturbed' PROVE Undisturbed'
    <2>1. ~disturbed /\ new.settled # "rejected"
      BY <1>1, <1>5 DEF Note, IInv, Typed
    <2>2. s = current
      BY <2>1, Parts, IdleFacts
    <2>3. ASSUME NEW t \in Streams
          PROVE  Sound(stream[t])' /\ (t # current => stream[t] = Idle)'
      <3>1. PICK after : after = stream'[t]
        OBVIOUS
      <3>2. Sound(after) /\ (t # current => after = Idle)
        BY <1>1, <2>1, <2>2, <3>1, Parts
      <3>3. Forward(stream[t])'
        BY <3>1, <3>2 DEF Sound, Forward
      <3>4. Told(stream[t])'
        BY <3>1, <3>2 DEF Sound, Told, Observed
      <3>5. Closed(stream[t])'
        BY <3>1, <3>2 DEF Sound, Closed, Says, Observed
      <3> QED BY <3>1, <3>2, <3>3, <3>4, <3>5 DEF Sound
    <2> QED BY <2>3 DEF Undisturbed
  <1> QED BY <1>2, <1>3, <1>4, <1>5 DEF IInv

-----------------------------------------------------------------------------
(* The steps of a stream. *)

LEMMA SocketStep ==
  ASSUME IInv, NEW s \in Streams,
         \/ Open(s) \/ SocketError(s) \/ TimerClose(s) \/ ServerClose(s)
  PROVE  IInv'
  <1>1. PICK st : st = stream[s]
    OBVIOUS
  <1>2. st \in StreamState /\ Orderly(st) /\ Dated(st)
    BY <1>1, Parts
  <1>3. PICK socket \in {"open", "closed"}, result \in {"no", "rejected"} :
          /\ st.socket \in {"connecting", "open"}
          /\ stream' = [stream EXCEPT ![s] = Settled([st EXCEPT !.socket = socket], result)]
    <2>1. CASE Open(s)
      <3>1. [st EXCEPT !.socket = "open"] \in StreamState
        BY <1>2 DEF StreamState
      <3>2. Settled([st EXCEPT !.socket = "open"], "no") = [st EXCEPT !.socket = "open"]
        BY <3>1 DEF Settled, StreamState
      <3> QED BY <1>1, <2>1, <3>2 DEF Open, IInv, Typed
    <2>2. CASE SocketError(s)
      BY <1>1, <2>2 DEF SocketError
    <2>3. CASE TimerClose(s) \/ ServerClose(s)
      <3>1. [st EXCEPT !.socket = "closed"] \in StreamState
        BY <1>2 DEF StreamState
      <3>2. Settled([st EXCEPT !.socket = "closed"], "no") = [st EXCEPT !.socket = "closed"]
        BY <3>1 DEF Settled, StreamState
      <3> QED BY <1>1, <2>3, <3>2 DEF TimerClose, ServerClose, IInv, Typed
    <2> QED BY <2>1, <2>2, <2>3
  <1>4. PICK mid : mid = [st EXCEPT !.socket = socket]
    OBVIOUS
  <1>5. /\ mid \in StreamState /\ mid.socket = socket
        /\ mid.inbox = st.inbox /\ mid.unsent = st.unsent /\ mid.books = st.books
        /\ mid.latest = st.latest /\ mid.settled = st.settled
    BY <1>2, <1>4 DEF StreamState
  <1>6. PICK new : new = Settled(mid, result)
    OBVIOUS
  <1>7. /\ new \in StreamState /\ new.socket = socket
        /\ new.inbox = st.inbox /\ new.unsent = st.unsent /\ new.books = st.books
        /\ new.latest = st.latest
        /\ new.settled = IF st.settled = "no" THEN result ELSE st.settled
    BY <1>5, <1>6, SettledFacts
  <1>8. Orderly(new) /\ Dated(new)
    BY <1>2, <1>3, <1>7 DEF Orderly, Dated
  <1>9. new.settled # "rejected" /\ Sound(st) => Sound(new)
    BY <1>3, <1>7 DEF Sound, Forward, Told, Closed, Observed
  <1>10. UNCHANGED <<pc, tracked, current, queue, broken, rows, clock>> /\ Note
    BY DEF Open, SocketError, TimerClose, ServerClose, environment
  <1>11. stream' = [stream EXCEPT ![s] = new]
    BY <1>3, <1>4, <1>6
  <1>12. queue' \in Seq(Users) /\ Queued'
    BY <1>1, <1>7, <1>10, <1>11, QueueStays
  <1> QED BY <1>1, <1>3, <1>7, <1>8, <1>9, <1>10, <1>11, <1>12, MoveOne

\* What is received bears the time of now, which is later than all before it.
LEMMA ReceiveStep ==
  ASSUME IInv, NEW s \in Streams, NEW payload \in Events \cup {Garbage}, Receive(s, payload)
  PROVE  IInv'
  <1>1. PICK st, now, in : /\ st = stream[s] /\ now = clock
                           /\ in = [event |-> payload, ts |-> now]
    OBVIOUS
  <1>2. st \in StreamState /\ Orderly(st) /\ Dated(st)
    BY <1>1, Parts
  <1>3. in \in Payload /\ in.ts = now /\ now \in Times /\ now \in Nat
    BY <1>1, FeedAssumption DEF IInv, Typed, Payload, Times
  <1>4. PICK new : new = [st EXCEPT !.inbox = Append(@, in)]
    OBVIOUS
  <1>5. /\ new.inbox = Append(st.inbox, in) /\ new.unsent = st.unsent
        /\ new.books = st.books /\ new.latest = st.latest
        /\ new.settled = st.settled /\ new.socket = st.socket
    BY <1>2, <1>4 DEF StreamState
  <1>6. /\ new \in StreamState
        /\ Len(new.inbox) = Len(st.inbox) + 1 /\ Len(st.inbox) \in Nat
        /\ DOMAIN new.inbox = 1 .. Len(new.inbox) /\ DOMAIN st.inbox = 1 .. Len(st.inbox)
        /\ \A i \in 1 .. Len(st.inbox) : new.inbox[i] = st.inbox[i]
        /\ new.inbox[Len(st.inbox) + 1] = in
    <2>1. st.inbox \in Seq(Payload) /\ Append(st.inbox, in) \in Seq(Payload)
      BY <1>2, <1>3, StreamFacts
    <2>2. new \in StreamState
      BY <1>2, <1>4, <2>1 DEF StreamState
    <2> QED BY <1>3, <1>5, <2>1, <2>2
  <1>7. \A i \in DOMAIN new.inbox :
          \/ i \in DOMAIN st.inbox /\ new.inbox[i] = st.inbox[i]
          \/ i = Len(st.inbox) + 1 /\ new.inbox[i].ts = now
    BY <1>3, <1>6
  <1>8. \A i \in DOMAIN st.inbox : i \in Nat /\ i <= Len(st.inbox) /\ st.inbox[i].ts \in Nat
    BY <1>2, <1>6, Items
  <1>9. st.socket = "open"
    BY <1>1 DEF Receive
  <1>10. Orderly(new)
    BY <1>2, <1>5, <1>9 DEF Orderly
  <1>11. Dated(new)
    BY <1>1, <1>2, <1>3, <1>5, <1>7 DEF Dated
  <1>12. Sound(st) => Sound(new)
    <2> SUFFICES ASSUME Sound(st) PROVE Sound(new)
      OBVIOUS
    <2>1. \A i, j \in DOMAIN new.inbox : i <= j => new.inbox[i].ts <= new.inbox[j].ts
      <3> SUFFICES ASSUME NEW i \in DOMAIN new.inbox, NEW j \in DOMAIN new.inbox, i <= j
                   PROVE  new.inbox[i].ts <= new.inbox[j].ts
        OBVIOUS
      <3>1. CASE i \in DOMAIN st.inbox /\ j \in DOMAIN st.inbox
        BY <1>6, <3>1 DEF Sound, Forward
      <3>2. CASE i \in DOMAIN st.inbox /\ j \notin DOMAIN st.inbox
        BY <1>1, <1>2, <1>6, <1>7, <3>2 DEF Dated
      <3>3. CASE i \notin DOMAIN st.inbox
        BY <1>3, <1>6, <1>7, <1>8, <3>3
      <3> QED BY <3>1, <3>2, <3>3
    <2>2. \A i \in DOMAIN new.inbox : \A c \in Contracts :
            rows[c] # Missing => rows[c] <= new.inbox[i].ts
      BY <1>1, <1>7 DEF Sound, Forward, IInv, RowsDated
    <2>3. \A j \in DOMAIN new.unsent : new.unsent[j].key \in Contracts =>
            \A i \in DOMAIN new.inbox : new.unsent[j].value <= new.inbox[i].ts
      BY <1>1, <1>2, <1>5, <1>7 DEF Sound, Forward, Dated
    <2>4. Forward(new)
      BY <1>5, <2>1, <2>2, <2>3 DEF Sound, Forward
    <2>5. Told(new) /\ Closed(new)
      BY <1>5, <1>9 DEF Sound, Told, Closed, Observed
    <2> QED BY <2>4, <2>5 DEF Sound
  <1>13. UNCHANGED <<pc, tracked, current, queue, broken, rows, clock>> /\ Note
    BY DEF Receive
  <1>14. stream' = [stream EXCEPT ![s] = new]
    BY <1>1, <1>4 DEF Receive
  <1>15. queue' \in Seq(Users) /\ Queued'
    BY <1>1, <1>5, <1>6, <1>13, <1>14, QueueStays
  <1> QED BY <1>1, <1>6, <1>9, <1>10, <1>11, <1>12, <1>13, <1>14, <1>15, MoveOne

LEMMA HandledFacts ==
  ASSUME NEW st \in StreamState, NEW event \in Events, NEW ts \in Times
  PROVE  LET known == event.assets \cap DOMAIN st.books
             new == Handled(st, event, ts)
         IN  /\ new \in StreamState
             /\ new.socket = st.socket /\ new.settled = st.settled /\ new.inbox = st.inbox
             /\ DOMAIN new.books = DOMAIN st.books
             /\ \A c \in DOMAIN st.books :
                  new.books[c] = IF c \in known THEN ts ELSE st.books[c]
             /\ \A j \in DOMAIN new.unsent :
                  new.unsent[j].key \in known /\ new.unsent[j].value = ts
             /\ \A c \in known : \E j \in DOMAIN new.unsent : new.unsent[j].key = c
  <1> DEFINE known == event.assets \cap DOMAIN st.books
             new == Handled(st, event, ts)
  <1>1. /\ st.books \in [DOMAIN st.books -> Stamp] /\ DOMAIN st.books \in Windows
        /\ DOMAIN st.books \subseteq Contracts /\ IsFiniteSet(DOMAIN st.books)
        /\ st.latest \in Stamp
    BY StreamFacts
  <1>2. IsFiniteSet(known)
    BY <1>1, FS_Subset
  <1>3. PICK n, f : n = Cardinality(known) /\ f = SetToSeq(known)
    OBVIOUS
  <1>4. /\ n \in Nat /\ f \in [1 .. n -> known]
        /\ \A x \in known : \E i \in 1 .. n : f[i] = x
    BY <1>2, <1>3, InTurn
  <1>5. PICK out : out = [i \in 1 .. n |-> [key |-> f[i], value |-> ts]]
    OBVIOUS
  <1>6. \A i \in 1 .. n : out[i].key = f[i] /\ out[i].value = ts /\ out[i] \in Envelope
    BY <1>1, <1>4, <1>5 DEF Envelope
  <1>7. DOMAIN out = 1 .. n /\ out \in [1 .. n -> Envelope]
    BY <1>5, <1>6
  <1>8. out \in Seq(Envelope)
    BY <1>4, <1>7
  <1>9. PICK books : books = [c \in DOMAIN st.books |-> IF c \in known THEN ts ELSE st.books[c]]
    OBVIOUS
  <1>10. books \in Books
    BY <1>1, <1>9 DEF Books, Stamp
  <1>11. PICK latest : latest = IF event.kind = "price_change" \/ known # {} THEN ts
                                ELSE st.latest
    OBVIOUS
  <1>12. latest \in Stamp
    BY <1>1, <1>11 DEF Stamp
  <1>13. new = [st EXCEPT !.latest = latest, !.books = books, !.unsent = out]
    BY <1>3, <1>5, <1>9, <1>11 DEF Handled
  <1>14. /\ new \in StreamState /\ new.books = books /\ new.unsent = out
         /\ new.socket = st.socket /\ new.settled = st.settled /\ new.inbox = st.inbox
    <2> HIDE DEF new
    <2> QED BY <1>8, <1>10, <1>12, <1>13 DEF StreamState
  <1>15. \A c \in DOMAIN st.books : books[c] = IF c \in known THEN ts ELSE st.books[c]
    BY <1>9
  <1>16. DOMAIN books = DOMAIN st.books
    BY <1>9
  <1>17. \A j \in DOMAIN out : out[j].key \in known /\ out[j].value = ts
    BY <1>4, <1>6, <1>7
  <1>18. \A c \in known : \E j \in DOMAIN out : out[j].key = c
    BY <1>4, <1>6, <1>7
  <1> HIDE DEF new
  <1>19. /\ \A j \in DOMAIN new.unsent : new.unsent[j].key \in known /\ new.unsent[j].value = ts
         /\ \A c \in known : \E j \in DOMAIN new.unsent : new.unsent[j].key = c
    BY <1>14, <1>17, <1>18
  <1> QED BY <1>14, <1>15, <1>16, <1>19 DEF new

\* The payload in hand, without it in the inbox, before it is handled.
LEMMA Unpacked ==
  ASSUME NEW st \in StreamState, st.inbox # <<>>,
         NEW rest, rest = [st EXCEPT !.inbox = RemoveAt(@, 1)]
  PROVE  /\ rest \in StreamState
         /\ rest.socket = st.socket /\ rest.settled = st.settled /\ rest.books = st.books
         /\ rest.latest = st.latest /\ rest.unsent = st.unsent
         /\ 1 \in DOMAIN st.inbox /\ st.inbox[1] \in Payload
         /\ \A i \in DOMAIN rest.inbox :
              i \in Nat /\ i + 1 \in DOMAIN st.inbox /\ rest.inbox[i] = st.inbox[i + 1]
  <1>1. PICK tail : tail = Tail(st.inbox)
    OBVIOUS
  <1>2. st.inbox \in Seq(Payload) /\ DOMAIN st.inbox = 1 .. Len(st.inbox)
        /\ Len(st.inbox) \in Nat
    BY StreamFacts
  <1>3. rest = [st EXCEPT !.inbox = tail]
    BY <1>1, <1>2, RemoveFirstIsTail
  <1>4. /\ tail \in Seq(Payload) /\ Len(tail) = Len(st.inbox) - 1 /\ Len(st.inbox) >= 1
        /\ \A i \in 1 .. Len(tail) : tail[i] = st.inbox[i + 1]
        /\ DOMAIN tail = 1 .. Len(tail)
    BY <1>1, <1>2
  <1>5. /\ rest \in StreamState /\ rest.inbox = tail
        /\ rest.socket = st.socket /\ rest.settled = st.settled /\ rest.books = st.books
        /\ rest.latest = st.latest /\ rest.unsent = st.unsent
    BY <1>3, <1>4 DEF StreamState
  <1>6. \A i \in DOMAIN tail :
          i \in Nat /\ i + 1 \in DOMAIN st.inbox /\ tail[i] = st.inbox[i + 1]
    BY <1>2, <1>4
  <1>7. 1 \in DOMAIN st.inbox /\ st.inbox[1] \in Payload
    BY <1>2, <1>4, Items
  <1> QED BY <1>5, <1>6, <1>7

LEMMA DeliverStep ==
  ASSUME IInv, NEW s \in Streams, Deliver(s)
  PROVE  IInv'
  <1>1. PICK st : st = stream[s]
    OBVIOUS
  <1>2. st \in StreamState /\ Orderly(st) /\ Dated(st)
    BY <1>1, Parts
  <1>3. st.inbox # <<>> /\ st.unsent = <<>>
    BY <1>1 DEF Deliver, Busy
  <1>4. st.socket \notin {"none", "connecting", "reporting"}
    BY <1>2, <1>3 DEF Orderly
  <1>5. PICK rest, payload : rest = [st EXCEPT !.inbox = RemoveAt(@, 1)] /\ payload = st.inbox[1]
    OBVIOUS
  <1>6. /\ rest \in StreamState
        /\ rest.socket = st.socket /\ rest.settled = st.settled /\ rest.books = st.books
        /\ rest.latest = st.latest /\ rest.unsent = st.unsent
        /\ 1 \in DOMAIN st.inbox /\ payload \in Payload
        /\ \A i \in DOMAIN rest.inbox :
             i \in Nat /\ i + 1 \in DOMAIN st.inbox /\ rest.inbox[i] = st.inbox[i + 1]
    BY <1>2, <1>3, <1>5, Unpacked
  <1>7. PICK new : new = IF payload.event = Garbage THEN Settled(rest, "rejected")
                         ELSE Handled(rest, payload.event, payload.ts)
    OBVIOUS
  <1>8. /\ stream' = [stream EXCEPT ![s] = new]
        /\ queue' = Enqueued(queue, s, new.unsent # <<>>)
    BY <1>1, <1>5, <1>7 DEF Deliver, NextIndex
  <1>9. UNCHANGED <<pc, tracked, current, broken, rows, clock>> /\ Note
    BY DEF Deliver, environment
  <1>10. ASSUME new \in StreamState PROVE queue' \in Seq(Users) /\ Queued'
    <2>1. CASE new.unsent = <<>>
      BY <1>1, <1>3, <1>8, <1>9, <1>10, <2>1, QueueStays DEF Enqueued
    <2>2. CASE new.unsent # <<>>
      BY <1>1, <1>3, <1>8, <1>9, <1>10, <2>2, QueueJoined DEF Enqueued
    <2> QED BY <2>1, <2>2
  <1>11. CASE payload.event = Garbage
    <2>1. /\ new \in StreamState
          /\ new.settled = IF st.settled = "no" THEN "rejected" ELSE st.settled
          /\ new.socket = st.socket /\ new.inbox = rest.inbox /\ new.unsent = <<>>
      BY <1>3, <1>6, <1>7, <1>11, SettledFacts
    <2>2. Orderly(new)
      BY <1>4, <2>1 DEF Orderly
    <2>3. Dated(new)
      BY <1>2, <1>6, <2>1 DEF Dated
    <2>4. new.settled # "rejected" => ~Sound(st)
      BY <1>2, <1>4, <2>1 DEF Sound, Closed, StreamState
    <2> QED BY <1>1, <1>4, <1>8, <1>9, <1>10, <2>1, <2>2, <2>3, <2>4, MoveOne
  <1>12. CASE payload.event # Garbage
    <2>1. PICK event \in Events, ts \in Times : payload = [event |-> event, ts |-> ts]
      BY <1>6, <1>12 DEF Payload
    <2>2. PICK known : known = event.assets \cap DOMAIN rest.books
      OBVIOUS
    <2>3. new = Handled(rest, event, ts)
      BY <1>7, <1>12, <2>1
    <2>4. /\ new \in StreamState
          /\ new.socket = rest.socket /\ new.settled = rest.settled /\ new.inbox = rest.inbox
          /\ DOMAIN new.books = DOMAIN rest.books
          /\ \A c \in DOMAIN rest.books :
               new.books[c] = IF c \in known THEN ts ELSE rest.books[c]
          /\ \A j \in DOMAIN new.unsent :
               new.unsent[j].key \in known /\ new.unsent[j].value = ts
          /\ \A c \in known : \E j \in DOMAIN new.unsent : new.unsent[j].key = c
      BY <1>6, <2>2, <2>3, HandledFacts
    <2>5. known \subseteq DOMAIN st.books /\ known \subseteq Contracts
      BY <1>2, <1>6, <2>2, StreamFacts
    <2>6. ts = st.inbox[1].ts /\ ts \in Nat /\ ts <= clock
      <3>1. payload.ts = ts /\ payload = st.inbox[1]
        BY <1>5, <2>1
      <3>2. st.inbox[1].ts \in Nat
        BY <1>2, <1>6, Items
      <3>3. st.inbox[1].ts <= clock
        BY <1>2, <1>6 DEF Dated
      <3> QED BY <3>1, <3>2, <3>3
    <2>7. Orderly(new)
      BY <1>4, <1>6, <2>4, <2>5 DEF Orderly
    <2>8. Dated(new)
      BY <1>2, <1>6, <2>4, <2>6 DEF Dated
    <2>9. ASSUME Sound(st) PROVE Sound(new)
      <3>1. \A i, j \in DOMAIN new.inbox : i <= j => new.inbox[i].ts <= new.inbox[j].ts
        <4> SUFFICES ASSUME NEW i \in DOMAIN new.inbox, NEW j \in DOMAIN new.inbox, i <= j
                     PROVE  new.inbox[i].ts <= new.inbox[j].ts
          OBVIOUS
        <4>1. i + 1 <= j + 1
          BY <1>6, <2>4
        <4> QED BY <1>6, <2>4, <2>9, <4>1 DEF Sound, Forward
      <3>2. \A i \in DOMAIN new.inbox : ts <= new.inbox[i].ts
        <4> SUFFICES ASSUME NEW i \in DOMAIN new.inbox PROVE ts <= new.inbox[i].ts
          OBVIOUS
        <4>1. 1 <= i + 1
          BY <1>6, <2>4
        <4> QED BY <1>6, <2>4, <2>6, <2>9, <4>1 DEF Sound, Forward
      <3>3. \A i \in DOMAIN new.inbox : \A c \in Contracts :
              rows[c] # Missing => rows[c] <= new.inbox[i].ts
        BY <1>6, <2>4, <2>9 DEF Sound, Forward
      <3>4. \A c \in Contracts : rows[c] # Missing => rows[c] <= ts
        BY <1>6, <2>6, <2>9 DEF Sound, Forward
      <3>5. Forward(new)
        BY <2>4, <3>1, <3>2, <3>3, <3>4 DEF Forward
      <3>6. \A c \in Observed(new) :
              rows[c] = new.books[c] \/ \E j \in DOMAIN new.unsent : new.unsent[j].key = c
        <4> SUFFICES ASSUME NEW c \in Observed(new), c \notin known
                     PROVE  rows[c] = new.books[c]
          BY <2>4
        <4>1. c \in DOMAIN st.books /\ new.books[c] = st.books[c] /\ new.books[c] # Missing
          BY <1>6, <2>4 DEF Observed
        <4>2. c \in Observed(st) /\ DOMAIN st.unsent = {}
          BY <1>3, <4>1 DEF Observed
        <4> QED BY <2>9, <4>1, <4>2 DEF Sound, Told
      <3>7. Told(new)
        BY <1>6, <2>4, <2>5, <3>6 DEF Told
      <3>8. Closed(new)
        BY <1>4, <1>6, <2>4, <2>9 DEF Sound, Closed
      <3> QED BY <3>5, <3>7, <3>8 DEF Sound
    <2> QED BY <1>1, <1>4, <1>8, <1>9, <1>10, <2>4, <2>7, <2>8, <2>9, MoveOne
  <1> QED BY <1>11, <1>12

LEMMA ReportStep ==
  ASSUME IInv, NEW s \in Streams, Report(s)
  PROVE  IInv'
  <1>1. PICK st, health : st = stream[s] /\ health = HealthOf(st)
    OBVIOUS
  <1>2. st \in StreamState /\ Orderly(st) /\ Dated(st)
    BY <1>1, Parts
  <1>3. st.socket = "closed" /\ st.inbox = <<>> /\ st.unsent = <<>>
    BY <1>1 DEF Report, Drained
  <1>4. Cardinality(Observed(st)) \in Nat /\ st.latest \in Stamp
    BY <1>2, StreamFacts
  <1>5. health \in HealthRow /\ Says(health, st)
    <2>1. PICK stale : stale = IF st.latest = Missing THEN TRUE
                               ELSE clock - st.latest > StaleAfter
      OBVIOUS
    <2>2. stale \in BOOLEAN
      <3>1. CASE st.latest = Missing
        BY <2>1, <3>1
      <3>2. CASE st.latest # Missing
        <4>1. (clock - st.latest > StaleAfter) \in BOOLEAN
          OBVIOUS
        <4>2. stale = (clock - st.latest > StaleAfter)
          BY <2>1, <3>2, Zenon
        <4> QED BY <4>1, <4>2, Zenon
      <3> QED BY <3>1, <3>2
    <2>3. health = [observed |-> Cardinality(Observed(st)), latest |-> st.latest,
                    stale |-> stale]
      BY <1>1, <2>1 DEF HealthOf
    <2> QED BY <1>4, <2>2, <2>3 DEF HealthRow, Says
  <1>6. PICK unsent : unsent = <<[key |-> Health, value |-> health]>>
    OBVIOUS
  <1>7. [key |-> Health, value |-> health] \in Envelope
    BY <1>5 DEF Envelope
  <1>8. /\ unsent \in Seq(Envelope) /\ Len(unsent) = 1 /\ DOMAIN unsent = {1} /\ unsent # <<>>
        /\ unsent[1].key = Health /\ unsent[1].value = health
    BY <1>6, <1>7
  <1>9. PICK new : new = [st EXCEPT !.socket = "reporting", !.unsent = unsent]
    OBVIOUS
  <1>10. /\ new \in StreamState /\ new.socket = "reporting" /\ new.unsent = unsent
         /\ new.inbox = st.inbox /\ new.books = st.books /\ new.latest = st.latest
         /\ new.settled = st.settled
    BY <1>2, <1>8, <1>9 DEF StreamState
  <1>11. Observed(new) = Observed(st)
    BY <1>10 DEF Observed
  <1>12. Health \notin Contracts
    BY FeedAssumption
  <1>13. Orderly(new)
    BY <1>3, <1>5, <1>8, <1>10, <1>11 DEF Orderly, Says
  <1>14. Dated(new)
    BY <1>2, <1>8, <1>10, <1>12 DEF Dated
  <1>15. ASSUME Sound(st) PROVE Sound(new)
    <2>1. Forward(new)
      BY <1>8, <1>10, <1>12, <1>15 DEF Sound, Forward
    <2>2. \A c \in Observed(st) : rows[c] = st.books[c]
      BY <1>3, <1>15 DEF Sound, Told
    <2>3. Told(new)
      BY <1>8, <1>10, <1>11, <1>12, <2>2 DEF Told
    <2>4. Closed(new)
      BY <1>3, <1>10, <1>15 DEF Sound, Closed
    <2> QED BY <2>1, <2>3, <2>4 DEF Sound
  <1>16. UNCHANGED <<pc, tracked, current, broken, rows, clock>> /\ Note
    BY DEF Report, environment
  <1>17. stream' = [stream EXCEPT ![s] = new] /\ queue' = Append(queue, s)
    BY <1>1, <1>6, <1>9 DEF Report
  <1>18. queue' \in Seq(Users) /\ Queued'
    BY <1>1, <1>3, <1>8, <1>10, <1>16, <1>17, QueueJoined
  <1> QED BY <1>1, <1>3, <1>10, <1>13, <1>14, <1>15, <1>16, <1>17, <1>18, MoveOne

-----------------------------------------------------------------------------
(* The publisher. *)

\* A step of the loop or of time leaves the streams and the rows alone.
LEMMA StreamsStay ==
  ASSUME IInv, Typed', Queued', UNCHANGED <<stream, rows, current>>, clock <= clock', Note
  PROVE  IInv'
  <1>1. clock \in Nat /\ clock' \in Nat
    BY FeedAssumption DEF IInv, Typed, Times
  <1>2. \A c \in Contracts : rows[c] # Missing => rows[c] \in Nat
    BY FeedAssumption DEF IInv, Typed, Stamp, Times
  <1>3. RowsDated'
    BY <1>1, <1>2 DEF IInv, RowsDated
  <1>4. \A s \in Streams : Orderly(stream[s])' /\ Dated(stream[s])'
    <2> SUFFICES ASSUME NEW s \in Streams PROVE Orderly(stream[s])' /\ Dated(stream[s])'
      OBVIOUS
    <2>1. PICK st : st = stream[s]
      OBVIOUS
    <2>2. st \in StreamState /\ Orderly(st) /\ Dated(st)
      BY <2>1, Parts
    <2>3. Dated(stream[s])'
      BY <1>1, <2>1, <2>2, Items DEF Dated
    <2>4. Orderly(stream[s])'
      BY <2>1, <2>2 DEF Orderly, Says, Observed
    <2> QED BY <2>3, <2>4
  <1>5. ASSUME ~disturbed' PROVE Undisturbed'
    <2>1. Undisturbed
      BY <1>5 DEF IInv, Note
    <2>2. ASSUME NEW s \in Streams
          PROVE  Sound(stream[s])' /\ (s # current => stream[s] = Idle)'
      <3>1. PICK st : st = stream[s]
        OBVIOUS
      <3>2. Sound(st) /\ (s # current => st = Idle)
        BY <2>1, <3>1 DEF Undisturbed
      <3>3. Forward(stream[s])'
        BY <3>1, <3>2 DEF Sound, Forward
      <3>4. Told(stream[s])'
        BY <3>1, <3>2 DEF Sound, Told, Observed
      <3>5. Closed(stream[s])'
        BY <3>1, <3>2 DEF Sound, Closed, Says, Observed
      <3> QED BY <3>1, <3>2, <3>3, <3>4, <3>5 DEF Sound
    <2> QED BY <2>2 DEF Undisturbed
  <1> QED BY <1>3, <1>4, <1>5 DEF IInv

\* Who is first in the queue.
LEMMA First ==
  ASSUME IInv, queue # <<>>
  PROVE  /\ Asker \in Users /\ Asker \in Waiting
         /\ Tail(queue) \in Seq(Users) /\ Holds(Tail(queue), Waiting \ {Asker})
         /\ Asker = Loop => pc = "publish"
         /\ Asker # Loop => Asker \in Streams /\ stream[Asker].unsent # <<>>
  <1>1. PICK q, w : q = queue /\ w = Waiting
    OBVIOUS
  <1>2. q \in Seq(Users) /\ Holds(q, w) /\ q # <<>>
    BY <1>1 DEF IInv, Typed, Queued
  <1>3. /\ Head(q) \in Users /\ Head(q) \in w
        /\ Tail(q) \in Seq(Users) /\ Holds(Tail(q), w \ {Head(q)})
    BY <1>2, HoldsTail
  <1> QED BY <1>1, <1>3, FeedAssumption DEF Asker, Waiting, Users

\* What it publishes.
LEMMA Envelopes ==
  ASSUME IInv, NEW s \in Streams, NEW st, st = stream[s], st.unsent # <<>>
  PROVE  /\ st \in StreamState /\ Len(st.unsent) \in Nat /\ Len(st.unsent) >= 1
         /\ 1 \in DOMAIN st.unsent
         /\ Head(st.unsent) = st.unsent[1] /\ st.unsent[1] \in Envelope
         /\ st.socket \notin {"none", "connecting"}
         /\ IF st.socket = "reporting"
            THEN /\ st.inbox = <<>> /\ Len(st.unsent) = 1 /\ st.unsent[1].key = Health
                 /\ st.unsent[1].value \in HealthRow /\ Says(st.unsent[1].value, st)
            ELSE /\ st.unsent[1].key \in Contracts /\ st.unsent[1].value \in Times
                 /\ st.unsent[1].value <= clock
         /\ ~disturbed => s = current /\ st.settled = "no" /\ Sound(st)
  <1>1. st \in StreamState /\ Orderly(st) /\ Dated(st)
    BY Parts
  <1>2. st.unsent \in Seq(Envelope) /\ Len(st.unsent) \in Nat
        /\ DOMAIN st.unsent = 1 .. Len(st.unsent)
    BY <1>1, StreamFacts
  <1>3. Len(st.unsent) >= 1 /\ 1 \in DOMAIN st.unsent /\ Head(st.unsent) = st.unsent[1]
    BY <1>2
  <1>4. st.unsent[1] \in Envelope
    BY <1>1, <1>3, Items
  <1>5. st.socket \notin {"none", "connecting"}
    BY <1>1 DEF Orderly
  <1>6. CASE st.socket = "reporting"
    BY <1>1, <1>2, <1>3, <1>4, <1>5, <1>6, Items, Parts, IdleFacts
       DEF Orderly, Sound, Closed, StreamState
  <1>7. CASE st.socket # "reporting"
    BY <1>1, <1>2, <1>3, <1>4, <1>5, <1>7, Items, Parts, IdleFacts
       DEF Orderly, Dated, Sound, Closed, StreamState
  <1> QED BY <1>6, <1>7

LEMMA PutRow ==
  ASSUME IInv, queue # <<>>, rows' = Put, clock' = clock
  PROVE  /\ rows' \in [Contracts \cup {Health} -> Stamp \cup HealthRow]
         /\ rows'[Health] \in HealthRow \cup {Missing}
         /\ \A c \in Contracts : rows'[c] \in Stamp
         /\ RowsDated'
         /\ Asker # Loop =>
              \A k \in Contracts \cup {Health} :
                rows'[k] = IF k = stream[Asker].unsent[1].key
                           THEN stream[Asker].unsent[1].value ELSE rows[k]
  <1>0. /\ rows \in [Contracts \cup {Health} -> Stamp \cup HealthRow]
        /\ rows[Health] \in HealthRow \cup {Missing}
        /\ \A c \in Contracts : rows[c] \in Stamp
        /\ RowsDated
    BY DEF IInv, Typed
  <1>1. CASE Asker = Loop
    <2>1. rows' = rows
      BY <1>1 DEF Put
    <2> QED BY <1>0, <1>1, <2>1 DEF RowsDated
  <1>2. CASE Asker # Loop
    <2>1. Asker \in Streams /\ stream[Asker].unsent # <<>>
      BY <1>2, First
    <2>2. PICK st : st = stream[Asker]
      OBVIOUS
    <2>3. PICK key, value : key = st.unsent[1].key /\ value = st.unsent[1].value
      OBVIOUS
    <2>4. /\ Head(st.unsent) = st.unsent[1]
          /\ \/ key = Health /\ value \in HealthRow
             \/ key \in Contracts /\ value \in Times /\ value <= clock
      BY <2>1, <2>2, <2>3, Envelopes
    <2>5. rows' = [rows EXCEPT ![key] = value]
      BY <1>2, <2>2, <2>3, <2>4 DEF Put
    <2>6. Health \notin Contracts
      BY FeedAssumption
    <2>7. \A k \in Contracts \cup {Health} : rows'[k] = IF k = key THEN value ELSE rows[k]
      BY <1>0, <2>5
    <2>8. rows' \in [Contracts \cup {Health} -> Stamp \cup HealthRow]
      BY <1>0, <2>4, <2>5 DEF Stamp
    <2>9. rows'[Health] \in HealthRow \cup {Missing} /\ \A c \in Contracts : rows'[c] \in Stamp
      BY <1>0, <2>4, <2>6, <2>7 DEF Stamp
    <2>10. RowsDated'
      BY <1>0, <2>4, <2>6, <2>7 DEF RowsDated
    <2> QED BY <2>2, <2>3, <2>7, <2>8, <2>9, <2>10
  <1> QED BY <1>1, <1>2

\* A publish of one stream ends, in whatever way.
LEMMA EndOne ==
  ASSUME IInv, NEW s \in Streams, NEW new \in StreamState,
         stream' = [stream EXCEPT ![s] = new], Orderly(new), Dated(new),
         rows' \in [Contracts \cup {Health} -> Stamp \cup HealthRow],
         rows'[Health] \in HealthRow \cup {Missing},
         \A c \in Contracts : rows'[c] \in Stamp,
         RowsDated', broken' \in BOOLEAN,
         queue' \in Seq(Users), Queued',
         UNCHANGED <<pc, tracked, current, clock>>, Note,
         ~disturbed' => s = current /\ Sound(new)'
  PROVE  IInv'
  <1>1. /\ stream' \in [Streams -> StreamState]
        /\ stream'[s] = new /\ \A t \in Streams : t # s => stream'[t] = stream[t]
    BY DEF IInv, Typed
  <1>2. Typed'
    BY <1>1 DEF IInv, Typed, Note
  <1>3. \A t \in Streams : Orderly(stream[t])' /\ Dated(stream[t])'
    <2> SUFFICES ASSUME NEW t \in Streams
                 PROVE  Orderly(stream[t])' /\ Dated(stream[t])'
      OBVIOUS
    <2>1. PICK after : after = stream'[t]
      OBVIOUS
    <2>2. Orderly(after) /\ Dated(after)
      BY <1>1, <2>1, Parts
    <2>3. Dated(stream[t])'
      BY <2>1, <2>2 DEF Dated
    <2>4. Orderly(stream[t])'
      BY <2>1, <2>2 DEF Orderly, Says, Observed
    <2> QED BY <2>3, <2>4
  <1>4. ASSUME ~disturbed' PROVE Undisturbed'
    <2>1. ~disturbed /\ s = current
      BY <1>4 DEF Note
    <2>2. ASSUME NEW t \in Streams
          PROVE  Sound(stream[t])' /\ (t # current => stream[t] = Idle)'
      <3>1. PICK after : after = stream'[t]
        OBVIOUS
      <3>2. t # current => after = Idle
        BY <1>1, <2>1, <3>1, Parts
      <3>3. Sound(after)'
        BY <1>1, <1>4, <2>1, <3>1, <3>2, IdleFacts, EmptyKeeps DEF Empty
      <3>4. Sound(stream[t])'
        BY <3>1, <3>3 DEF Sound, Forward, Told, Closed, Says, Observed
      <3> QED BY <3>1, <3>2, <3>4
    <2> QED BY <2>2 DEF Undisturbed
  <1> QED BY <1>2, <1>3, <1>4 DEF IInv

\* The queue when the first in it is answered.
LEMMA QueueServed ==
  ASSUME IInv, queue # <<>>, Asker # Loop, NEW new \in StreamState,
         stream' = [stream EXCEPT ![Asker] = new], pc' = pc,
         queue' = Enqueued(Tail(queue), Asker, new.unsent # <<>>)
  PROVE  queue' \in Seq(Users) /\ Queued'
  <1>1. PICK q, w, s : q = Tail(queue) /\ w = Waiting /\ s = Asker
    OBVIOUS
  <1>2. q \in Seq(Users) /\ Holds(q, w \ {s}) /\ s \in w /\ s \in Users /\ s \in Streams
    BY <1>1, First
  <1>3. CASE new.unsent = <<>>
    <2>1. Waiting' = w \ {s}
      BY <1>1, <1>2, <1>3, FeedAssumption DEF Waiting, IInv, Typed
    <2>2. queue' = q
      BY <1>1, <1>3 DEF Enqueued
    <2> QED BY <1>2, <2>1, <2>2 DEF Queued, Holds
  <1>4. CASE new.unsent # <<>>
    <2>1. Waiting' = w
      BY <1>1, <1>2, <1>4, FeedAssumption DEF Waiting, IInv, Typed
    <2>2. queue' = Append(q, s)
      BY <1>1, <1>4 DEF Enqueued
    <2>3. Append(q, s) \in Seq(Users) /\ Holds(Append(q, s), (w \ {s}) \cup {s})
      BY <1>2, HoldsAppend
    <2>4. (w \ {s}) \cup {s} = w
      BY <1>2
    <2> QED BY <2>1, <2>2, <2>3, <2>4 DEF Queued, Holds
  <1> QED BY <1>3, <1>4

\* The universe is out, or is not.
LEMMA LoopServed ==
  ASSUME IInv, Publish \/ PublishFails, Asker = Loop
  PROVE  IInv' /\ rows' = rows
  <1>1. queue # <<>> /\ pc = "publish" /\ current = Missing
    BY First DEF Publish, PublishFails, IInv, Typed
  <1>2. /\ rows' = rows /\ stream' = stream /\ queue' = Tail(queue)
        /\ pc' \in {"connect", "ended"} /\ broken' \in BOOLEAN
        /\ UNCHANGED <<tracked, current, clock>> /\ Note
    BY DEF Publish, PublishFails, Put, AfterRefusal, environment, IInv, Typed
  <1>3. PICK q, w : q = Tail(queue) /\ w = Waiting
    OBVIOUS
  <1>4. q \in Seq(Users) /\ Holds(q, w \ {Loop})
    BY <1>1, <1>3, First
  <1>5. Waiting' = w \ {Loop}
    BY <1>2, <1>3, FeedAssumption DEF Waiting
  <1>6. Queued'
    BY <1>2, <1>3, <1>4, <1>5 DEF Queued, Holds
  <1>7. Typed'
    BY <1>1, <1>2, <1>3, <1>4 DEF IInv, Typed, Note
  <1>8. clock <= clock'
    BY <1>2, FeedAssumption DEF IInv, Typed, Times
  <1> QED BY <1>2, <1>6, <1>7, <1>8, StreamsStay

\* What a stream is left with, its health being out or not.
LEMMA DoneFacts ==
  ASSUME IInv, NEW s \in Streams, NEW st, st = stream[s], st.socket = "reporting",
         NEW result \in {"resolved", "rejected"}, NEW new, new = Done(s, result)
  PROVE  /\ new \in StreamState /\ Orderly(new) /\ Dated(new) /\ new.unsent = <<>>
         /\ s = current =>
              /\ new.socket = "none" /\ new.inbox = <<>>
              /\ new.books = st.books /\ new.latest = st.latest
              /\ new.settled = IF st.settled = "no" THEN result ELSE st.settled
  <1>1. st \in StreamState /\ Orderly(st) /\ st.inbox = <<>>
    BY Parts DEF Orderly
  <1>2. CASE s = current
    <2>1. PICK mid : mid = [st EXCEPT !.socket = "none", !.unsent = <<>>]
      OBVIOUS
    <2>2. /\ mid \in StreamState /\ mid.socket = "none" /\ mid.unsent = <<>>
          /\ mid.inbox = st.inbox /\ mid.books = st.books /\ mid.latest = st.latest
          /\ mid.settled = st.settled
      BY <1>1, <2>1, EmptySeq DEF StreamState
    <2>3. new = Settled(mid, result)
      BY <1>2, <2>1 DEF Done
    <2>4. /\ new \in StreamState /\ new.socket = "none" /\ new.unsent = <<>>
          /\ new.inbox = <<>> /\ new.books = st.books /\ new.latest = st.latest
          /\ new.settled = IF st.settled = "no" THEN result ELSE st.settled
      BY <1>1, <2>2, <2>3, SettledFacts
    <2> QED BY <2>4 DEF Orderly, Dated
  <1>3. CASE s # current
    <2>1. new = Idle
      BY <1>3 DEF Done
    <2> QED BY <1>3, <2>1, IdleFacts, EmptyKeeps DEF Empty
  <1> QED BY <1>2, <1>3

\* A publish that fails rejects its stream, unless it was left behind.
LEMMA RefusedStep ==
  ASSUME IInv, PublishFails, Asker # Loop
  PROVE  IInv' /\ disturbed'
  <1>1. PICK s, st, new : s = Asker /\ st = stream[Asker] /\ new = Refused(Asker)
    OBVIOUS
  <1>2. queue # <<>> /\ s \in Streams /\ st.unsent # <<>>
    BY <1>1, First DEF PublishFails
  <1>3. /\ st \in StreamState /\ st.socket \notin {"none", "connecting"}
        /\ ~disturbed => s = current /\ st.settled = "no"
    BY <1>1, <1>2, Envelopes
  <1>4. /\ new \in StreamState /\ Orderly(new) /\ Dated(new) /\ new.unsent = <<>>
        /\ s = current /\ st.settled = "no" => new.settled = "rejected"
    <2>1. CASE st.socket = "reporting"
      <3>1. new = Done(s, "rejected")
        BY <1>1, <2>1 DEF Refused
      <3> QED BY <1>1, <1>2, <2>1, <3>1, DoneFacts
    <2>2. CASE st.socket # "reporting"
      <3>1. PICK mid : mid = [st EXCEPT !.unsent = <<>>]
        OBVIOUS
      <3>2. /\ mid \in StreamState /\ mid.unsent = <<>> /\ mid.socket = st.socket
            /\ mid.inbox = st.inbox /\ mid.settled = st.settled
        BY <1>3, <3>1, EmptySeq DEF StreamState
      <3>3. new = Settled(mid, "rejected")
        BY <1>1, <2>2, <3>1 DEF Refused
      <3>4. /\ new \in StreamState /\ new.unsent = <<>> /\ new.socket = st.socket
            /\ new.inbox = st.inbox
            /\ new.settled = IF st.settled = "no" THEN "rejected" ELSE st.settled
        BY <3>2, <3>3, SettledFacts
      <3>5. Dated(st)
        BY <1>1, <1>2, Parts
      <3> QED BY <1>3, <2>2, <3>4, <3>5 DEF Orderly, Dated
    <2> QED BY <2>1, <2>2
  <1>5. /\ stream' = [stream EXCEPT ![s] = new] /\ queue' = Tail(queue)
        /\ broken' \in BOOLEAN /\ rows' \in {rows, Put}
        /\ UNCHANGED <<pc, tracked, current, clock>> /\ Note
    BY <1>1 DEF PublishFails, environment
  <1>6. /\ rows' \in [Contracts \cup {Health} -> Stamp \cup HealthRow]
        /\ rows'[Health] \in HealthRow \cup {Missing}
        /\ \A c \in Contracts : rows'[c] \in Stamp
        /\ RowsDated'
    <2>1. CASE rows' = rows
      BY <1>5, <2>1 DEF IInv, Typed, RowsDated
    <2>2. CASE rows' = Put
      BY <1>2, <1>5, <2>2, PutRow
    <2> QED BY <1>5, <2>1, <2>2
  <1>7. queue' = Enqueued(Tail(queue), s, new.unsent # <<>>)
    BY <1>4, <1>5 DEF Enqueued
  <1>8. queue' \in Seq(Users) /\ Queued'
    BY <1>1, <1>2, <1>4, <1>5, <1>7, QueueServed DEF PublishFails
  <1>9. disturbed'
    <2>1. stream'[s] = new
      BY <1>2, <1>5 DEF IInv, Typed
    <2>2. ~disturbed => stream'[s].settled = "rejected"
      BY <1>3, <1>4, <2>1
    <2> QED BY <1>2, <1>5, <2>2 DEF Note
  <1> QED BY <1>2, <1>4, <1>5, <1>6, <1>8, <1>9, EndOne

\* A publish that succeeds: the row moves forward, and its stream goes on.
LEMMA AcceptedStep ==
  ASSUME IInv, Publish, Asker # Loop
  PROVE  /\ IInv'
         /\ ~disturbed' => \A c \in Contracts :
              rows[c] # Missing => rows'[c] # Missing /\ rows'[c] >= rows[c]
  <1>1. PICK s, st, new : s = Asker /\ st = stream[Asker] /\ new = Accepted(Asker)
    OBVIOUS
  <1>2. queue # <<>> /\ s \in Streams /\ st.unsent # <<>>
    BY <1>1, First DEF Publish
  <1>3. PICK key, value : key = st.unsent[1].key /\ value = st.unsent[1].value
    OBVIOUS
  <1>4. /\ st \in StreamState /\ Len(st.unsent) \in Nat /\ Len(st.unsent) >= 1
        /\ 1 \in DOMAIN st.unsent
        /\ st.socket \notin {"none", "connecting"}
        /\ IF st.socket = "reporting"
           THEN /\ st.inbox = <<>> /\ Len(st.unsent) = 1 /\ key = Health
                /\ value \in HealthRow /\ Says(value, st)
           ELSE key \in Contracts /\ value \in Times /\ value <= clock
        /\ ~disturbed => s = current /\ st.settled = "no" /\ Sound(st)
    BY <1>1, <1>2, <1>3, Envelopes
  <1>5. /\ stream' = [stream EXCEPT ![s] = new]
        /\ queue' = Enqueued(Tail(queue), s, Len(st.unsent) > 1)
        /\ rows' = Put /\ broken' \in BOOLEAN
        /\ UNCHANGED <<pc, tracked, current, clock>> /\ Note
    BY <1>1 DEF Publish, environment, IInv, Typed
  <1>6. /\ rows' \in [Contracts \cup {Health} -> Stamp \cup HealthRow]
        /\ rows'[Health] \in HealthRow \cup {Missing}
        /\ \A c \in Contracts : rows'[c] \in Stamp
        /\ RowsDated'
        /\ \A k \in Contracts \cup {Health} : rows'[k] = IF k = key THEN value ELSE rows[k]
    BY <1>1, <1>2, <1>3, <1>5, PutRow DEF Publish
  <1>7. Health \notin Contracts /\ Missing \notin HealthRow /\ Missing \notin Times
    BY FeedAssumption, MissingAssumption DEF Times
  <1>8. st.unsent \in Seq(Envelope) /\ DOMAIN st.unsent = 1 .. Len(st.unsent)
    BY <1>4, StreamFacts
  <1>9. Orderly(st) /\ Dated(st)
    BY <1>1, <1>2, Parts
  <1>10. /\ new \in StreamState /\ Orderly(new) /\ Dated(new)
         /\ new.unsent # <<>> <=> Len(st.unsent) > 1
         /\ ~disturbed => Sound(new)'
         /\ ~disturbed => \A c \in Contracts :
              rows[c] # Missing => rows'[c] # Missing /\ rows'[c] >= rows[c]
    <2>1. CASE st.socket = "reporting"
      <3>1. new = Done(s, "resolved")
        BY <1>1, <2>1 DEF Accepted
      <3>2. /\ new \in StreamState /\ Orderly(new) /\ Dated(new) /\ new.unsent = <<>>
            /\ s = current =>
                 /\ new.socket = "none" /\ new.inbox = <<>>
                 /\ new.books = st.books /\ new.latest = st.latest
                 /\ new.settled = IF st.settled = "no" THEN "resolved" ELSE st.settled
        BY <1>1, <1>2, <2>1, <3>1, DoneFacts
      <3>3. \A c \in Contracts : rows'[c] = rows[c]
        BY <1>4, <1>6, <1>7, <2>1
      <3>4. ASSUME ~disturbed PROVE Sound(new)'
        <4>1. s = current /\ Sound(st)
          BY <1>4, <3>4
        <4>2. Observed(new) = Observed(st) /\ Observed(st) \subseteq Contracts
          BY <1>4, <3>2, <4>1, StreamFacts DEF Observed
        <4>3. \A c \in Observed(st) : rows[c] = st.books[c]
          BY <1>3, <1>4, <1>7, <1>8, <2>1, <4>1, <4>2 DEF Sound, Told
        <4>4. Told(new)'
          BY <3>2, <3>3, <4>1, <4>2, <4>3 DEF Told
        <4>5. rows'[Health] = value
          BY <1>4, <1>6, <2>1
        <4>6. Closed(new)'
          BY <1>4, <1>7, <2>1, <3>2, <4>1, <4>2, <4>5 DEF Sound, Closed, Says
        <4>7. Forward(new)'
          BY <3>2, <4>1 DEF Forward
        <4> QED BY <4>4, <4>6, <4>7 DEF Sound
      <3>5. \A c \in Contracts : rows[c] # Missing => rows[c] \in Nat
        BY FeedAssumption DEF IInv, Typed, Stamp, Times
      <3>6. \A c \in Contracts :
              rows[c] # Missing => rows'[c] # Missing /\ rows'[c] >= rows[c]
        BY <3>3, <3>5
      <3>7. ~(Len(st.unsent) > 1)
        <4>1. Len(st.unsent) = 1
          BY <1>4, <2>1, Zenon
        <4> QED BY <4>1
      <3> QED BY <3>2, <3>4, <3>6, <3>7
    <2>2. CASE st.socket # "reporting"
      <3>1. PICK tail : tail = Tail(st.unsent)
        OBVIOUS
      <3>2. /\ tail \in Seq(Envelope) /\ Len(tail) = Len(st.unsent) - 1
            /\ \A j \in 1 .. Len(tail) : tail[j] = st.unsent[j + 1]
            /\ DOMAIN tail = 1 .. Len(tail)
        BY <1>4, <1>8, <3>1
      <3>3. new = [st EXCEPT !.unsent = tail]
        BY <1>1, <2>2, <3>1 DEF Accepted
      <3>4. /\ new \in StreamState /\ new.unsent = tail /\ new.socket = st.socket
            /\ new.inbox = st.inbox /\ new.books = st.books /\ new.latest = st.latest
            /\ new.settled = st.settled
        BY <1>4, <3>2, <3>3 DEF StreamState
      <3>5. \A j \in DOMAIN tail : j + 1 \in DOMAIN st.unsent /\ tail[j] = st.unsent[j + 1]
        BY <1>4, <1>8, <3>2
      <3>6. Orderly(new) /\ Dated(new)
        BY <1>4, <1>9, <2>2, <3>4, <3>5 DEF Orderly, Dated
      <3>7. tail # <<>> <=> Len(st.unsent) > 1
        BY <1>4, <3>2
      <3>8. key \in Contracts /\ value \in Times /\ value # Missing /\ value \in Nat
        BY <1>4, <1>7, <2>2, FeedAssumption DEF Times
      <3>9. ASSUME ~disturbed
            PROVE  \A c \in Contracts : rows[c] # Missing => rows[c] <= value
        BY <1>3, <1>4, <3>8, <3>9 DEF Sound, Forward
      <3>10. ASSUME ~disturbed PROVE Sound(new)'
        <4>1. Sound(st)
          BY <1>4, <3>10
        <4>2. \A i \in DOMAIN st.inbox : value <= st.inbox[i].ts
          BY <1>3, <1>4, <3>8, <4>1 DEF Sound, Forward
        <4>3. \A j \in DOMAIN tail : tail[j].key \in Contracts => tail[j].value = value
          BY <1>3, <1>4, <3>5, <3>8, <4>1 DEF Sound, Forward
        <4>4. \A i \in DOMAIN st.inbox : \A c \in Contracts :
                rows'[c] # Missing => rows'[c] <= st.inbox[i].ts
          BY <1>6, <3>8, <4>1, <4>2 DEF Sound, Forward
        <4>5. \A c \in Contracts : rows'[c] # Missing => rows'[c] <= value
          BY <1>6, <3>8, <3>9, <3>10
        <4>6. Forward(new)'
          BY <3>4, <4>1, <4>2, <4>3, <4>4, <4>5 DEF Sound, Forward
        <4>7. key \in DOMAIN st.books /\ value = st.books[key]
          BY <1>3, <1>4, <3>8, <4>1 DEF Sound, Told
        <4>8. Observed(new) = Observed(st) /\ Observed(st) \subseteq Contracts
          BY <1>4, <3>4, StreamFacts DEF Observed
        <4>9. \A c \in Observed(st) :
                rows'[c] = st.books[c] \/ \E j \in DOMAIN tail : tail[j].key = c
          <5> SUFFICES ASSUME NEW c \in Observed(st), rows'[c] # st.books[c]
                       PROVE  \E j \in DOMAIN tail : tail[j].key = c
            OBVIOUS
          <5>1. c # key /\ rows'[c] = rows[c]
            BY <1>6, <4>7, <4>8
          <5>2. PICK i \in DOMAIN st.unsent : st.unsent[i].key = c
            BY <4>1, <5>1 DEF Sound, Told
          <5>3. i # 1
            BY <1>3, <5>1, <5>2
          <5>4. i - 1 \in DOMAIN tail /\ tail[i - 1] = st.unsent[i]
            BY <1>4, <1>8, <3>2, <5>2, <5>3
          <5> QED BY <5>2, <5>4
        <4>10. Told(new)'
          BY <3>4, <3>5, <4>1, <4>8, <4>9 DEF Sound, Told
        <4>11. Closed(new)'
          BY <1>4, <3>4, <3>10, <4>1 DEF Sound, Closed
        <4> QED BY <4>6, <4>10, <4>11 DEF Sound
      <3>11. ASSUME ~disturbed
             PROVE  \A c \in Contracts :
                      rows[c] # Missing => rows'[c] # Missing /\ rows'[c] >= rows[c]
        <4>1. \A c \in Contracts : rows[c] # Missing => rows[c] \in Nat
          BY FeedAssumption DEF IInv, Typed, Stamp, Times
        <4> QED BY <1>6, <3>8, <3>9, <3>11, <4>1
      <3> QED BY <3>4, <3>6, <3>7, <3>10, <3>11
    <2> QED BY <2>1, <2>2
  <1>11. queue' = Enqueued(Tail(queue), s, new.unsent # <<>>)
    BY <1>5, <1>10 DEF Enqueued
  <1>12. queue' \in Seq(Users) /\ Queued'
    BY <1>1, <1>2, <1>5, <1>10, <1>11, QueueServed DEF Publish
  <1>13. ~disturbed' => ~disturbed
    BY <1>5 DEF Note
  <1>14. IInv'
    BY <1>2, <1>4, <1>5, <1>6, <1>10, <1>12, <1>13, EndOne
  <1> QED BY <1>10, <1>13, <1>14

-----------------------------------------------------------------------------
(* The loop and its process. *)

LEMMA QueueSame ==
  ASSUME IInv, Waiting' = Waiting, queue' = queue
  PROVE  Queued' /\ queue' \in Seq(Users)
  BY DEF IInv, Typed, Queued, Holds

LEMMA BuildUniverseStep ==
  ASSUME IInv, BuildUniverse
  PROVE  IInv'
  <1>1. pc = "universe" /\ current = Missing
    BY DEF BuildUniverse, IInv, Typed
  <1>2. UNCHANGED <<current, stream, broken, rows, clock>> /\ Note
    BY DEF BuildUniverse, environment
  <1>3. clock <= clock'
    BY <1>2, FeedAssumption DEF IInv, Typed, Times
  <1>4. CASE pc' = "publish" /\ tracked' \in Universes /\ queue' = Append(queue, Loop)
    <2>1. PICK q, w : q = queue /\ w = Waiting
      OBVIOUS
    <2>2. q \in Seq(Users) /\ Holds(q, w) /\ Loop \in Users /\ Loop \notin w
      BY <1>1, <2>1, FeedAssumption DEF IInv, Typed, Queued, Waiting, Users
    <2>3. Append(q, Loop) \in Seq(Users) /\ Holds(Append(q, Loop), w \cup {Loop})
      BY <2>2, HoldsAppend
    <2>4. Waiting' = w \cup {Loop}
      BY <1>2, <1>4, <2>1, <2>2 DEF Waiting
    <2>5. Queued'
      BY <1>4, <2>1, <2>3, <2>4 DEF Queued, Holds
    <2>6. Typed'
      BY <1>1, <1>2, <1>4, <2>1, <2>3 DEF IInv, Typed, Note, Windows
    <2> QED BY <1>2, <1>3, <2>5, <2>6, StreamsStay
  <1>5. CASE pc' = "ended" /\ UNCHANGED <<tracked, queue>>
    <2>1. Waiting' = Waiting
      BY <1>1, <1>2, <1>5 DEF Waiting
    <2>2. Queued' /\ queue' \in Seq(Users)
      BY <1>5, <2>1, QueueSame
    <2>3. Typed'
      BY <1>1, <1>2, <1>5, <2>2 DEF IInv, Typed, Note
    <2> QED BY <1>2, <1>3, <2>2, <2>3, StreamsStay
  <1> QED BY <1>4, <1>5 DEF BuildUniverse

\* The stream that is begun or forgotten has nothing to keep, and becomes or
\* was the one awaited.
LEMMA TurnOver ==
  ASSUME IInv, Typed', Queued', NEW s \in Streams, NEW new \in StreamState,
         stream' = [stream EXCEPT ![s] = new],
         new = stream[s] \/ Empty(new),
         UNCHANGED <<rows, clock>>, Note,
         ~disturbed' => Empty(new) /\ (s # current' => new = Idle)
                        /\ \A t \in Streams : t # s => stream[t] = Idle
  PROVE  IInv'
  <1>1. stream'[s] = new /\ \A t \in Streams : t # s => stream'[t] = stream[t]
    BY DEF IInv, Typed
  <1>2. RowsDated'
    BY DEF IInv, RowsDated
  <1>3. \A t \in Streams : Orderly(stream[t])' /\ Dated(stream[t])'
    <2> SUFFICES ASSUME NEW t \in Streams
                 PROVE  Orderly(stream[t])' /\ Dated(stream[t])'
      OBVIOUS
    <2>1. PICK after : after = stream'[t]
      OBVIOUS
    <2>2. Orderly(after) /\ Dated(after)
      BY <1>1, <2>1, Parts, EmptyKeeps
    <2>3. Dated(stream[t])'
      BY <2>1, <2>2 DEF Dated
    <2>4. Orderly(stream[t])'
      BY <2>1, <2>2 DEF Orderly, Says, Observed
    <2> QED BY <2>3, <2>4
  <1>4. ASSUME ~disturbed', NEW t \in Streams
        PROVE  Sound(stream[t])' /\ (t # current => stream[t] = Idle)'
    <2>1. PICK after : after = stream'[t]
      OBVIOUS
    <2>2. Empty(after) /\ (t # current' => after = Idle)
      BY <1>1, <1>4, <2>1, IdleFacts DEF Empty
    <2>3. Sound(after)'
      BY <2>2, EmptyKeeps
    <2>4. Sound(stream[t])'
      BY <2>1, <2>3 DEF Sound, Forward, Told, Closed, Says, Observed
    <2> QED BY <2>1, <2>2, <2>4
  <1> QED BY <1>2, <1>3, <1>4 DEF IInv, Undisturbed

LEMMA ConnectStep ==
  ASSUME IInv, Connect
  PROVE  IInv'
  <1>1. /\ pc = "connect" /\ current = Missing /\ tracked \in Windows /\ tracked' = {}
        /\ UNCHANGED <<queue, broken, rows, clock>> /\ Note
    BY DEF Connect, environment, IInv, Typed
  <1>2. CASE tracked = {}
    <2>1. pc' = "universe" /\ UNCHANGED <<current, stream>>
      BY <1>2 DEF Connect
    <2>2. Waiting' = Waiting
      BY <1>1, <2>1 DEF Waiting
    <2>3. Queued' /\ queue' \in Seq(Users)
      BY <1>1, <2>2, QueueSame
    <2>4. Typed'
      BY <1>1, <2>1, <2>3 DEF IInv, Typed, Note, Windows
    <2>5. clock <= clock'
      BY <1>1, FeedAssumption DEF IInv, Typed, Times
    <2> QED BY <1>1, <2>1, <2>3, <2>4, <2>5, StreamsStay
  <1>3. CASE tracked # {}
    <2>1. PICK s \in {t \in Streams : stream[t].socket = "none"} :
            pc' = "streaming" /\ current' = s /\ stream' = [stream EXCEPT ![s] = Fresh(tracked)]
      BY <1>3 DEF Connect
    <2>2. PICK new : new = Fresh(tracked)
      OBVIOUS
    <2>3. new \in StreamState /\ Empty(new)
      BY <1>1, <2>2, FreshFacts DEF Empty
    <2>4. stream[s].unsent = <<>> /\ new.unsent = <<>> /\ s \in Streams /\ s # Missing
      BY <2>1, <2>3, Parts, MissingAssumption DEF Orderly, Empty
    <2>5. Waiting' = Waiting
      BY <1>1, <2>1, <2>2, <2>4 DEF Waiting, IInv, Typed
    <2>6. Queued' /\ queue' \in Seq(Users)
      BY <1>1, <2>5, QueueSame
    <2>7. Typed'
      BY <1>1, <2>1, <2>2, <2>3, <2>4, <2>6 DEF IInv, Typed, Note, Windows
    <2>8. ~disturbed' => \A t \in Streams : t # s => stream[t] = Idle
      BY <1>1, MissingAssumption DEF Note, IInv, Undisturbed
    <2> QED BY <1>1, <2>1, <2>2, <2>3, <2>4, <2>6, <2>7, <2>8, TurnOver
  <1> QED BY <1>2, <1>3

LEMMA EndWindowStep ==
  ASSUME IInv, EndWindow
  PROVE  IInv'
  <1>1. /\ pc = "streaming" /\ current \in Streams /\ current' = Missing
        /\ pc' \in {"universe", "ended"}
        /\ UNCHANGED <<tracked, queue, broken, rows, clock>> /\ Note
    BY DEF EndWindow, environment, IInv, Typed
  <1>2. PICK s, st : s = current /\ st = stream[s]
    OBVIOUS
  <1>3. s \in Streams /\ st \in StreamState /\ Orderly(st) /\ st.settled # "no"
    BY <1>1, <1>2, Parts DEF EndWindow
  <1>4. PICK new : new = IF st.socket = "none" THEN Idle ELSE st
    OBVIOUS
  <1>5. new \in StreamState /\ (new = st \/ Empty(new)) /\ (new.unsent = <<>> <=> st.unsent = <<>>)
    BY <1>3, <1>4, IdleFacts DEF Orderly, Empty
  <1>6. stream' = [stream EXCEPT ![s] = new]
    BY <1>2, <1>4 DEF EndWindow
  <1>7. Waiting' = Waiting
    BY <1>1, <1>2, <1>3, <1>5, <1>6 DEF Waiting, IInv, Typed
  <1>8. Queued' /\ queue' \in Seq(Users)
    BY <1>1, <1>7, QueueSame
  <1>9. Typed'
    BY <1>1, <1>3, <1>5, <1>6, <1>8 DEF IInv, Typed, Note
  <1>10. ASSUME ~disturbed'
         PROVE  Empty(new) /\ new = Idle /\ \A t \in Streams : t # s => stream[t] = Idle
    <2>1. ~disturbed
      BY <1>1, <1>10 DEF Note
    <2>2. Sound(st) /\ \A t \in Streams : t # s => stream[t] = Idle
      BY <1>2, <1>3, <2>1, Parts
    <2>3. st.socket = "none"
      BY <1>3, <2>2 DEF Sound, Closed, StreamState
    <2> QED BY <1>4, <2>2, <2>3, IdleFacts DEF Empty
  <1> QED BY <1>1, <1>2, <1>3, <1>5, <1>6, <1>8, <1>9, <1>10, TurnOver

\* A process with no stream, over rows that were there before.
LEMMA Begins ==
  ASSUME Typed, Queued, RowsDated, \A s \in Streams : stream[s] = Idle
  PROVE  IInv
  BY IdleFacts, EmptyKeeps DEF IInv, Undisturbed, Empty

LEMMA NewProcessStep ==
  ASSUME IInv, NewProcess
  PROVE  IInv'
  <1>1. /\ pc' = "universe" /\ tracked' = {} /\ current' = Missing
        /\ queue' = <<>> /\ broken' = FALSE /\ disturbed' = FALSE
        /\ UNCHANGED <<rows, clock>>
        /\ stream' = [s \in Streams |-> Idle]
    BY DEF NewProcess
  <1>2. Typed'
    <2>1. stream' \in [Streams -> StreamState]
      BY <1>1, IdleFacts
    <2>2. queue' \in Seq(Users)
      BY <1>1, EmptySeq
    <2> QED BY <1>1, <2>1, <2>2 DEF IInv, Typed, Windows
  <1>3. Waiting' = {}
    BY <1>1, IdleFacts DEF Waiting
  <1>4. Queued'
    BY <1>1, <1>3 DEF Queued, Holds
  <1>5. RowsDated'
    BY <1>1 DEF IInv, RowsDated
  <1>6. (\A s \in Streams : stream[s] = Idle)'
    BY <1>1
  <1>7. \A s \in Streams : (Orderly(stream[s]) /\ Dated(stream[s]) /\ Sound(stream[s]))'
    BY <1>6, IdleFacts, EmptyKeeps
       DEF Empty, Orderly, Dated, Sound, Forward, Told, Closed, Observed
  <1> QED BY <1>2, <1>4, <1>5, <1>6, <1>7 DEF IInv, Undisturbed

\* Time passes, or a publish of the account fails.
LEMMA OutsideStep ==
  ASSUME IInv, Tick \/ AccountPublishFails
  PROVE  IInv'
  <1>1. UNCHANGED <<pc, tracked, current, stream, queue, rows>> /\ broken' \in BOOLEAN /\ Note
    BY DEF Tick, AccountPublishFails, process, IInv, Typed
  <1>2. clock' \in Times /\ clock <= clock'
    BY FeedAssumption DEF Tick, AccountPublishFails, environment, IInv, Typed, Times
  <1>3. Waiting' = Waiting
    BY <1>1 DEF Waiting
  <1>4. Queued'
    BY <1>1, <1>3, QueueSame
  <1>5. Typed'
    BY <1>1, <1>2 DEF IInv, Typed, Note
  <1> QED BY <1>1, <1>2, <1>4, <1>5, StreamsStay

-----------------------------------------------------------------------------
(* The theorems. *)

LEMMA InitStep == ASSUME Init PROVE IInv
  <1>1. Typed
    <2>1. stream \in [Streams -> StreamState]
      BY IdleFacts DEF Init
    <2>2. queue \in Seq(Users)
      BY EmptySeq DEF Init
    <2>3. clock \in Times
      BY FeedAssumption DEF Init, Times
    <2> QED BY <2>1, <2>2, <2>3 DEF Init, Typed, Windows, Stamp
  <1>2. Waiting = {}
    BY IdleFacts DEF Init, Waiting
  <1>3. Queued
    BY <1>2 DEF Init, Queued, Holds
  <1>4. RowsDated
    BY DEF Init, RowsDated
  <1> QED BY <1>1, <1>3, <1>4, Begins DEF Init

LEMMA NextStep == ASSUME IInv, [Next]_vars PROVE IInv'
  <1>1. CASE Next
    <2>1. CASE BuildUniverse
      BY <2>1, BuildUniverseStep
    <2>2. CASE Connect
      BY <2>2, ConnectStep
    <2>3. CASE EndWindow
      BY <2>3, EndWindowStep
    <2>4. CASE Restart \/ Kill
      BY <2>4, NewProcessStep DEF Restart, Kill
    <2>5. CASE Tick \/ AccountPublishFails
      BY <2>5, OutsideStep
    <2>6. CASE Publish
      BY <2>6, LoopServed, AcceptedStep
    <2>7. CASE PublishFails
      BY <2>7, LoopServed, RefusedStep
    <2>8. ASSUME NEW s \in Streams,
                 Open(s) \/ SocketError(s) \/ TimerClose(s) \/ ServerClose(s)
          PROVE  IInv'
      BY <2>8, SocketStep
    <2>9. ASSUME NEW s \in Streams, Deliver(s) PROVE IInv'
      BY <2>9, DeliverStep
    <2>10. ASSUME NEW s \in Streams, Report(s) PROVE IInv'
      BY <2>10, ReportStep
    <2>11. ASSUME NEW s \in Streams, NEW payload \in Events \cup {Garbage}, Receive(s, payload)
           PROVE  IInv'
      BY <2>11, ReceiveStep
    <2> QED
      BY <1>1, <2>1, <2>2, <2>3, <2>4, <2>5, <2>6, <2>7, <2>8, <2>9, <2>10, <2>11 DEF Next
  <1>2. CASE UNCHANGED vars
    <2>1. UNCHANGED <<stream, rows, current, clock, pc, tracked, queue, broken, disturbed>>
      BY <1>2 DEF vars, process, environment
    <2>2. Typed'
      BY <2>1 DEF IInv, Typed
    <2>3. Waiting' = Waiting
      BY <2>1 DEF Waiting
    <2>4. Queued'
      BY <2>1, <2>3, QueueSame
    <2>5. clock <= clock'
      BY <2>1, FeedAssumption DEF IInv, Typed, Times
    <2>6. CASE disturbed
      BY <2>1, <2>2, <2>4, <2>5, <2>6, StreamsStay DEF Note
    <2>7. CASE ~disturbed
      <3>1. \A s \in Streams : stream'[s].settled # "rejected"
        BY <2>1, <2>7 DEF IInv, Undisturbed, Sound, Closed
      <3>2. Note
        <4>1. disturbed = FALSE /\ disturbed' = FALSE
          BY <2>1, <2>7 DEF IInv, Typed
        <4>2. ~\E s \in Streams : stream'[s].settled = "rejected"
          BY <3>1
        <4> QED BY <4>1, <4>2, Zenon DEF Note
      <3> QED BY <2>1, <2>2, <2>4, <2>5, <3>2, StreamsStay
    <2> QED BY <2>6, <2>7 DEF IInv, Typed
  <1> QED BY <1>1, <1>2

LEMMA Invariance == Spec => []IInv
  BY InitStep, NextStep, PTL DEF Spec

\* Types, and the publisher's queue: in whatever order sockets open, fail and
\* close, payloads arrive and publishes fail, each stream waits for its publish
\* exactly once, so that its await returns exactly once.
THEOREM TypeCorrect == Spec => []TypeOK
  <1>1. IInv => TypeOK
    <2> SUFFICES ASSUME IInv PROVE TypeOK
      OBVIOUS
    <2>1. /\ pc \in {"universe", "publish", "connect", "streaming", "ended"}
          /\ tracked \in SUBSET Contracts /\ current \in Streams \cup {Missing}
          /\ rows[Health] \in HealthRow \cup {Missing}
          /\ \A c \in Contracts : rows[c] \in Stamp
      BY FeedAssumption DEF IInv, Typed, Windows
    <2>2. \A s \in Streams :
            /\ stream[s].socket \in {"none", "connecting", "open", "closed", "reporting"}
            /\ stream[s].settled \in {"no", "resolved", "rejected"}
            /\ stream[s].latest \in Stamp
            /\ stream[s].books \in [DOMAIN stream[s].books -> Stamp]
      <3> SUFFICES ASSUME NEW s \in Streams, NEW st, st = stream[s]
                   PROVE  /\ st.socket \in {"none", "connecting", "open", "closed", "reporting"}
                          /\ st.settled \in {"no", "resolved", "rejected"}
                          /\ st.latest \in Stamp
                          /\ st.books \in [DOMAIN st.books -> Stamp]
        OBVIOUS
      <3>1. st \in StreamState
        BY Parts
      <3> QED BY <3>1, StreamFacts DEF StreamState
    <2>3. ASSUME NEW a \in Streams \cup {Loop}
          PROVE  Cardinality({i \in DOMAIN queue : queue[i] = a})
                   = IF a = Loop THEN (IF pc = "publish" THEN 1 ELSE 0)
                     ELSE IF stream[a].unsent # <<>> THEN 1 ELSE 0
      <3>1. PICK q, w : q = queue /\ w = Waiting
        OBVIOUS
      <3>2. a \in Users /\ Holds(q, w)
        BY <3>1 DEF Users, IInv, Queued
      <3>3. Cardinality({i \in DOMAIN q : q[i] = a}) = IF a \in w THEN 1 ELSE 0
        BY <3>2, HoldsOnce
      <3>4. a \in w <=> IF a = Loop THEN pc = "publish" ELSE stream[a].unsent # <<>>
        BY <3>1, FeedAssumption DEF Waiting
      <3> QED BY <3>1, <3>3, <3>4
    <2> QED BY <2>1, <2>2, <2>3 DEF TypeOK
  <1> QED BY <1>1, Invariance, PTL

\* A window that ends well has left all it received in the tables, for any
\* number of contracts, messages and windows before it.
THEOREM WindowsAreComplete == Spec => []WindowComplete
  <1>1. IInv => WindowComplete
    <2> SUFFICES ASSUME IInv, NEW s \in Streams, ~disturbed, NEW st, st = stream[s],
                        st.settled = "resolved"
                 PROVE  /\ st.inbox = <<>>
                        /\ \A c \in Observed(st) : rows[c] = st.books[c]
                        /\ rows[Health].latest = st.latest
                        /\ rows[Health].observed = Cardinality(Observed(st))
      BY DEF WindowComplete
    <2>1. Sound(st) /\ Orderly(st)
      BY Parts
    <2>2. st.socket = "none" /\ Says(rows[Health], st)
      BY <2>1 DEF Sound, Closed
    <2>3. st.inbox = <<>> /\ st.unsent = <<>>
      BY <2>1, <2>2 DEF Orderly
    <2> QED BY <2>1, <2>2, <2>3 DEF Sound, Told, Says
  <1> QED BY <1>1, Invariance, PTL

\* A market row is never replaced by an older message, across payloads, windows
\* and processes, until a stream is rejected and left behind.
THEOREM RowsNeverGoBack == Spec => RowsMoveForward
  <1>1. ASSUME IInv, [Next]_vars, ~disturbed', NEW c \in Contracts, rows[c] # Missing
        PROVE  rows'[c] # Missing /\ rows'[c] >= rows[c]
    <2>1. rows[c] \in Nat
      BY <1>1, FeedAssumption DEF IInv, Typed, Stamp, Times
    <2>2. CASE Publish /\ Asker # Loop
      BY <1>1, <2>2, AcceptedStep
    <2>3. CASE PublishFails /\ Asker # Loop
      BY <1>1, <2>3, RefusedStep
    <2>4. CASE rows' = rows
      BY <1>1, <2>1, <2>4
    <2>5. CASE (Publish \/ PublishFails) /\ Asker = Loop
      BY <1>1, <2>4, <2>5, LoopServed
    <2>6. CASE Next /\ ~Publish /\ ~PublishFails
      <3>1. rows' = rows
        BY <2>6 DEF Next, BuildUniverse, Connect, EndWindow, Restart, Kill, NewProcess, Tick,
             AccountPublishFails, Open, SocketError, TimerClose, ServerClose, Deliver, Report,
             Receive
      <3> QED BY <2>4, <3>1
    <2>7. CASE UNCHANGED vars
      BY <2>4, <2>7 DEF vars
    <2> QED BY <1>1, <2>2, <2>3, <2>5, <2>6, <2>7
  <1>2. IInv /\ [Next]_vars =>
          [~disturbed' => \A c \in Contracts :
             rows[c] # Missing => rows'[c] # Missing /\ rows'[c] >= rows[c]]_vars
    BY <1>1
  <1> QED BY <1>2, Invariance, PTL DEF Spec, RowsMoveForward
=============================================================================
