------------------------ MODULE OrderReconcilerProofs ------------------------
(***************************************************************************)
(* Proofs about OrderReconciler, for any orders, sizes and plans, any      *)
(* number of matches and any number of faults.                             *)
(***************************************************************************)
EXTENDS OrderReconciler, FiniteSetTheorems, SequenceTheorems, TLAPS

-----------------------------------------------------------------------------
(* The inductive invariant. *)

AtExchange == [contract : Contracts, size : Sizes, matched : Nat, live : BOOLEAN]
OrderMessages ==
  [event : {"order"}, type : {"PLACEMENT", "CANCELLATION", "UPDATE"}, order : Orders,
   contract : Contracts, size : Sizes, matched : Nat]
TradeMessages ==
  [event : {"trade"}, makers : UNION {[S -> {1}] : S \in SUBSET Orders},
   taker : Orders \cup {Nobody}, size : Nat]
Messages == OrderMessages \cup TradeMessages

\* TypeOK, with the exchange and its stream.
Typed ==
  /\ TypeOK
  /\ \A o \in DOMAIN book : /\ book[o] \in AtExchange /\ book[o].matched <= book[o].size
                            /\ book[o].live \/ book[o].matched < book[o].size
  /\ DOMAIN reported = Orders
  /\ sent \in Seq(Messages)
  /\ \A n \in DOMAIN sent : sent[n].event = "order" => sent[n].matched <= sent[n].size

Touches(message, o) ==
  IF message.event = "order" THEN message.order = o
  ELSE o \in DOMAIN message.makers \/ o = message.taker

\* The message says of o what the exchange has.
Tells(message, o) ==
  /\ message.event = "order" /\ message.order = o
  /\ message.size = book[o].size /\ message.matched = book[o].matched
  /\ OrderStatus(message) = StatusAtExchange(book[o])

IsLatest(n, o) ==
  /\ n \in DOMAIN sent /\ Tells(sent[n], o)
  /\ \A k \in DOMAIN sent : k > n => ~Touches(sent[k], o)

Known(o) ==
  /\ orders[o].filledSize = book[o].matched
  /\ reported[o].status = StatusAtExchange(book[o])
  /\ reported[o].remaining = book[o].size - book[o].matched

\* Whatever a trade made of an order, a message that sets it right is to come.
Told ==
  /\ \A n \in DOMAIN sent, o \in Orders : Touches(sent[n], o) => o \in DOMAIN book
  /\ \A o \in DOMAIN book : \E n \in DOMAIN sent : IsLatest(n, o)
  /\ \A o \in DOMAIN orders :
       /\ o \in DOMAIN book
       /\ Known(o) \/ \E n \in DOMAIN sent : IsLatest(n, o) /\ n >= next

IInv == Typed /\ Told

-----------------------------------------------------------------------------
(* The exchange. *)

\* The list made of a finite set names each element once.
LEMMA InTurn ==
  ASSUME NEW S, IsFiniteSet(S)
  PROVE  /\ Cardinality(S) \in Nat /\ SetToSeq(S) \in [1 .. Cardinality(S) -> S]
         /\ \A i, j \in 1 .. Cardinality(S) : SetToSeq(S)[i] = SetToSeq(S)[j] => i = j
         /\ \A x \in S : \E i \in 1 .. Cardinality(S) : SetToSeq(S)[i] = x
  <1> DEFINE n == Cardinality(S)
             f == SetToSeq(S)
  <1>1. n \in Nat /\ ExistsBijection(1 .. n, S)
    BY FS_CardinalityType
  <1>2. \E g \in [1 .. n -> S] : IsInjective(g)
    BY <1>1 DEF ExistsBijection, Bijection, Injection
  <1>3. f \in [1 .. n -> S] /\ IsInjective(f)
    BY <1>2 DEF SetToSeq
  <1>4. f \in Injection(1 .. n, S)
    BY <1>3 DEF Injection
  <1>5. Cardinality(1 .. n) = n
    BY <1>1, FS_Interval
  <1>6. f \in Surjection(1 .. n, S)
    BY <1>4, <1>5, FS_Injection
  <1>7. \A x \in S : \E i \in 1 .. n : f[i] = x
    BY <1>6 DEF Surjection
  <1>8. \A i, j \in 1 .. n : f[i] = f[j] => i = j
    BY <1>3 DEF IsInjective
  <1> QED BY <1>1, <1>3, <1>7, <1>8

LEMMA MessageIs ==
  ASSUME NEW type \in {"PLACEMENT", "CANCELLATION", "UPDATE"}, NEW o \in Orders,
         NEW order \in AtExchange
  PROVE  LET m == OrderMessage(type, o, order) IN
         /\ m \in Messages /\ m.event = "order" /\ m.type = type /\ m.order = o
         /\ m.size = order.size /\ m.matched = order.matched
  BY DEF OrderMessage, AtExchange, Messages, OrderMessages

\* What the exchange adds keeps the invariant, if its last word on each order it
\* changes is true.
LEMMA ExchangeSays ==
  ASSUME IInv, NEW added \in Seq(Messages), sent' = sent \o added,
         UNCHANGED <<next, memory, reported>>,
         DOMAIN book \subseteq DOMAIN book', DOMAIN book' \subseteq Orders,
         \A o \in DOMAIN book' : /\ book'[o] \in AtExchange
                                 /\ book'[o].matched <= book'[o].size
                                 /\ book'[o].live \/ book'[o].matched < book'[o].size,
         \A i \in DOMAIN added :
           /\ added[i].event = "order" => added[i].matched <= added[i].size
           /\ \A o \in Orders : Touches(added[i], o) => o \in DOMAIN book',
         \A o \in DOMAIN book' :
           \/ /\ o \in DOMAIN book /\ book'[o] = book[o]
              /\ \A i \in DOMAIN added : ~Touches(added[i], o)
           \/ \E i \in DOMAIN added :
                /\ Tells(added[i], o)'
                /\ \A j \in DOMAIN added : j > i => ~Touches(added[j], o)
  PROVE  IInv'
  <1>0. PICK l \in Nat, a \in Nat : l = Len(sent) /\ a = Len(added)
    BY DEF IInv, Typed
  <1>1. /\ sent \in Seq(Messages) /\ l \in Nat /\ a \in Nat
        /\ DOMAIN sent = 1 .. l /\ DOMAIN added = 1 .. a
    BY <1>0 DEF IInv, Typed
  <1>2. /\ sent' \in Seq(Messages) /\ DOMAIN sent' = 1 .. l + a /\ Len(sent') = l + a
        /\ \A n \in 1 .. l : sent'[n] = sent[n]
        /\ \A i \in 1 .. a : sent'[l + i] = added[i]
    BY <1>0, <1>1
  <1>3. next \in 1 .. l + 1
    BY <1>0 DEF IInv, Typed, TypeOK
  <1>4. \A n \in 1 .. l + a : n \in 1 .. l \/ (n - l \in 1 .. a /\ sent'[n] = added[n - l])
    BY <1>1, <1>2
  <1>5. ASSUME NEW n \in DOMAIN sent'
        PROVE  /\ sent'[n].event = "order" => sent'[n].matched <= sent'[n].size
               /\ \A o \in Orders : Touches(sent'[n], o) => o \in DOMAIN book'
    <2>1. CASE n \in 1 .. l
      BY <1>1, <1>2, <2>1 DEF IInv, Typed, Told
    <2>2. CASE n - l \in 1 .. a /\ sent'[n] = added[n - l]
      BY <1>1, <2>2
    <2> QED BY <1>2, <1>4, <2>1, <2>2
  <1>6. ASSUME NEW o \in DOMAIN book', o \in DOMAIN book, book'[o] = book[o],
               \A i \in DOMAIN added : ~Touches(added[i], o), NEW n, IsLatest(n, o)
        PROVE  IsLatest(n, o)' /\ n \in DOMAIN sent'
    <2>1. n \in 1 .. l /\ Tells(sent[n], o) /\ \A k \in 1 .. l : k > n => ~Touches(sent[k], o)
      BY <1>1, <1>6 DEF IsLatest
    <2>2. n \in 1 .. l + a /\ sent'[n] = sent[n]
      BY <1>1, <1>2, <2>1
    <2>3. Tells(sent[n], o)'
      BY <1>6, <2>1, <2>2 DEF Tells
    <2>4. ASSUME NEW k \in 1 .. l + a, k > n PROVE ~Touches(sent'[k], o)
      <3>1. CASE k \in 1 .. l
        BY <1>2, <2>1, <2>4, <3>1
      <3>2. CASE k - l \in 1 .. a /\ sent'[k] = added[k - l]
        BY <1>1, <1>6, <3>2
      <3> QED BY <1>4, <3>1, <3>2
    <2> QED BY <1>2, <2>2, <2>3, <2>4 DEF IsLatest
  <1>7. ASSUME NEW o \in DOMAIN book', NEW i \in DOMAIN added, Tells(added[i], o)',
               \A j \in DOMAIN added : j > i => ~Touches(added[j], o)
        PROVE  IsLatest(l + i, o)' /\ l + i \in DOMAIN sent' /\ l + i >= next
    <2>1. l + i \in 1 .. l + a /\ sent'[l + i] = added[i] /\ l + i >= next
      BY <1>1, <1>2, <1>3
    <2>2. Tells(sent[l + i], o)'
      BY <1>7, <2>1 DEF Tells
    <2>3. ASSUME NEW k \in 1 .. l + a, k > l + i PROVE ~Touches(sent'[k], o)
      <3>1. k - l \in 1 .. a /\ sent'[k] = added[k - l] /\ k - l > i
        BY <1>1, <1>4, <2>3
      <3> QED BY <1>1, <1>7, <3>1
    <2> QED BY <1>2, <2>1, <2>2, <2>3 DEF IsLatest
  <1>8. Typed'
    <2>1. TypeOK'
      <3>1. next' \in 1 .. Len(sent') + 1
        BY <1>1, <1>2, <1>3
      <3>2. /\ orders' = orders /\ contractToPlanId' = contractToPlanId
            /\ reported' = reported
        BY DEF memory
      <3> QED BY <3>1, <3>2 DEF IInv, Typed, TypeOK
    <2>2. DOMAIN reported' = Orders
      BY DEF IInv, Typed
    <2> QED BY <1>2, <1>5, <2>1, <2>2 DEF Typed
  <1>9. \A o \in DOMAIN book' : \E n \in DOMAIN sent' : IsLatest(n, o)'
    BY <1>6, <1>7 DEF IInv, Told
  <1>10. ASSUME NEW o \in DOMAIN orders'
         PROVE  /\ o \in DOMAIN book'
                /\ Known(o)' \/ \E n \in DOMAIN sent' : IsLatest(n, o)' /\ n >= next'
    <2>1. o \in DOMAIN orders /\ o \in DOMAIN book' /\ next' = next
          /\ orders' = orders /\ reported' = reported
      BY DEF IInv, Told, memory
    <2>2. CASE /\ o \in DOMAIN book /\ book'[o] = book[o]
               /\ \A i \in DOMAIN added : ~Touches(added[i], o)
      <3>1. CASE Known(o)
        BY <2>1, <2>2, <3>1 DEF Known
      <3>2. CASE \E n \in DOMAIN sent : IsLatest(n, o) /\ n >= next
        BY <1>6, <2>1, <2>2, <3>2
      <3> QED BY <2>1, <3>1, <3>2 DEF IInv, Told
    <2>3. CASE \E i \in DOMAIN added :
                 /\ Tells(added[i], o)'
                 /\ \A j \in DOMAIN added : j > i => ~Touches(added[j], o)
      BY <1>7, <2>1, <2>3
    <2> QED BY <2>1, <2>2, <2>3
  <1>11. Told'
    BY <1>5, <1>9, <1>10 DEF Told
  <1> QED BY <1>8, <1>11 DEF IInv

LEMMA StatusIs ==
  ASSUME NEW order \in AtExchange, order.matched <= order.size,
         order.live \/ order.matched < order.size
  PROVE  /\ ~order.live => StatusAtExchange(order) = "cancelled"
         /\ order.live /\ order.matched = order.size => StatusAtExchange(order) = "filled"
         /\ order.live /\ order.matched = 0 => StatusAtExchange(order) = "placed"
         /\ order.live /\ order.matched # 0 /\ order.matched # order.size
              => StatusAtExchange(order) = "partially_filled"
  <1>1. /\ order.live \in BOOLEAN /\ order.matched \in Nat /\ order.size \in Nat \ {0}
    BY ReconcilerAssumption DEF AtExchange
  <1>2. CASE ~order.live
    <2>1. order.matched # order.size
      BY <1>1, <1>2
    <2>2. StatusAtExchange(order) = "cancelled"
      BY <1>2, <2>1 DEF StatusAtExchange
    <2> QED BY <1>2, <2>2
  <1>3. CASE order.live /\ order.matched = order.size
    <2>1. order.matched # 0
      BY <1>1, <1>3
    <2>2. StatusAtExchange(order) = "filled"
      BY <1>3, <2>1 DEF StatusAtExchange
    <2> QED BY <1>3, <2>1, <2>2
  <1>4. CASE order.live /\ order.matched # order.size
    <2>1. order.matched = 0 => StatusAtExchange(order) = "placed"
      BY <1>4 DEF StatusAtExchange
    <2>2. order.matched # 0 => StatusAtExchange(order) = "partially_filled"
      BY <1>4 DEF StatusAtExchange
    <2> QED BY <1>4, <2>1, <2>2
  <1> QED BY <1>2, <1>3, <1>4

LEMMA Placing ==
  ASSUME IInv, NEW o \in Orders, NEW c \in Contracts, NEW size \in Sizes, Place(o, c, size)
  PROVE  IInv'
  <1> DEFINE order == [contract |-> c, size |-> size, matched |-> 0, live |-> TRUE]
             message == OrderMessage("PLACEMENT", o, order)
  <1>1. /\ order \in AtExchange /\ order.matched = 0 /\ order.size = size /\ order.live
        /\ size \in Nat \ {0}
    BY ReconcilerAssumption DEF AtExchange
  <1>2. /\ o \notin DOMAIN book /\ book' = With(book, o, order) /\ sent' = Append(sent, message)
        /\ UNCHANGED <<next, memory, reported>>
    BY DEF Place
  <1> HIDE DEF order
  <1>3. /\ message \in Messages /\ message.event = "order" /\ message.type = "PLACEMENT"
        /\ message.order = o /\ message.size = size /\ message.matched = 0
    BY <1>1, MessageIs
  <1> HIDE DEF message
  <1>4. /\ DOMAIN book' = DOMAIN book \cup {o} /\ book'[o] = order
        /\ \A other \in DOMAIN book : other # o /\ book'[other] = book[other]
    BY <1>2 DEF With
  <1> DEFINE added == <<message>>
  <1>5. /\ added \in Seq(Messages) /\ sent' = sent \o added
        /\ DOMAIN added = {1} /\ added[1] = message
    <2>1. sent \in Seq(Messages)
      BY DEF IInv, Typed
    <2> QED BY <1>2, <1>3, <2>1
  <1>6. StatusAtExchange(order) = "placed" /\ OrderStatus(message) = "placed"
    BY <1>1, <1>3, StatusIs DEF OrderStatus
  <1>7. Tells(message, o)'
    BY <1>1, <1>3, <1>4, <1>6 DEF Tells
  <1>8. Touches(message, o) /\ \A other : Touches(message, other) => other = o
    BY <1>3 DEF Touches
  <1>9. DOMAIN book' \subseteq Orders
    BY <1>4 DEF IInv, Typed, TypeOK
  <1> HIDE DEF added
  <1>10. \A i \in DOMAIN added :
           /\ added[i].event = "order" => added[i].matched <= added[i].size
           /\ \A other \in Orders : Touches(added[i], other) => other \in DOMAIN book'
    BY <1>1, <1>3, <1>4, <1>5, <1>8
  <1>11. \A other \in DOMAIN book' :
           \/ /\ other \in DOMAIN book /\ book'[other] = book[other]
              /\ \A i \in DOMAIN added : ~Touches(added[i], other)
           \/ \E i \in DOMAIN added :
                /\ Tells(added[i], other)'
                /\ \A j \in DOMAIN added : j > i => ~Touches(added[j], other)
    BY <1>4, <1>5, <1>7, <1>8
  <1>12. \A other \in DOMAIN book' :
           /\ book'[other] \in AtExchange /\ book'[other].matched <= book'[other].size
           /\ book'[other].live \/ book'[other].matched < book'[other].size
    BY <1>1, <1>4 DEF IInv, Typed
  <1> QED BY <1>2, <1>4, <1>5, <1>9, <1>10, <1>11, <1>12, ExchangeSays

LEMMA Cancelling ==
  ASSUME IInv, NEW o \in Orders, Cancel(o)
  PROVE  IInv'
  <1>0. PICK order, message : /\ order = [book[o] EXCEPT !.live = FALSE]
                              /\ message = OrderMessage("CANCELLATION", o, book[o])
    OBVIOUS
  <1>1. /\ o \in DOMAIN book /\ book[o] \in AtExchange /\ book[o].matched < book[o].size
    BY DEF Cancel, IInv, Typed
  <1>2. /\ book' = [book EXCEPT ![o] = order] /\ sent' = Append(sent, message)
        /\ UNCHANGED <<next, memory, reported>>
    BY <1>0 DEF Cancel
  <1>3. /\ order \in AtExchange /\ order.matched = book[o].matched /\ order.size = book[o].size
        /\ ~order.live /\ order.matched < order.size /\ order.matched <= order.size
    <2>1. /\ book[o].contract \in Contracts /\ book[o].size \in Sizes /\ book[o].matched \in Nat
          /\ order = [contract |-> book[o].contract, size |-> book[o].size,
                      matched |-> book[o].matched, live |-> FALSE]
      BY <1>0, <1>1 DEF AtExchange
    <2>2. book[o].size \in Nat
      BY <2>1, ReconcilerAssumption
    <2> QED BY <1>1, <2>1, <2>2 DEF AtExchange
  <1>4. /\ message \in Messages /\ message.event = "order" /\ message.type = "CANCELLATION"
        /\ message.order = o /\ message.size = order.size /\ message.matched = order.matched
    BY <1>0, <1>1, <1>3, MessageIs
  <1>5. /\ DOMAIN book' = DOMAIN book /\ book'[o] = order
        /\ \A other \in DOMAIN book : other # o => book'[other] = book[other]
    BY <1>1, <1>2
  <1> DEFINE added == <<message>>
  <1>6. /\ added \in Seq(Messages) /\ sent' = sent \o added
        /\ DOMAIN added = {1} /\ added[1] = message
    <2>1. sent \in Seq(Messages)
      BY DEF IInv, Typed
    <2> QED BY <1>2, <1>4, <2>1
  <1>7. StatusAtExchange(order) = "cancelled" /\ OrderStatus(message) = "cancelled"
    BY <1>3, <1>4, StatusIs DEF OrderStatus
  <1>8. Tells(message, o)'
    BY <1>4, <1>5, <1>7 DEF Tells
  <1>9. Touches(message, o) /\ \A other : Touches(message, other) => other = o
    BY <1>4 DEF Touches
  <1>10. DOMAIN book' \subseteq Orders
    BY <1>5 DEF IInv, Typed, TypeOK
  <1> HIDE DEF added
  <1>11. \A i \in DOMAIN added :
           /\ added[i].event = "order" => added[i].matched <= added[i].size
           /\ \A other \in Orders : Touches(added[i], other) => other \in DOMAIN book'
    BY <1>1, <1>3, <1>4, <1>5, <1>6, <1>9
  <1>12. \A other \in DOMAIN book' :
           \/ /\ other \in DOMAIN book /\ book'[other] = book[other]
              /\ \A i \in DOMAIN added : ~Touches(added[i], other)
           \/ \E i \in DOMAIN added :
                /\ Tells(added[i], other)'
                /\ \A j \in DOMAIN added : j > i => ~Touches(added[j], other)
    BY <1>5, <1>6, <1>8, <1>9
  <1>13. \A other \in DOMAIN book' :
           /\ book'[other] \in AtExchange /\ book'[other].matched <= book'[other].size
           /\ book'[other].live \/ book'[other].matched < book'[other].size
    BY <1>3, <1>5 DEF IInv, Typed
  <1> QED BY <1>2, <1>5, <1>6, <1>10, <1>11, <1>12, <1>13, ExchangeSays

LEMMA Matching ==
  ASSUME IInv, NEW makers \in SUBSET Orders, NEW taker \in Orders \cup {Nobody},
         Match(makers, taker)
  PROVE  IInv'
  <1>0. PICK ours, inTurn, size : /\ ours = makers \cup ({taker} \ {Nobody})
                                  /\ inTurn = SetToSeq(ours)
                                  /\ size = IF makers = {} THEN 1 ELSE Cardinality(makers)
    OBVIOUS
  <1>1. PICK updates, trade :
          /\ updates = [i \in DOMAIN inTurn |-> OrderMessage("UPDATE", inTurn[i], book'[inTurn[i]])]
          /\ trade = [event |-> "trade", makers |-> [o \in makers |-> 1], taker |-> taker,
                      size |-> size]
    OBVIOUS
  <1>2. /\ taker \notin makers /\ ours # {} /\ ours \subseteq DOMAIN book
        /\ \A o \in ours : (IF o \in makers THEN 1 ELSE size) <= Room(o)
        /\ book' = [o \in DOMAIN book |->
                     IF o \in ours
                     THEN [book[o] EXCEPT !.matched = @ + (IF o \in makers THEN 1 ELSE size)]
                     ELSE book[o]]
        /\ sent' = Append(sent, trade) \o updates
        /\ UNCHANGED <<next, memory, reported>>
    BY <1>0, <1>1 DEF Match
  <1>3. /\ ours \subseteq Orders /\ IsFiniteSet(ours) /\ IsFiniteSet(makers)
        /\ size \in Nat \ {0}
    <2>1. ours \subseteq Orders
      BY <1>0
    <2>2. IsFiniteSet(ours) /\ IsFiniteSet(makers)
      BY <2>1, ReconcilerAssumption, FS_Subset
    <2>3. makers # {} => Cardinality(makers) \in Nat \ {0}
      BY <2>2, FS_CardinalityType, FS_EmptySet
    <2> QED BY <1>0, <2>1, <2>2, <2>3
  <1>4. PICK count \in Nat :
          /\ inTurn \in [1 .. count -> ours]
          /\ \A i, j \in 1 .. count : inTurn[i] = inTurn[j] => i = j
          /\ \A o \in ours : \E i \in 1 .. count : inTurn[i] = o
    <2>1. /\ Cardinality(ours) \in Nat /\ SetToSeq(ours) \in [1 .. Cardinality(ours) -> ours]
          /\ \A i, j \in 1 .. Cardinality(ours) : SetToSeq(ours)[i] = SetToSeq(ours)[j] => i = j
          /\ \A o \in ours : \E i \in 1 .. Cardinality(ours) : SetToSeq(ours)[i] = o
      BY <1>3, InTurn
    <2>2. PICK n : n = Cardinality(ours)
      OBVIOUS
    <2> QED BY <1>0, <2>1, <2>2
  <1>5. ASSUME NEW o \in ours
        PROVE  /\ o \in DOMAIN book' /\ book'[o] \in AtExchange /\ book'[o].live
               /\ book'[o].matched <= book'[o].size /\ book'[o].matched # 0
    <2>1. PICK order, amount : order = book[o] /\ amount = IF o \in makers THEN 1 ELSE size
      OBVIOUS
    <2>2. order \in AtExchange /\ amount \in Nat \ {0} /\ order.size \in Nat
      <3>1. order \in AtExchange
        BY <1>2, <2>1 DEF IInv, Typed
      <3>2. order.size \in Sizes
        BY <3>1 DEF AtExchange
      <3>3. amount \in Nat \ {0}
        BY <1>3, <2>1
      <3> QED BY <3>1, <3>2, <3>3, ReconcilerAssumption
    <2>3. amount <= IF order.live THEN order.size - order.matched ELSE 0
      BY <1>2, <2>1 DEF Room
    <2>4. order.live /\ order.matched \in Nat /\ order.matched + amount <= order.size
      BY <2>2, <2>3 DEF AtExchange
    <2>5. book'[o] = [order EXCEPT !.matched = order.matched + amount] /\ o \in DOMAIN book'
      BY <1>2, <2>1
    <2>6. book'[o] = [contract |-> order.contract, size |-> order.size,
                     matched |-> order.matched + amount, live |-> order.live]
      BY <2>2, <2>5 DEF AtExchange
    <2> QED BY <2>2, <2>4, <2>5, <2>6 DEF AtExchange
  <1>6. /\ DOMAIN book' = DOMAIN book
        /\ \A o \in DOMAIN book : o \notin ours => book'[o] = book[o]
    BY <1>2
  <1>7. ASSUME NEW i \in 1 .. count
        PROVE  /\ updates[i] \in Messages /\ updates[i].event = "order"
               /\ updates[i].order = inTurn[i] /\ updates[i].matched <= updates[i].size
               /\ Tells(updates[i], inTurn[i])'
    <2>1. PICK o, order, message :
            /\ o = inTurn[i] /\ order = book'[o] /\ message = OrderMessage("UPDATE", o, order)
      OBVIOUS
    <2> o \in ours
      BY <1>4, <2>1
    <2>2. updates[i] = message
      BY <1>1, <1>4, <2>1
    <2>3. order \in AtExchange /\ order.live /\ order.matched <= order.size /\ order.matched # 0
      BY <1>5, <2>1
    <2>4. /\ message \in Messages /\ message.event = "order" /\ message.type = "UPDATE"
          /\ message.order = o /\ message.size = order.size /\ message.matched = order.matched
      BY <1>3, <2>1, <2>3, MessageIs
    <2>5. order.matched \in Nat /\ order.size \in Nat
      BY <2>3, ReconcilerAssumption DEF AtExchange
    <2>6. OrderStatus(message) = IF order.matched = order.size THEN "filled" ELSE "partially_filled"
      BY <2>3, <2>4, <2>5 DEF OrderStatus
    <2>7. OrderStatus(message) = StatusAtExchange(order)
      BY <2>3, <2>6, StatusIs
    <2>8. Tells(message, o)'
      BY <2>1, <2>4, <2>7 DEF Tells
    <2> QED BY <2>1, <2>2, <2>3, <2>4, <2>8
  <1>8. /\ trade \in Messages /\ trade.event = "trade"
        /\ \A o \in Orders : Touches(trade, o) => o \in ours
    <2>1. trade.event = "trade" /\ trade.makers = [o \in makers |-> 1] /\ trade.taker = taker
      BY <1>1
    <2>2. [o \in makers |-> 1] \in UNION {[S -> {1}] : S \in SUBSET Orders}
      OBVIOUS
    <2>3. trade \in TradeMessages
      BY <1>1, <1>3, <2>2 DEF TradeMessages
    <2>4. ASSUME NEW o \in Orders, Touches(trade, o) PROVE o \in ours
      BY <1>0, <2>1, <2>4, ReconcilerAssumption DEF Touches
    <2> QED BY <2>1, <2>3, <2>4 DEF Messages
  <1>9. PICK added : added = <<trade>> \o updates
    OBVIOUS
  <1>10. updates \in Seq(Messages) /\ Len(updates) = count /\ DOMAIN updates = 1 .. count
    <2>1. DOMAIN inTurn = 1 .. count
      BY <1>4
    <2>2. updates \in [1 .. count -> Messages]
      BY <1>1, <1>7, <2>1
    <2> QED BY <2>2
  <1>11. /\ added \in Seq(Messages) /\ sent' = sent \o added /\ DOMAIN added = 1 .. count + 1
         /\ added[1] = trade
         /\ \A i \in 1 .. count : i + 1 \in 1 .. count + 1 /\ added[i + 1] = updates[i]
         /\ \A i \in 1 .. count + 1 :
              i = 1 \/ (i - 1 \in 1 .. count /\ added[i] = updates[i - 1])
    <2>1. sent \in Seq(Messages)
      BY DEF IInv, Typed
    <2>2. added \in Seq(Messages) /\ Len(added) = count + 1
      BY <1>8, <1>9, <1>10
    <2>3. sent' = sent \o added
      BY <1>2, <1>8, <1>9, <1>10, <2>1
    <2> QED BY <1>8, <1>9, <1>10, <2>2, <2>3
  <1>12. DOMAIN book' \subseteq Orders
    BY <1>6 DEF IInv, Typed, TypeOK
  <1>13. ASSUME NEW i \in DOMAIN added
         PROVE  /\ added[i].event = "order" => added[i].matched <= added[i].size
                /\ \A o \in Orders : Touches(added[i], o) => o \in DOMAIN book'
    <2>1. CASE i = 1
      BY <1>2, <1>6, <1>8, <1>11, <2>1
    <2>2. CASE i - 1 \in 1 .. count /\ added[i] = updates[i - 1]
      <3>1. /\ added[i].event = "order" /\ added[i].order = inTurn[i - 1]
            /\ added[i].matched <= added[i].size
        BY <1>7, <2>2
      <3>2. inTurn[i - 1] \in DOMAIN book'
        BY <1>4, <1>5, <2>2
      <3> QED BY <3>1, <3>2 DEF Touches
    <2> QED BY <1>11, <2>1, <2>2
  <1>14. ASSUME NEW o \in DOMAIN book'
         PROVE  \/ /\ o \in DOMAIN book /\ book'[o] = book[o]
                   /\ \A i \in DOMAIN added : ~Touches(added[i], o)
                \/ \E i \in DOMAIN added :
                     /\ Tells(added[i], o)'
                     /\ \A j \in DOMAIN added : j > i => ~Touches(added[j], o)
    <2>1. CASE o \notin ours
      <3>1. ASSUME NEW i \in DOMAIN added PROVE ~Touches(added[i], o)
        <4>1. CASE i = 1
          BY <1>8, <1>11, <1>12, <2>1, <4>1
        <4>2. CASE i - 1 \in 1 .. count /\ added[i] = updates[i - 1]
          <5>1. added[i].event = "order" /\ added[i].order \in ours
            BY <1>4, <1>7, <4>2
          <5> QED BY <2>1, <5>1 DEF Touches
        <4> QED BY <1>11, <4>1, <4>2
      <3> QED BY <1>6, <2>1, <3>1
    <2>2. CASE o \in ours
      <3>1. PICK i \in 1 .. count : inTurn[i] = o
        BY <1>4, <2>2
      <3>2. Tells(added[i + 1], o)' /\ i + 1 \in DOMAIN added
        <4>1. added[i + 1] = updates[i] /\ Tells(updates[i], o)'
          BY <1>7, <1>11, <3>1
        <4> QED BY <1>11, <4>1 DEF Tells
      <3>3. ASSUME NEW j \in DOMAIN added, j > i + 1 PROVE ~Touches(added[j], o)
        <4>1. j - 1 \in 1 .. count /\ added[j] = updates[j - 1] /\ j - 1 # i
          BY <1>11, <3>3
        <4>2. inTurn[j - 1] # o
          BY <1>4, <3>1, <4>1
        <4>3. added[j].event = "order" /\ added[j].order # o
          BY <1>7, <4>1, <4>2
        <4> QED BY <4>3 DEF Touches
      <3> QED BY <3>2, <3>3
    <2> QED BY <2>1, <2>2
  <1>15. \A o \in DOMAIN book' : /\ book'[o] \in AtExchange
                                 /\ book'[o].matched <= book'[o].size
                                 /\ book'[o].live \/ book'[o].matched < book'[o].size
    BY <1>5, <1>6 DEF IInv, Typed
  <1> QED BY <1>2, <1>6, <1>11, <1>12, <1>13, <1>14, <1>15, ExchangeSays

-----------------------------------------------------------------------------
(* ingest. *)

\* A message delivered or a memory lost keeps the invariant, if each order then
\* tracked is known or has its message to come.
LEMMA MemoryChanges ==
  ASSUME IInv, UNCHANGED exchange, TypeOK', DOMAIN reported' = Orders,
         \A o \in DOMAIN orders' :
           /\ o \in DOMAIN book
           /\ Known(o)' \/ \E n \in DOMAIN sent : IsLatest(n, o) /\ n >= next'
  PROVE  IInv'
  <1>1. book' = book /\ sent' = sent
    BY DEF exchange
  <1>2. Typed'
    BY <1>1 DEF IInv, Typed
  <1>3. ASSUME NEW n, NEW o PROVE IsLatest(n, o)' <=> IsLatest(n, o)
    BY <1>1 DEF IsLatest, Tells
  <1>4. \A n \in DOMAIN sent', o \in Orders : Touches(sent'[n], o) => o \in DOMAIN book'
    BY <1>1 DEF IInv, Told
  <1>5. \A o \in DOMAIN book' : \E n \in DOMAIN sent' : IsLatest(n, o)'
    BY <1>1, <1>3 DEF IInv, Told
  <1>6. \A o \in DOMAIN orders' :
          /\ o \in DOMAIN book'
          /\ Known(o)' \/ \E n \in DOMAIN sent' : IsLatest(n, o)' /\ n >= next'
    BY <1>1, <1>3
  <1>7. Told'
    BY <1>4, <1>5, <1>6 DEF Told
  <1> QED BY <1>2, <1>7 DEF IInv

\* Of an order a delivered message does not touch, all stays as it was.
LEMMA Elsewhere ==
  ASSUME IInv, next <= Len(sent), next' = next + 1, UNCHANGED exchange,
         NEW o \in DOMAIN orders, ~Touches(sent[next], o),
         orders'[o].filledSize = orders[o].filledSize, reported'[o] = reported[o]
  PROVE  /\ o \in DOMAIN book
         /\ Known(o)' \/ \E n \in DOMAIN sent : IsLatest(n, o) /\ n >= next'
  <1>1. book' = book
    BY DEF exchange
  <1>2. o \in DOMAIN book
    BY DEF IInv, Told
  <1>3. CASE Known(o)
    BY <1>1, <1>2, <1>3 DEF Known
  <1>4. CASE \E n \in DOMAIN sent : IsLatest(n, o) /\ n >= next
    <2>1. PICK n \in DOMAIN sent : IsLatest(n, o) /\ n >= next
      BY <1>4
    <2>2. Touches(sent[n], o)
      BY <2>1 DEF IsLatest, Tells, Touches
    <2>3. n # next
      BY <2>2
    <2>4. n \in Nat /\ next \in Nat
      BY DEF IInv, Typed, TypeOK
    <2> QED BY <1>2, <2>1, <2>3, <2>4
  <1> QED BY <1>2, <1>3, <1>4 DEF IInv, Told

\* The last message about an order it touches is this one or to come.
LEMMA Touched ==
  ASSUME IInv, next <= Len(sent), NEW o \in Orders, Touches(sent[next], o)
  PROVE  /\ o \in DOMAIN book
         /\ \E n \in DOMAIN sent : IsLatest(n, o) /\ (n = next \/ n >= next + 1)
  <1>1. /\ next \in DOMAIN sent /\ next \in Nat
        /\ \A n \in DOMAIN sent : n \in Nat
    BY DEF IInv, Typed, TypeOK
  <1>2. o \in DOMAIN book
    BY <1>1 DEF IInv, Told
  <1>3. PICK n \in DOMAIN sent : IsLatest(n, o)
    BY <1>2 DEF IInv, Told
  <1>4. ~(next > n)
    BY <1>1, <1>3 DEF IsLatest
  <1> QED BY <1>1, <1>2, <1>3, <1>4

LEMMA DeliveringOrder ==
  ASSUME IInv, Deliver, IngestOrder(sent[next])
  PROVE  IInv'
  <1>0. PICK message, o, order :
          message = sent[next] /\ o = message.order /\ order = Tracked(message)
    OBVIOUS
  <1>1. /\ next <= Len(sent) /\ next \in DOMAIN sent /\ next \in Nat /\ next' = next + 1
        /\ UNCHANGED exchange /\ book' = book /\ sent' = sent
        /\ contractToPlanId' = contractToPlanId
    BY DEF Deliver, IInv, Typed, TypeOK, exchange
  <1>2. /\ message.event = "order" /\ message \in Messages
        /\ orders' = With(orders, o, order)
        /\ reported' = [reported EXCEPT ![o] = OrderEvent(order, OrderStatus(message))]
    <2>1. message \in Messages
      BY <1>0, <1>1 DEF IInv, Typed
    <2> QED BY <1>0, <2>1 DEF IngestOrder
  <1>3. message \in OrderMessages /\ o \in Orders /\ message.matched <= message.size
    <2>1. message \notin TradeMessages
      BY <1>2 DEF TradeMessages
    <2>2. message \in OrderMessages
      BY <1>2, <2>1 DEF Messages
    <2> QED BY <1>0, <1>1, <1>2, <2>2 DEF OrderMessages, IInv, Typed
  <1>4. /\ message.contract \in Contracts /\ message.size \in Sizes /\ message.size \in Nat
        /\ message.matched \in Nat
        /\ message.type \in {"PLACEMENT", "CANCELLATION", "UPDATE"}
    BY <1>3, ReconcilerAssumption DEF OrderMessages
  <1>5. /\ order.contract = message.contract /\ order.originalSize = message.size
        /\ order.filledSize = message.matched
    BY <1>0 DEF Tracked
  <1>6. Remaining(order) = message.size - message.matched
    BY <1>3, <1>4, <1>5 DEF Remaining, MinOf
  <1>7. /\ DOMAIN orders' = DOMAIN orders \cup {o} /\ orders'[o] = order
        /\ \A other \in DOMAIN orders : other # o => orders'[other] = orders[other]
    BY <1>2 DEF With
  <1>8. PICK event : event = OrderEvent(order, OrderStatus(message))
    OBVIOUS
  <1>9. /\ event.status = OrderStatus(message) /\ event.plan = contractToPlanId[message.contract]
        /\ event.remaining = message.size - message.matched
    BY <1>5, <1>6, <1>8 DEF OrderEvent
  <1>10. /\ DOMAIN reported' = Orders /\ reported'[o] = event
         /\ \A other \in Orders : other # o => reported'[other] = reported[other]
    BY <1>2, <1>3, <1>8 DEF IInv, Typed
  <1>11. TypeOK'
    <2>1. OrderStatus(message) \in Statuses
      BY <1>4 DEF OrderStatus, Statuses
    <2>2. DOMAIN orders' \subseteq Orders
      BY <1>3, <1>7 DEF IInv, Typed, TypeOK
    <2>3. ASSUME NEW other \in DOMAIN orders'
          PROVE  /\ orders'[other].contract \in Contracts
                 /\ orders'[other].originalSize \in Sizes
                 /\ orders'[other].filledSize \in 0 .. orders'[other].originalSize
      <3>1. CASE other = o
        BY <1>3, <1>4, <1>5, <1>7, <3>1
      <3>2. CASE other # o /\ other \in DOMAIN orders
        BY <1>7, <3>2 DEF IInv, Typed, TypeOK
      <3> QED BY <1>7, <3>1, <3>2
    <2>4. ASSUME NEW other \in Orders, reported'[other] # Nobody
          PROVE  /\ reported'[other].status \in Statuses
                 /\ reported'[other].plan \in Plans \cup {Nobody}
      <3>1. CASE other = o
        BY <1>4, <1>9, <1>10, <2>1, <3>1 DEF IInv, Typed, TypeOK
      <3>2. CASE other # o
        BY <1>10, <2>4, <3>2 DEF IInv, Typed, TypeOK
      <3> QED BY <3>1, <3>2
    <2>5. next' \in 1 .. Len(sent') + 1
      BY <1>1 DEF IInv, Typed, TypeOK
    <2> QED BY <1>1, <2>2, <2>3, <2>4, <2>5 DEF IInv, Typed, TypeOK
  <1>12. ASSUME NEW other \in DOMAIN orders'
         PROVE  /\ other \in DOMAIN book
                /\ Known(other)' \/ \E n \in DOMAIN sent : IsLatest(n, other) /\ n >= next'
    <2>1. CASE other = o
      <3>1. Touches(sent[next], o)
        BY <1>0, <1>2 DEF Touches
      <3>2. PICK n \in DOMAIN sent : IsLatest(n, o) /\ (n = next \/ n >= next + 1)
        BY <1>1, <1>3, <3>1, Touched
      <3>3. o \in DOMAIN book
        BY <1>1, <1>3, <3>1, Touched
      <3>4. CASE n = next
        <4>1. Tells(message, o)
          BY <1>0, <3>2, <3>4 DEF IsLatest
        <4>2. /\ message.size = book[o].size /\ message.matched = book[o].matched
              /\ OrderStatus(message) = StatusAtExchange(book[o])
          BY <4>1 DEF Tells
        <4>3. Known(o)'
          BY <1>1, <1>5, <1>7, <1>9, <1>10, <4>2 DEF Known
        <4> QED BY <2>1, <3>3, <4>3
      <3>5. CASE n >= next + 1
        BY <1>1, <2>1, <3>2, <3>3, <3>5
      <3> QED BY <3>2, <3>4, <3>5
    <2>2. CASE other # o /\ other \in DOMAIN orders
      <3>1. ~Touches(sent[next], other)
        BY <1>0, <1>2, <2>2 DEF Touches
      <3>2. orders'[other] = orders[other] /\ reported'[other] = reported[other]
        BY <1>7, <1>10, <2>2 DEF IInv, Typed, TypeOK
      <3> QED BY <1>1, <2>2, <3>1, <3>2, Elsewhere
    <2> QED BY <1>7, <2>1, <2>2
  <1> QED BY <1>1, <1>10, <1>11, <1>12, MemoryChanges

LEMMA DeliveringTrade ==
  ASSUME IInv, Deliver, IngestTrade(sent[next])
  PROVE  IInv'
  <1>0. PICK message, fills : message = sent[next] /\ fills = TradeFills(message)
    OBVIOUS
  <1>1. /\ next <= Len(sent) /\ next \in DOMAIN sent /\ next \in Nat /\ next' = next + 1
        /\ UNCHANGED exchange /\ book' = book /\ sent' = sent
        /\ contractToPlanId' = contractToPlanId
    BY DEF Deliver, IInv, Typed, TypeOK, exchange
  <1>2. /\ message.event = "trade" /\ message \in Messages
        /\ orders' = [o \in DOMAIN orders |->
                      IF o \in DOMAIN fills THEN [orders[o] EXCEPT !.filledSize = fills[o]]
                      ELSE orders[o]]
        /\ reported' = [o \in Orders |->
             IF o \in DOMAIN fills
             THEN OrderEvent(orders'[o], IF Remaining(orders'[o]) = 0 THEN "filled" ELSE "trade_update")
             ELSE reported[o]]
    <2>1. message \in Messages
      BY <1>0, <1>1 DEF IInv, Typed
    <2> QED BY <1>0, <2>1 DEF IngestTrade
  <1>3. /\ DOMAIN message.makers \subseteq Orders
        /\ \A o \in DOMAIN message.makers : message.makers[o] = 1
        /\ message.size \in Nat
    <2>1. message \notin OrderMessages
      BY <1>2 DEF OrderMessages
    <2>2. message \in TradeMessages
      BY <1>2, <2>1 DEF Messages
    <2>3. message.makers \in UNION {[S -> {1}] : S \in SUBSET Orders} /\ message.size \in Nat
      BY <2>2 DEF TradeMessages
    <2> QED BY <2>3
  <1>4. ASSUME NEW o \in DOMAIN fills
        PROVE  /\ o \in DOMAIN orders /\ Touches(message, o)
               /\ fills[o] \in 0 .. orders[o].originalSize
    <2> DEFINE makers == DOMAIN message.makers \cap DOMAIN orders
    <2>1. CASE makers # {}
      <3>1. fills = [maker \in makers |-> message.makers[maker]]
        BY <1>0, <2>1 DEF TradeFills
      <3>2. o \in makers /\ fills[o] = 1
        BY <1>3, <3>1
      <3>3. orders[o].originalSize \in Nat \ {0}
        BY <3>2, ReconcilerAssumption DEF IInv, Typed, TypeOK
      <3> QED BY <1>2, <3>2, <3>3 DEF Touches
    <2>2. CASE makers = {}
      <3>1. fills = [taker \in {message.taker} \cap DOMAIN orders |->
                      TakerFill(orders[taker], message.size)]
        BY <1>0, <2>2 DEF TradeFills
      <3>2. o = message.taker /\ o \in DOMAIN orders /\ fills[o] = TakerFill(orders[o], message.size)
        BY <3>1
      <3>3. /\ orders[o].originalSize \in Nat
            /\ orders[o].filledSize \in 0 .. orders[o].originalSize
        BY <3>2, ReconcilerAssumption DEF IInv, Typed, TypeOK
      <3>4. TakerFill(orders[o], message.size) \in 0 .. orders[o].originalSize
        BY <1>3, <3>3 DEF TakerFill, MinOf
      <3> QED BY <1>2, <3>2, <3>4 DEF Touches
    <2> QED BY <2>1, <2>2
  <1>5. DOMAIN orders' = DOMAIN orders /\ DOMAIN reported' = Orders
    BY <1>2
  <1>6. TypeOK'
    <2>1. ASSUME NEW o \in DOMAIN orders
          PROVE  /\ orders'[o].contract \in Contracts
                 /\ orders'[o].originalSize \in Sizes
                 /\ orders'[o].filledSize \in 0 .. orders'[o].originalSize
      BY <1>2, <1>4 DEF IInv, Typed, TypeOK
    <2>2. ASSUME NEW o \in Orders, reported'[o] # Nobody
          PROVE  /\ reported'[o].status \in Statuses
                 /\ reported'[o].plan \in Plans \cup {Nobody}
      <3>1. CASE o \in DOMAIN fills
        <4>1. o \in DOMAIN orders
          BY <1>4, <3>1
        <4>2. PICK status \in Statuses : reported'[o] = OrderEvent(orders'[o], status)
          BY <1>2, <3>1 DEF Statuses
        <4>3. orders'[o].contract \in Contracts
          BY <2>1, <4>1
        <4> QED BY <4>2, <4>3 DEF OrderEvent, IInv, Typed, TypeOK
      <3>2. CASE o \notin DOMAIN fills
        BY <1>2, <2>2, <3>2 DEF IInv, Typed, TypeOK
      <3> QED BY <3>1, <3>2
    <2>3. next' \in 1 .. Len(sent') + 1
      BY <1>1 DEF IInv, Typed, TypeOK
    <2> QED BY <1>1, <1>5, <2>1, <2>2, <2>3 DEF IInv, Typed, TypeOK
  <1>7. ASSUME NEW o \in DOMAIN orders'
        PROVE  /\ o \in DOMAIN book
               /\ Known(o)' \/ \E n \in DOMAIN sent : IsLatest(n, o) /\ n >= next'
    <2>1. o \in DOMAIN orders /\ o \in Orders
      BY <1>5 DEF IInv, Typed, TypeOK
    <2>2. CASE Touches(message, o)
      <3>1. /\ o \in DOMAIN book
            /\ \E n \in DOMAIN sent : IsLatest(n, o) /\ (n = next \/ n >= next + 1)
        BY <1>0, <1>1, <2>1, <2>2, Touched
      <3>2. ~IsLatest(next, o)
        BY <1>0, <1>2 DEF IsLatest, Tells
      <3> QED BY <1>1, <3>1, <3>2
    <2>3. CASE ~Touches(message, o)
      <3>1. o \notin DOMAIN fills
        BY <1>4, <2>3
      <3>2. orders'[o] = orders[o] /\ reported'[o] = reported[o]
        BY <1>2, <2>1, <3>1
      <3> QED BY <1>0, <1>1, <2>1, <2>3, <3>2, Elsewhere
    <2> QED BY <2>2, <2>3
  <1> QED BY <1>1, <1>5, <1>6, <1>7, MemoryChanges

-----------------------------------------------------------------------------
(* Plans and faults. *)

LEMMA Registering ==
  ASSUME IInv, NEW plan \in Plans, NEW contracts \in SUBSET Contracts,
         RegisterIntent(plan, contracts)
  PROVE  IInv'
  <1>1. /\ contractToPlanId' = [c \in Contracts |->
                                IF c \in contracts THEN plan ELSE contractToPlanId[c]]
        /\ UNCHANGED exchange /\ book' = book /\ sent' = sent
        /\ next' = next /\ orders' = orders /\ reported' = reported
    BY DEF RegisterIntent, exchange
  <1>2. contractToPlanId' \in [Contracts -> Plans \cup {Nobody}]
    BY <1>1 DEF IInv, Typed, TypeOK
  <1>3. TypeOK' /\ DOMAIN reported' = Orders
    BY <1>1, <1>2 DEF IInv, Typed, TypeOK
  <1>4. \A o \in DOMAIN orders : Known(o)' <=> Known(o)
    BY <1>1 DEF Known
  <1>5. \A o \in DOMAIN orders' :
          /\ o \in DOMAIN book
          /\ Known(o)' \/ \E n \in DOMAIN sent : IsLatest(n, o) /\ n >= next'
    BY <1>1, <1>4 DEF IInv, Told
  <1> QED BY <1>1, <1>3, <1>5, MemoryChanges

\* A message repeated is followed by the later ones again.
LEMMA Reconnecting ==
  ASSUME IInv, Reconnect
  PROVE  IInv'
  <1>1. /\ next' \in 1 .. next /\ UNCHANGED exchange /\ book' = book /\ sent' = sent
        /\ contractToPlanId' = contractToPlanId /\ orders' = orders /\ reported' = reported
    BY DEF Reconnect, exchange, memory
  <1>2. next \in Nat /\ next' \in Nat /\ next' <= next
    BY <1>1 DEF IInv, Typed, TypeOK
  <1>3. next' \in 1 .. Len(sent') + 1
    BY <1>1 DEF IInv, Typed, TypeOK
  <1>4. TypeOK' /\ DOMAIN reported' = Orders
    BY <1>1, <1>3 DEF IInv, Typed, TypeOK
  <1>5. \A o \in DOMAIN orders : Known(o)' <=> Known(o)
    BY <1>1 DEF Known
  <1>6. \A n \in DOMAIN sent : n \in Nat
    BY DEF IInv, Typed
  <1>7. \A o \in DOMAIN orders' :
          /\ o \in DOMAIN book
          /\ Known(o)' \/ \E n \in DOMAIN sent : IsLatest(n, o) /\ n >= next'
    BY <1>1, <1>2, <1>5, <1>6 DEF IInv, Told
  <1> QED BY <1>1, <1>4, <1>7, MemoryChanges

LEMMA Restarting ==
  ASSUME IInv, Restart
  PROVE  IInv'
  <1>1. /\ DOMAIN orders' = {} /\ contractToPlanId' = [c \in Contracts |-> Nobody]
        /\ UNCHANGED exchange /\ book' = book /\ sent' = sent
        /\ next' = next /\ reported' = reported
    BY DEF Restart, exchange
  <1>2. TypeOK' /\ DOMAIN reported' = Orders
    BY <1>1 DEF IInv, Typed, TypeOK
  <1> QED BY <1>1, <1>2, MemoryChanges

-----------------------------------------------------------------------------
(* The theorems. *)

LEMMA InitHolds == Init => IInv
  <1> SUFFICES ASSUME Init PROVE IInv
    OBVIOUS
  <1>1. /\ DOMAIN book = {} /\ DOMAIN orders = {} /\ sent = <<>> /\ next = 1
        /\ contractToPlanId = [c \in Contracts |-> Nobody]
        /\ reported = [o \in Orders |-> Nobody]
    BY DEF Init
  <1>2. sent \in Seq(Messages) /\ Len(sent) = 0 /\ DOMAIN sent = {}
    BY <1>1
  <1>3. TypeOK
    BY <1>1, <1>2 DEF TypeOK
  <1>4. Typed
    BY <1>1, <1>2, <1>3 DEF Typed
  <1>5. Told
    BY <1>1, <1>2 DEF Told
  <1> QED BY <1>4, <1>5 DEF IInv

LEMMA StepKeeps == IInv /\ [Next]_vars => IInv'
  <1> SUFFICES ASSUME IInv, [Next]_vars PROVE IInv'
    OBVIOUS
  <1>1. CASE \E o \in Orders : Cancel(o)
    BY <1>1, Cancelling
  <1>2. CASE \E o \in Orders, c \in Contracts, size \in Sizes : Place(o, c, size)
    BY <1>2, Placing
  <1>3. CASE \E makers \in SUBSET Orders, taker \in Orders \cup {Nobody} : Match(makers, taker)
    BY <1>3, Matching
  <1>4. CASE Deliver
    <2>1. IngestOrder(sent[next]) \/ IngestTrade(sent[next])
      BY <1>4 DEF Deliver
    <2> QED BY <1>4, <2>1, DeliveringOrder, DeliveringTrade
  <1>5. CASE \E plan \in Plans, contracts \in SUBSET Contracts \ {{}} :
               RegisterIntent(plan, contracts)
    BY <1>5, Registering
  <1>6. CASE Reconnect
    BY <1>6, Reconnecting
  <1>7. CASE Restart
    BY <1>7, Restarting
  <1>8. CASE UNCHANGED vars
    <2>1. /\ UNCHANGED exchange /\ book' = book /\ sent' = sent /\ next' = next
          /\ orders' = orders /\ contractToPlanId' = contractToPlanId /\ reported' = reported
      BY <1>8 DEF vars, exchange, memory
    <2>2. TypeOK' /\ DOMAIN reported' = Orders
      BY <2>1 DEF IInv, Typed, TypeOK
    <2>3. \A o \in DOMAIN orders : Known(o)' <=> Known(o)
      BY <2>1 DEF Known
    <2>4. \A o \in DOMAIN orders' :
            /\ o \in DOMAIN book
            /\ Known(o)' \/ \E n \in DOMAIN sent : IsLatest(n, o) /\ n >= next'
      BY <2>1, <2>3 DEF IInv, Told
    <2> QED BY <2>1, <2>2, <2>4, MemoryChanges
  <1> QED BY <1>1, <1>2, <1>3, <1>4, <1>5, <1>6, <1>7, <1>8 DEF Next

\* Types, and no order is ever tracked as filled beyond its size (the cap of
\* applyTradeFill), however many trades are repeated.
THEOREM TypeCorrect == Spec => []TypeOK
  <1>1. IInv => TypeOK
    BY DEF IInv, Typed
  <1> QED BY <1>1, InitHolds, StepKeeps, PTL DEF Spec

\* When the stream has been delivered, what ingest tracks and last reported of
\* each order is what the exchange has, for any number of orders, matches,
\* repeated messages and restarts.
THEOREM Reconciled == Spec => []ReconciledWhenQuiet
  <1>1. ASSUME IInv PROVE ReconciledWhenQuiet
    <2>1. next \in Nat /\ Len(sent) \in Nat /\ DOMAIN sent = 1 .. Len(sent)
      BY <1>1 DEF IInv, Typed, TypeOK
    <2>2. ASSUME next > Len(sent), NEW o \in DOMAIN orders PROVE Known(o)
      <3>1. ~ \E n \in DOMAIN sent : n >= next
        BY <2>1, <2>2
      <3> QED BY <1>1, <2>2, <3>1 DEF IInv, Told
    <2> QED BY <2>2 DEF ReconciledWhenQuiet, Known
  <1> QED BY <1>1, InitHolds, StepKeeps, PTL DEF Spec
=============================================================================
