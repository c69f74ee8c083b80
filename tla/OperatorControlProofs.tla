------------------------ MODULE OperatorControlProofs ------------------------
(***************************************************************************)
(* Proofs about OperatorControl, for any handlers, messages and modes.     *)
(***************************************************************************)
EXTENDS OperatorControl, SequenceTheorems, TLAPS

-----------------------------------------------------------------------------
(* The inductive invariant: a handler past its read is running a command   *)
(* that changes the row, and no copy asks to flatten a running system.     *)

Safe(state) == state.flatten => state.paused

InCommand ==
  \A h \in Handlers : pc[h] # "read" => todo[h] # <<>> /\ Changes(Head(todo[h]))
SafeCopies == \A h \in Handlers : Safe(copy[h])

IInv == TypeOK /\ InCommand /\ SafeCopies /\ FlattenImpliesPaused /\ RowExplained

LEMMA DefaultIsState == DefaultState \in OperatorState /\ Safe(DefaultState)
  BY ControlAssumption DEF DefaultState, OperatorState, Safe

LEMMA LoadIsState ==
  ASSUME IInv
  PROVE  LoadOperatorState \in OperatorState /\ Safe(LoadOperatorState)
  BY DefaultIsState DEF IInv, TypeOK, FlattenImpliesPaused, LoadOperatorState, Safe

LEMMA NextStateIsState ==
  ASSUME NEW state \in OperatorState, NEW command \in Commands, Changes(command)
  PROVE  /\ NextState(state, command) \in OperatorState
         /\ Safe(state) => Safe(NextState(state, command))
         /\ command.name # "resume" => ~TakesBack(state, NextState(state, command))
  <1>1. CASE command.name = "pause"
    BY <1>1 DEF NextState, OperatorState, Safe, TakesBack
  <1>2. CASE command.name = "resume"
    BY <1>2 DEF NextState, OperatorState, Safe, TakesBack
  <1>3. CASE command.name = "flatten"
    BY <1>3 DEF NextState, OperatorState, Safe, TakesBack
  <1>4. CASE command.name = "mode"
    BY <1>4 DEF NextState, OperatorState, Safe, TakesBack, Changes
  <1> QED BY <1>1, <1>2, <1>3, <1>4 DEF Changes

\* The command a handler runs is one of Commands, and what is left of the
\* message is a message.
LEMMA CommandInHand ==
  ASSUME IInv, NEW h \in Handlers, todo[h] # <<>>
  PROVE  Head(todo[h]) \in Commands /\ Tail(todo[h]) \in Seq(Commands)
  BY HeadTailProperties DEF IInv, TypeOK

-----------------------------------------------------------------------------
(* The steps. *)

LEMMA InitIInv == Init => IInv
  BY DefaultIsState, EmptySeq
  DEF Init, IInv, TypeOK, InCommand, SafeCopies, FlattenImpliesPaused, RowExplained

LEMMA ReceiveStep ==
  ASSUME IInv, NEW h \in Handlers, Receive(h)
  PROVE  IInv'
  BY ControlAssumption
  DEF Receive, IInv, TypeOK, InCommand, SafeCopies, FlattenImpliesPaused, RowExplained

LEMMA ReadOperatorStep ==
  ASSUME IInv, NEW h \in Handlers, ReadOperator(h)
  PROVE  IInv'
  <1> USE DEF IInv, TypeOK
  <1>1. CASE Changes(Head(todo[h]))
    <2>1. /\ pc' = [pc EXCEPT ![h] = "write"]
          /\ copy' = [copy EXCEPT ![h] = LoadOperatorState]
          /\ UNCHANGED <<operator, ledger, todo, failed>>
      BY <1>1 DEF ReadOperator
    <2>2. TypeOK' BY <2>1, LoadIsState
    <2>3. InCommand' BY <1>1, <2>1 DEF InCommand, ReadOperator, Changes
    <2>4. SafeCopies' BY <2>1, LoadIsState DEF SafeCopies
    <2>5. FlattenImpliesPaused' BY <2>1 DEF FlattenImpliesPaused
    <2>6. RowExplained' BY <2>1 DEF RowExplained, ReadOperator
    <2> QED BY <2>2, <2>3, <2>4, <2>5, <2>6
  <1>2. CASE ~Changes(Head(todo[h]))
    <2>1. /\ todo' = [todo EXCEPT ![h] = Tail(@)]
          /\ pc[h] = "read"
          /\ UNCHANGED <<operator, ledger, pc, copy, failed>>
      BY <1>2 DEF ReadOperator
    <2>2. TypeOK' BY <2>1, CommandInHand DEF ReadOperator
    <2>3. InCommand' BY <2>1 DEF InCommand, Changes
    <2> QED BY <2>1, <2>2, <2>3 DEF SafeCopies, FlattenImpliesPaused, RowExplained
  <1> QED BY <1>1, <1>2

LEMMA WriteOperatorStep ==
  ASSUME IInv, NEW h \in Handlers, WriteOperator(h)
  PROVE  IInv'
  <1> DEFINE next == NextState(copy[h], Head(todo[h]))
  <1>1. /\ operator' = next
        /\ copy' = [copy EXCEPT ![h] = next]
        /\ pc' = [pc EXCEPT ![h] = "log"]
        /\ UNCHANGED <<ledger, todo, failed>>
    BY DEF WriteOperator
  <1>2. todo[h] # <<>> /\ Changes(Head(todo[h]))
    BY DEF IInv, InCommand, WriteOperator
  <1>3. next \in OperatorState /\ Safe(next)
    BY <1>2, CommandInHand, NextStateIsState DEF IInv, TypeOK, SafeCopies
  <1> HIDE DEF next
  <1>4. TypeOK' BY <1>1, <1>3 DEF IInv, TypeOK
  <1>5. InCommand' BY <1>1, <1>2 DEF IInv, TypeOK, InCommand, Changes
  <1>6. SafeCopies' BY <1>1, <1>3 DEF IInv, TypeOK, SafeCopies
  <1>7. FlattenImpliesPaused' BY <1>1, <1>3 DEF IInv, FlattenImpliesPaused, Safe
  <1>8. RowExplained' BY <1>1 DEF IInv, TypeOK, RowExplained
  <1> QED BY <1>4, <1>5, <1>6, <1>7, <1>8 DEF IInv

LEMMA LogCommandStep ==
  ASSUME IInv, NEW h \in Handlers, LogCommand(h)
  PROVE  IInv'
  <1>1. /\ ledger' = ledger \cup {copy[h]}
        /\ todo' = [todo EXCEPT ![h] = Tail(@)]
        /\ pc' = [pc EXCEPT ![h] = "read"]
        /\ copy' = [copy EXCEPT ![h] = DefaultState]
        /\ UNCHANGED <<operator, failed>>
    BY DEF LogCommand
  <1>2. todo[h] # <<>> BY DEF IInv, InCommand, LogCommand
  <1>3. TypeOK' BY <1>1, <1>2, CommandInHand, DefaultIsState DEF IInv, TypeOK
  <1>4. InCommand' BY <1>1 DEF IInv, TypeOK, InCommand, Changes
  <1>5. SafeCopies' BY <1>1, DefaultIsState DEF IInv, TypeOK, SafeCopies
  <1>6. FlattenImpliesPaused'
    BY <1>1 DEF IInv, FlattenImpliesPaused, SafeCopies, Safe
  <1>7. RowExplained' BY <1>1 DEF IInv, TypeOK, RowExplained
  <1> QED BY <1>3, <1>4, <1>5, <1>6, <1>7 DEF IInv

LEMMA FailStep ==
  ASSUME IInv, NEW h \in Handlers, Fail(h)
  PROVE  IInv'
  <1>1. /\ todo' = [todo EXCEPT ![h] = <<>>]
        /\ pc' = [pc EXCEPT ![h] = "read"]
        /\ copy' = [copy EXCEPT ![h] = DefaultState]
        /\ failed' = (failed \/ pc[h] = "log")
        /\ UNCHANGED <<operator, ledger>>
    BY DEF Fail
  <1>2. TypeOK' BY <1>1, DefaultIsState, EmptySeq DEF IInv, TypeOK
  <1>3. InCommand' BY <1>1 DEF IInv, TypeOK, InCommand, Changes
  <1>4. SafeCopies' BY <1>1, DefaultIsState DEF IInv, TypeOK, SafeCopies
  <1>5. FlattenImpliesPaused' BY <1>1 DEF IInv, FlattenImpliesPaused
  <1>6. RowExplained' BY <1>1 DEF IInv, TypeOK, RowExplained
  <1> QED BY <1>2, <1>3, <1>4, <1>5, <1>6 DEF IInv

LEMMA StutterStep == IInv /\ UNCHANGED vars => IInv'
  BY DEF IInv, TypeOK, InCommand, Changes, SafeCopies, FlattenImpliesPaused, RowExplained, vars

LEMMA NextIInv == IInv /\ [Next]_vars => IInv'
  BY ReceiveStep, ReadOperatorStep, WriteOperatorStep, LogCommandStep, FailStep, StutterStep
  DEF Next

LEMMA Invariance == Spec => []IInv
  BY InitIInv, NextIInv, PTL DEF Spec

-----------------------------------------------------------------------------

\* The row, the handlers' copies and the ledger only ever hold operator states
\* of known modes, whatever messages are typed.
THEOREM TypeCorrect == Spec => []TypeOK
  <1>1. IInv => TypeOK BY DEF IInv
  <1> QED BY <1>1, Invariance, PTL

\* No interleaving of commands leaves a system that flattens and is not paused.
THEOREM FlattenAlwaysPauses == Spec => []FlattenImpliesPaused
  <1>1. IInv => FlattenImpliesPaused BY DEF IInv
  <1> QED BY <1>1, Invariance, PTL

\* The ledger accounts for the row as long as no handler dies between its two
\* writes.
THEOREM LedgerExplainsRow == Spec => []RowExplained
  <1>1. IInv => RowExplained BY DEF IInv
  <1> QED BY <1>1, Invariance, PTL

\* Nothing but a resume or a stale copy takes a pause or a flatten back.
THEOREM StopsAreKept == Spec => StopsStand
  <1> DEFINE Kept ==
        TakesBack(LoadOperatorState, LoadOperatorState') =>
          \E h \in Handlers : /\ Writes(h)
                              /\ \/ Head(todo[h]).name = "resume"
                                 \/ copy[h] # LoadOperatorState
  <1>1. ASSUME IInv, [Next]_vars PROVE [Kept]_vars
    <2>1. CASE UNCHANGED operator
      BY <2>1 DEF TakesBack, LoadOperatorState
    <2>2. ASSUME NEW h \in Handlers, WriteOperator(h) PROVE Kept
      <3> DEFINE command == Head(todo[h])
      <3>1. SUFFICES ASSUME command.name # "resume", copy[h] = LoadOperatorState
                     PROVE  ~TakesBack(LoadOperatorState, LoadOperatorState')
        BY <1>1, <2>2 DEF Writes, WriteOperator, IInv, TypeOK
      <3>2. todo[h] # <<>> /\ Changes(command)
        BY <1>1, <2>2 DEF IInv, InCommand, WriteOperator
      <3>3. command \in Commands BY <1>1, <3>2, CommandInHand
      <3>4. /\ copy[h] \in OperatorState
            /\ NextState(copy[h], command) \in OperatorState
            /\ ~TakesBack(copy[h], NextState(copy[h], command))
        BY <1>1, <3>1, <3>2, <3>3, NextStateIsState DEF IInv, TypeOK
      <3>5. LoadOperatorState' = NextState(copy[h], command)
        BY <2>2, <3>4, ControlAssumption DEF WriteOperator, LoadOperatorState
      <3> QED BY <3>1, <3>4, <3>5
    <2>3. CASE Next
      BY <2>1, <2>2, <2>3 DEF Next, Receive, ReadOperator, LogCommand, Fail
    <2> QED BY <1>1, <2>1, <2>3 DEF vars
  <1> QED BY <1>1, Invariance, PTL DEF Spec, StopsStand
=============================================================================
