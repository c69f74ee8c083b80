--------------------------- MODULE OperatorControl ---------------------------
(***************************************************************************)
(* Operator commands: openclaw-control/src/commands.ts as the Slack        *)
(* runtime (openclaw-runtime/src/runtime.ts) calls it.                     *)
(*                                                                         *)
(* Slack messages are handled concurrently.  A message is a list of        *)
(* commands, one per line, run one after the other; a command reads the    *)
(* operator row, writes it back whole, and then writes the ledger.  A      *)
(* handler may end at any of its awaits, by an exception or with its       *)
(* process.                                                                *)
(***************************************************************************)
EXTENDS Sequences

CONSTANTS
  Handlers,    \* messages being handled at a time
  Messages,    \* what a message may say: sequences of commands
  Modes,       \* "sim", "paper" and "prod"
  DefaultMode, \* the mode of a system without an operator row
  Missing      \* no operator row

OperatorState == [mode : Modes, paused : BOOLEAN, flatten : BOOLEAN]

\* arg is what follows "mode", any string or none, and is not looked at otherwise.
Commands == [name : {"pause", "resume", "flatten", "mode", "status"}, arg : STRING]

ASSUME ControlAssumption ==
  /\ DefaultMode \in Modes
  /\ Missing \notin OperatorState
  /\ Messages \subseteq Seq(Commands)

VARIABLES
  operator,  \* control#operator: an OperatorState or Missing
  ledger,    \* operator#commands: the operator states its entries hold
  todo,      \* handler -> commands still to run, the current one first
  pc,        \* handler -> the next step of its current command
  copy,      \* handler -> the operator state it read, then the one it wrote
  failed     \* history: some handler ended between the row and the ledger

vars == <<operator, ledger, todo, pc, copy, failed>>

DefaultState == [mode |-> DefaultMode, paused |-> FALSE, flatten |-> FALSE]
LoadOperatorState == IF operator = Missing THEN DefaultState ELSE operator

\* Mutant of Changes: mode takes any argument.
ChangesAnyMode(command) == command.name # "status"

\* A mode command without a known mode answers and writes nothing; nor do the
\* commands that only report.
Changes(command) ==
  \/ command.name \in {"pause", "resume", "flatten"}
  \/ command.name = "mode" /\ command.arg \in Modes

\* Mutant of NextState: a flatten does not pause.
NextStateFlattenRuns(state, command) ==
  CASE command.name = "pause"   -> [state EXCEPT !.paused = TRUE]
    [] command.name = "resume"  -> [state EXCEPT !.paused = FALSE, !.flatten = FALSE]
    [] command.name = "flatten" -> [state EXCEPT !.flatten = TRUE]
    [] command.name = "mode"    -> [state EXCEPT !.mode = command.arg]

\* Mutant of NextState: a mode change starts from the default state.
NextStateModeAnew(state, command) ==
  CASE command.name = "pause"   -> [state EXCEPT !.paused = TRUE]
    [] command.name = "resume"  -> [state EXCEPT !.paused = FALSE, !.flatten = FALSE]
    [] command.name = "flatten" -> [state EXCEPT !.paused = TRUE, !.flatten = TRUE]
    [] command.name = "mode"    -> [DefaultState EXCEPT !.mode = command.arg]

NextState(state, command) ==
  CASE command.name = "pause"   -> [state EXCEPT !.paused = TRUE]
    [] command.name = "resume"  -> [state EXCEPT !.paused = FALSE, !.flatten = FALSE]
    [] command.name = "flatten" -> [state EXCEPT !.paused = TRUE, !.flatten = TRUE]
    [] command.name = "mode"    -> [state EXCEPT !.mode = command.arg]

Init ==
  /\ operator = Missing
  /\ ledger = {}
  /\ todo = [h \in Handlers |-> <<>>]
  /\ pc = [h \in Handlers |-> "read"]
  /\ copy = [h \in Handlers |-> DefaultState]
  /\ failed = FALSE

Receive(h) ==
  /\ todo[h] = <<>>
  /\ \E message \in Messages : todo' = [todo EXCEPT ![h] = message]
  /\ UNCHANGED <<operator, ledger, pc, copy, failed>>

\* Every command reads the operator row first, the reports too.
ReadOperator(h) ==
  /\ todo[h] # <<>> /\ pc[h] = "read"
  /\ IF Changes(Head(todo[h]))
     THEN /\ pc' = [pc EXCEPT ![h] = "write"]
          /\ copy' = [copy EXCEPT ![h] = LoadOperatorState]
          /\ UNCHANGED todo
     ELSE /\ todo' = [todo EXCEPT ![h] = Tail(@)]
          /\ UNCHANGED <<pc, copy>>
  /\ UNCHANGED <<operator, ledger, failed>>

\* Mutant of WriteOperator: what will be logged is the state that was read.
WriteOperatorLogsRead(h) ==
  /\ pc[h] = "write"
  /\ operator' = NextState(copy[h], Head(todo[h]))
  /\ pc' = [pc EXCEPT ![h] = "log"]
  /\ UNCHANGED <<ledger, todo, copy, failed>>

WriteOperator(h) ==
  /\ pc[h] = "write"
  /\ operator' = NextState(copy[h], Head(todo[h]))
  /\ copy' = [copy EXCEPT ![h] = operator']
  /\ pc' = [pc EXCEPT ![h] = "log"]
  /\ UNCHANGED <<ledger, todo, failed>>

LogCommand(h) ==
  /\ pc[h] = "log"
  /\ ledger' = ledger \cup {copy[h]}
  /\ todo' = [todo EXCEPT ![h] = Tail(@)]
  /\ pc' = [pc EXCEPT ![h] = "read"]
  /\ copy' = [copy EXCEPT ![h] = DefaultState]
  /\ UNCHANGED <<operator, failed>>

\* An exception in one command ends the message.
Fail(h) ==
  /\ todo[h] # <<>>
  /\ todo' = [todo EXCEPT ![h] = <<>>]
  /\ pc' = [pc EXCEPT ![h] = "read"]
  /\ copy' = [copy EXCEPT ![h] = DefaultState]
  /\ failed' = (failed \/ pc[h] = "log")
  /\ UNCHANGED <<operator, ledger>>

Next ==
  \E h \in Handlers :
    Receive(h) \/ ReadOperator(h) \/ WriteOperator(h) \/ LogCommand(h) \/ Fail(h)

Spec == Init /\ [][Next]_vars

-----------------------------------------------------------------------------
(* Correctness. *)

\* The row, the copies and the ledger hold operator states of known modes only,
\* whatever is typed after "mode".
TypeOK ==
  /\ operator \in OperatorState \cup {Missing}
  /\ ledger \subseteq OperatorState
  /\ todo \in [Handlers -> Seq(Commands)]
  /\ pc \in [Handlers -> {"read", "write", "log"}]
  /\ copy \in [Handlers -> OperatorState]
  /\ failed \in BOOLEAN

\* A system asked to flatten is paused as well, in the row and in every logged
\* state, whatever commands overlap: the decision cycle stops on either flag,
\* the worker looks at flatten alone.
FlattenImpliesPaused ==
  /\ operator # Missing => (operator.flatten => operator.paused)
  /\ \A state \in ledger : state.flatten => state.paused

\* Until a handler ends between its two writes, every command that wrote the
\* row, and is not still about to log, is in the ledger: the row is a logged
\* state or the one a handler is about to log.
RowExplained ==
  operator # Missing /\ ~failed =>
    \/ operator \in ledger
    \/ \E h \in Handlers : pc[h] = "log" /\ copy[h] = operator

TakesBack(old, new) == (old.paused /\ ~new.paused) \/ (old.flatten /\ ~new.flatten)
Writes(h) == pc[h] = "write" /\ pc'[h] = "log"

\* A pause or a flatten in the row is taken back only by a resume, or by a
\* command that read the row before it was written.
StopsStand ==
  [][TakesBack(LoadOperatorState, LoadOperatorState') =>
       \E h \in Handlers : /\ Writes(h)
                           /\ \/ Head(todo[h]).name = "resume"
                              \/ copy[h] # LoadOperatorState]_vars

-----------------------------------------------------------------------------
(* What documents of the repository say and the code does not do. *)

\* commands.ts:437, the answer to a pause: "new execution requests must halt
\* until resume".
HaltUntilResume ==
  [][TakesBack(LoadOperatorState, LoadOperatorState') =>
       \E h \in Handlers : Writes(h) /\ Head(todo[h]).name = "resume"]_vars
=============================================================================
