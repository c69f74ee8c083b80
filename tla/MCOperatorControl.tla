-------------------------- MODULE MCOperatorControl --------------------------
(***************************************************************************)
(* Small instances of OperatorControl.                                     *)
(***************************************************************************)
EXTENDS OperatorControl

Say(name) == [name |-> name, arg |-> ""]
SetMode(arg) == [name |-> "mode", arg |-> arg]

TwoModes == {"paper", "prod"}
OneLiners ==
  {<<Say(name)>> : name \in {"pause", "resume", "flatten", "status"}}
  \cup {<<SetMode(arg)>> : arg \in {"prod", "live"}}

\* Every command alone, a flatten with its report, and a change of mode that
\* resumes.
SlackMessages ==
  OneLiners \cup {<<Say("flatten"), Say("status")>>, <<SetMode("prod"), Say("resume")>>}
=============================================================================
