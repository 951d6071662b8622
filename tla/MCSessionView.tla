--------------------------- MODULE MCSessionView ---------------------------
(* What becomes of an ask over reconnections and restarts, each side in       *)
(* its own behaviours: a tab of one session that asks once (SessionView), and *)
(* the daemon's handling of a terminal session's hooks (AdoptedSession).      *)
EXTENDS SessionView, AdoptedSession

VARIABLE side   \* the one the behaviour is about

InitOfEither ==
  /\ Init /\ AdoptedInit /\ side \in {"tab", "daemon"}
  /\ side = "daemon" => cache = NoCache

NextOfEither ==
  /\ UNCHANGED side
  /\ \/ side = "tab" /\ Next /\ UNCHANGED adoptedVars
     \/ side = "daemon" /\ AdoptedNext /\ UNCHANGED vars

OnTab(A) == side = "tab" /\ A

\* The fairness of SessionView and of AdoptedSession, each in the behaviours about it.
SpecOfEither ==
  /\ InitOfEither /\ [][NextOfEither]_<<vars, adoptedVars, side>>
  /\ WF_vars(OnTab(Flush))
  /\ WF_vars(OnTab(TakePresence \/ TakeError \/ TakeKey \/ TakeFrame))
  /\ WF_vars(OnTab(RouteSubscribe \/ RouteVerdict \/ ForwardVerdict))
  /\ WF_vars(OnTab(Finishes)) /\ WF_vars(OnTab(LinkCloses)) /\ WF_vars(OnTab(Handshake))
  /\ WF_vars(OnTab(DaemonReturns))
  /\ \A h \in Hook : WF_adoptedVars(side = "daemon" /\ Handles(h))
=============================================================================
