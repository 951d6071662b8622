------------------------- MODULE SessionGateProofs -------------------------
(***************************************************************************)
(* What holds of SessionGate for every set of sessions and gates and every *)
(* bound: its types, one turn at a time, no unapproved tool, a transcript  *)
(* that tells what the agent was told, and that the daemon implements      *)
(* ApprovalGate.                                                           *)
(***************************************************************************)
EXTENDS SessionGate, TLAPS

\* Nothing of a session exists before its launch is past the workspace.
LaunchFirst ==
  /\ \A s \in Session : launch[s] # "over" =>
       turn[s] = 0 /\ s \notin active /\ runs[s] = {} /\ aborted[s] = {} /\ s \notin conv
  /\ \A g \in Gate : owner[g] \in Session => launch[owner[g]] = "over"

\* A call has an owner once made and a reply once settled, and only then; only a
\* file-writing tool's call is ever diffing.
CallShape ==
  \A g \in Gate :
    /\ phase[g] = "unasked" <=> owner[g] = NoSession
    /\ phase[g] = "settled" <=> reply[g] # "none"
    /\ phase[g] \in {"unasked", "diffing"} => verdict[g] = "none"
    /\ phase[g] = "diffing" => tool[g] = "edit"
    /\ sent[g] # {} => phase[g] \in {"pending", "settled"}
    /\ "answer" \in sent[g] => tool[g] = "question"
    /\ sent[g] \cap {"allow", "deny"} # {} => tool[g] # "question"

IInv == TypeOK /\ LaunchFirst /\ OneTurnAtATime /\ CallShape
             /\ NoUnapprovedTool /\ TranscriptTellsTheReply

USE DEF Turns, Status, EndStatus, Mode, Tool, Phase, Verdict, Behavior, Denial, Reply

LEMMA InitIInv == Init => IInv
<1> SUFFICES ASSUME Init PROVE IInv
  OBVIOUS
<1> USE ConstantsOK DEF Init
<1>1. TypeOK
  <2>1. turn \in [Session -> 0 .. MaxTurns] /\ ownTurn \in [Gate -> 0 .. MaxTurns]
    OBVIOUS
  <2>2. QED
    BY <2>1 DEF TypeOK
<1>2. LaunchFirst  BY DEF LaunchFirst
<1>3. OneTurnAtATime  BY DEF OneTurnAtATime
<1>4. CallShape  BY DEF CallShape
<1>5. NoUnapprovedTool
  <2> SUFFICES ASSUME NEW g \in Gate PROVE reply[g] \notin {"allow", "policy"}
    BY DEF NoUnapprovedTool
  <2> QED  OBVIOUS
<1>6. TranscriptTellsTheReply  BY DEF TranscriptTellsTheReply
<1>7. QED  BY <1>1, <1>2, <1>3, <1>4, <1>5, <1>6 DEF IInv

LEMMA TypeStep == IInv /\ [Next]_vars => TypeOK'
<1> SUFFICES ASSUME IInv, [Next]_vars PROVE TypeOK'
  OBVIOUS
<1> USE ConstantsOK
<1>1. ASSUME NEW s \in Session, LaunchArrives(s)
      PROVE  TypeOK'
  BY <1>1 DEF LaunchArrives, sessionVars, gateVars, IInv, TypeOK, OneTurnAtATime
<1>2. ASSUME NEW s \in Session, PrepareFails(s)
      PROVE  TypeOK'
  BY <1>2 DEF PrepareFails, sessionVars, gateVars, IInv, TypeOK, OneTurnAtATime
<1>3. ASSUME NEW s \in Session, NEW m \in Mode, LaunchReady(s, m)
      PROVE  TypeOK'
  <2>1. CASE s \in active
    BY <1>3, <2>1 DEF LaunchReady, BeginTurn, BeginTurnUnguarded, sessionVars, gateVars, IInv, TypeOK, OneTurnAtATime
  <2>2. CASE s \notin active
    <3>1. /\ turn'   = [turn EXCEPT ![s] = turn[s] + 1]
          /\ active' = active \cup {s}
          /\ runs'   = [runs EXCEPT ![s] = runs[s] \cup {turn[s] + 1}]
          /\ turn[s] + 1 \in 1 .. MaxTurns
      BY <1>3, <2>2 DEF LaunchReady, BeginTurn, BeginTurnUnguarded, IInv, TypeOK, OneTurnAtATime
    <3>2. QED
      BY <1>3, <3>1 DEF LaunchReady, sessionVars, gateVars, IInv, TypeOK, OneTurnAtATime
  <2>3. QED
    BY <2>1, <2>2
<1>4. ASSUME NEW s \in Session, FollowUp(s)
      PROVE  TypeOK'
  BY <1>4 DEF FollowUp, BeginTurn, BeginTurnUnguarded, sessionVars, gateVars, IInv, TypeOK, OneTurnAtATime
<1>5. ASSUME NEW s \in Session, FollowUpUnresumable(s)
      PROVE  TypeOK'
  BY <1>5 DEF FollowUpUnresumable, sessionVars, gateVars, IInv, TypeOK, OneTurnAtATime
<1>6. ASSUME NEW s \in Session, NEW n \in Turns, RunEnds(s, n)
      PROVE  TypeOK'
  BY <1>6 DEF RunEnds, EndReasons, sessionVars, gateVars, IInv, TypeOK, OneTurnAtATime
<1>7. ASSUME NEW s \in Session, NEW n \in Turns, NEW g \in Gate, NEW t \in Tool, CanUseTool(s, n, g, t)
      PROVE  TypeOK'
  <2>1. phase' \in [Gate -> Phase] /\ reply' \in [Gate -> Reply]
    BY <1>7, SMTT(30) DEF CanUseTool, IInv, TypeOK, OneTurnAtATime
  <2>2. verdict' \in [Gate -> Verdict] /\ status' \in [Session -> Status]
    <3>1. verdict \in [Gate -> Verdict] /\ status \in [Session -> Status]
      BY DEF IInv, TypeOK
    <3>2. /\ verdict' = verdict \/ verdict' = [verdict EXCEPT ![g] = "pending"]
          /\ status' = status \/ status' = [status EXCEPT ![s] = "awaiting_input"]
      BY <1>7 DEF CanUseTool
    <3>3. QED
      BY <3>1, <3>2
  <2>3. /\ owner' \in [Gate -> Session \cup {NoSession}]
        /\ ownTurn' \in [Gate -> 0 .. MaxTurns]
        /\ tool' \in [Gate -> Tool]
    BY <1>7 DEF CanUseTool, IInv, TypeOK, OneTurnAtATime
  <2>4. QED
    BY <1>7, <2>1, <2>2, <2>3 DEF CanUseTool, IInv, TypeOK, OneTurnAtATime
<1>8. ASSUME NEW s \in Session, Interrupt(s)
      PROVE  TypeOK'
  BY <1>8 DEF Interrupt, StopTurn, SettleAll, PendingOf, sessionVars, gateVars, IInv, TypeOK, OneTurnAtATime
<1>9. ASSUME NEW s \in Session, End(s)
      PROVE  TypeOK'
  BY <1>9 DEF End, StopTurn, SettleAll, PendingOf, sessionVars, gateVars, IInv, TypeOK, OneTurnAtATime
<1>10. ASSUME NEW g \in Gate, DiffDone(g)
      PROVE  TypeOK'
  BY <1>10 DEF DiffDone, sessionVars, gateVars, IInv, TypeOK, OneTurnAtATime
<1>11. ASSUME NEW g \in Gate, Timeout(g)
      PROVE  TypeOK'
  BY <1>11 DEF Timeout, Settle, sessionVars, gateVars, IInv, TypeOK, OneTurnAtATime
<1>12. ASSUME NEW g \in Gate, NEW b \in Behavior, Send(g, b)
      PROVE  TypeOK'
  BY <1>12 DEF Send, sessionVars, gateVars, IInv, TypeOK, OneTurnAtATime
<1>13. ASSUME NEW g \in Gate, NEW b \in Behavior, Decide(g, b)
      PROVE  TypeOK'
  BY <1>13 DEF Decide, Settle, Recorded, sessionVars, gateVars, IInv, TypeOK, OneTurnAtATime
<1>14. CASE Stop
  BY <1>14 DEF Stop, SettleAll, sessionVars, gateVars, IInv, TypeOK, OneTurnAtATime
<1>15. CASE UNCHANGED vars
  BY <1>15 DEF vars, sessionVars, gateVars, IInv, TypeOK, OneTurnAtATime
<1>16. QED
  BY <1>1, <1>2, <1>3, <1>4, <1>5, <1>6, <1>7, <1>8, <1>9, <1>10,
     <1>11, <1>12, <1>13, <1>14, <1>15 DEF Next, AskCall

LEMMA LaunchFirstStep == IInv /\ [Next]_vars => LaunchFirst'
<1> SUFFICES ASSUME IInv, [Next]_vars PROVE LaunchFirst'
  OBVIOUS
<1> USE ConstantsOK
<1>1. ASSUME NEW s \in Session, LaunchArrives(s)
      PROVE  LaunchFirst'
  BY <1>1 DEF LaunchArrives, sessionVars, gateVars, IInv, TypeOK, LaunchFirst, OneTurnAtATime
<1>2. ASSUME NEW s \in Session, PrepareFails(s)
      PROVE  LaunchFirst'
  BY <1>2 DEF PrepareFails, sessionVars, gateVars, IInv, TypeOK, LaunchFirst, OneTurnAtATime
<1>3. ASSUME NEW s \in Session, NEW m \in Mode, LaunchReady(s, m)
      PROVE  LaunchFirst'
  BY <1>3 DEF LaunchReady, BeginTurn, BeginTurnUnguarded, sessionVars, gateVars, IInv, TypeOK, LaunchFirst, OneTurnAtATime
<1>4. ASSUME NEW s \in Session, FollowUp(s)
      PROVE  LaunchFirst'
  BY <1>4 DEF FollowUp, BeginTurn, BeginTurnUnguarded, sessionVars, gateVars, IInv, TypeOK, LaunchFirst, OneTurnAtATime
<1>5. ASSUME NEW s \in Session, FollowUpUnresumable(s)
      PROVE  LaunchFirst'
  BY <1>5 DEF FollowUpUnresumable, sessionVars, gateVars, IInv, TypeOK, LaunchFirst, OneTurnAtATime
<1>6. ASSUME NEW s \in Session, NEW n \in Turns, RunEnds(s, n)
      PROVE  LaunchFirst'
  BY <1>6 DEF RunEnds, EndReasons, sessionVars, gateVars, IInv, TypeOK, LaunchFirst, OneTurnAtATime
<1>7. ASSUME NEW s \in Session, NEW n \in Turns, NEW g \in Gate, NEW t \in Tool, CanUseTool(s, n, g, t)
      PROVE  LaunchFirst'
  BY <1>7 DEF CanUseTool, sessionVars, gateVars, IInv, TypeOK, LaunchFirst, OneTurnAtATime
<1>8. ASSUME NEW s \in Session, Interrupt(s)
      PROVE  LaunchFirst'
  BY <1>8 DEF Interrupt, StopTurn, SettleAll, PendingOf, sessionVars, gateVars, IInv, TypeOK, LaunchFirst, OneTurnAtATime
<1>9. ASSUME NEW s \in Session, End(s)
      PROVE  LaunchFirst'
  BY <1>9 DEF End, StopTurn, SettleAll, PendingOf, sessionVars, gateVars, IInv, TypeOK, LaunchFirst, OneTurnAtATime
<1>10. ASSUME NEW g \in Gate, DiffDone(g)
      PROVE  LaunchFirst'
  BY <1>10 DEF DiffDone, sessionVars, gateVars, IInv, TypeOK, LaunchFirst, OneTurnAtATime
<1>11. ASSUME NEW g \in Gate, Timeout(g)
      PROVE  LaunchFirst'
  BY <1>11 DEF Timeout, Settle, sessionVars, gateVars, IInv, TypeOK, LaunchFirst, OneTurnAtATime
<1>12. ASSUME NEW g \in Gate, NEW b \in Behavior, Send(g, b)
      PROVE  LaunchFirst'
  BY <1>12 DEF Send, sessionVars, gateVars, IInv, TypeOK, LaunchFirst, OneTurnAtATime
<1>13. ASSUME NEW g \in Gate, NEW b \in Behavior, Decide(g, b)
      PROVE  LaunchFirst'
  BY <1>13 DEF Decide, Settle, Recorded, sessionVars, gateVars, IInv, TypeOK, LaunchFirst, OneTurnAtATime
<1>14. CASE Stop
  BY <1>14 DEF Stop, SettleAll, sessionVars, gateVars, IInv, TypeOK, LaunchFirst, OneTurnAtATime
<1>15. CASE UNCHANGED vars
  BY <1>15 DEF vars, sessionVars, gateVars, IInv, TypeOK, LaunchFirst, OneTurnAtATime
<1>16. QED
  BY <1>1, <1>2, <1>3, <1>4, <1>5, <1>6, <1>7, <1>8, <1>9, <1>10,
     <1>11, <1>12, <1>13, <1>14, <1>15 DEF Next, AskCall

LEMMA OneTurnStep == IInv /\ [Next]_vars => OneTurnAtATime'
<1> SUFFICES ASSUME IInv, [Next]_vars PROVE OneTurnAtATime'
  OBVIOUS
<1> USE ConstantsOK
<1>1. ASSUME NEW s \in Session, LaunchArrives(s)
      PROVE  OneTurnAtATime'
  BY <1>1 DEF LaunchArrives, sessionVars, gateVars, IInv, TypeOK, OneTurnAtATime
<1>2. ASSUME NEW s \in Session, PrepareFails(s)
      PROVE  OneTurnAtATime'
  BY <1>2 DEF PrepareFails, sessionVars, gateVars, IInv, TypeOK, OneTurnAtATime
<1>3. ASSUME NEW s \in Session, NEW m \in Mode, LaunchReady(s, m)
      PROVE  OneTurnAtATime'
  <2>1. CASE s \in active
    BY <1>3, <2>1 DEF LaunchReady, BeginTurn, BeginTurnUnguarded, IInv, TypeOK, OneTurnAtATime
  <2>2. CASE s \notin active
    <3> SUFFICES ASSUME NEW x \in Session
                 PROVE  runs'[x] = IF x \in active' THEN {turn'[x]} ELSE {}
      BY DEF OneTurnAtATime
    <3>1. /\ turn'   = [turn EXCEPT ![s] = turn[s] + 1]
          /\ active' = active \cup {s}
          /\ runs'   = [runs EXCEPT ![s] = runs[s] \cup {turn[s] + 1}]
      BY <1>3, <2>2 DEF LaunchReady, BeginTurn, BeginTurnUnguarded
    <3>2. runs[s] = {}
      BY <2>2 DEF IInv, TypeOK, OneTurnAtATime
    <3>3. CASE x = s
      <4>1. runs'[x] = {turn[s] + 1} /\ turn'[x] = turn[s] + 1 /\ x \in active'
        BY <3>1, <3>2, <3>3 DEF IInv, TypeOK, OneTurnAtATime
      <4>2. QED
        BY <4>1
    <3>4. CASE x # s
      BY <3>1, <3>4 DEF IInv, TypeOK, OneTurnAtATime
    <3>5. QED
      BY <3>3, <3>4
  <2>3. QED
    BY <2>1, <2>2
<1>4. ASSUME NEW s \in Session, FollowUp(s)
      PROVE  OneTurnAtATime'
  <2>1. CASE s \in active
    BY <1>4, <2>1 DEF FollowUp, BeginTurn, BeginTurnUnguarded, IInv, TypeOK, OneTurnAtATime
  <2>2. CASE s \notin active
    <3> SUFFICES ASSUME NEW x \in Session
                 PROVE  runs'[x] = IF x \in active' THEN {turn'[x]} ELSE {}
      BY DEF OneTurnAtATime
    <3>1. /\ turn'   = [turn EXCEPT ![s] = turn[s] + 1]
          /\ active' = active \cup {s}
          /\ runs'   = [runs EXCEPT ![s] = runs[s] \cup {turn[s] + 1}]
      BY <1>4, <2>2 DEF FollowUp, BeginTurn, BeginTurnUnguarded
    <3>2. runs[s] = {}
      BY <2>2 DEF IInv, TypeOK, OneTurnAtATime
    <3>3. CASE x = s
      <4>1. runs'[x] = {turn[s] + 1} /\ turn'[x] = turn[s] + 1 /\ x \in active'
        BY <3>1, <3>2, <3>3 DEF IInv, TypeOK, OneTurnAtATime
      <4>2. QED
        BY <4>1
    <3>4. CASE x # s
      BY <3>1, <3>4 DEF IInv, TypeOK, OneTurnAtATime
    <3>5. QED
      BY <3>3, <3>4
  <2>3. QED
    BY <2>1, <2>2
<1>5. ASSUME NEW s \in Session, FollowUpUnresumable(s)
      PROVE  OneTurnAtATime'
  BY <1>5 DEF FollowUpUnresumable, sessionVars, gateVars, IInv, TypeOK, OneTurnAtATime
<1>6. ASSUME NEW s \in Session, NEW n \in Turns, RunEnds(s, n)
      PROVE  OneTurnAtATime'
  <2>1. /\ n \in runs[s]
        /\ runs'   = [runs EXCEPT ![s] = runs[s] \ {n}]
        /\ active' = active \ {s}
        /\ turn'   = turn
    BY <1>6 DEF RunEnds
  <2>2. runs[s] = {n}
    BY <2>1 DEF IInv, TypeOK, OneTurnAtATime
  <2>3. SUFFICES ASSUME NEW x \in Session
                 PROVE  runs'[x] = IF x \in active' THEN {turn'[x]} ELSE {}
    BY DEF OneTurnAtATime
  <2>4. CASE x = s
    BY <2>1, <2>2, <2>4 DEF IInv, TypeOK, OneTurnAtATime
  <2>5. CASE x # s
    BY <2>1, <2>5 DEF IInv, TypeOK, OneTurnAtATime
  <2>6. QED
    BY <2>4, <2>5
<1>7. ASSUME NEW s \in Session, NEW n \in Turns, NEW g \in Gate, NEW t \in Tool, CanUseTool(s, n, g, t)
      PROVE  OneTurnAtATime'
  BY <1>7 DEF CanUseTool, sessionVars, gateVars, IInv, TypeOK, OneTurnAtATime
<1>8. ASSUME NEW s \in Session, Interrupt(s)
      PROVE  OneTurnAtATime'
  BY <1>8 DEF Interrupt, StopTurn, SettleAll, PendingOf, sessionVars, gateVars, IInv, TypeOK, OneTurnAtATime
<1>9. ASSUME NEW s \in Session, End(s)
      PROVE  OneTurnAtATime'
  BY <1>9 DEF End, StopTurn, SettleAll, PendingOf, sessionVars, gateVars, IInv, TypeOK, OneTurnAtATime
<1>10. ASSUME NEW g \in Gate, DiffDone(g)
      PROVE  OneTurnAtATime'
  BY <1>10 DEF DiffDone, sessionVars, gateVars, IInv, TypeOK, OneTurnAtATime
<1>11. ASSUME NEW g \in Gate, Timeout(g)
      PROVE  OneTurnAtATime'
  BY <1>11 DEF Timeout, Settle, sessionVars, gateVars, IInv, TypeOK, OneTurnAtATime
<1>12. ASSUME NEW g \in Gate, NEW b \in Behavior, Send(g, b)
      PROVE  OneTurnAtATime'
  BY <1>12 DEF Send, sessionVars, gateVars, IInv, TypeOK, OneTurnAtATime
<1>13. ASSUME NEW g \in Gate, NEW b \in Behavior, Decide(g, b)
      PROVE  OneTurnAtATime'
  BY <1>13 DEF Decide, Settle, Recorded, sessionVars, gateVars, IInv, TypeOK, OneTurnAtATime
<1>14. CASE Stop
  BY <1>14 DEF Stop, SettleAll, sessionVars, gateVars, IInv, TypeOK, OneTurnAtATime
<1>15. CASE UNCHANGED vars
  BY <1>15 DEF vars, sessionVars, gateVars, IInv, TypeOK, OneTurnAtATime
<1>16. QED
  BY <1>1, <1>2, <1>3, <1>4, <1>5, <1>6, <1>7, <1>8, <1>9, <1>10,
     <1>11, <1>12, <1>13, <1>14, <1>15 DEF Next, AskCall

LEMMA CallShapeStep == IInv /\ [Next]_vars => CallShape'
<1> SUFFICES ASSUME IInv, [Next]_vars PROVE CallShape'
  OBVIOUS
<1> USE ConstantsOK
<1>1. ASSUME NEW s \in Session, LaunchArrives(s)
      PROVE  CallShape'
  BY <1>1 DEF LaunchArrives, sessionVars, gateVars, IInv, TypeOK, CallShape
<1>2. ASSUME NEW s \in Session, PrepareFails(s)
      PROVE  CallShape'
  BY <1>2 DEF PrepareFails, sessionVars, gateVars, IInv, TypeOK, CallShape
<1>3. ASSUME NEW s \in Session, NEW m \in Mode, LaunchReady(s, m)
      PROVE  CallShape'
  BY <1>3 DEF LaunchReady, BeginTurn, BeginTurnUnguarded, sessionVars, gateVars, IInv, TypeOK, CallShape
<1>4. ASSUME NEW s \in Session, FollowUp(s)
      PROVE  CallShape'
  BY <1>4 DEF FollowUp, BeginTurn, BeginTurnUnguarded, sessionVars, gateVars, IInv, TypeOK, CallShape
<1>5. ASSUME NEW s \in Session, FollowUpUnresumable(s)
      PROVE  CallShape'
  BY <1>5 DEF FollowUpUnresumable, sessionVars, gateVars, IInv, TypeOK, CallShape
<1>6. ASSUME NEW s \in Session, NEW n \in Turns, RunEnds(s, n)
      PROVE  CallShape'
  BY <1>6 DEF RunEnds, EndReasons, sessionVars, gateVars, IInv, TypeOK, CallShape
<1>7. ASSUME NEW s \in Session, NEW n \in Turns, NEW g \in Gate, NEW t \in Tool, CanUseTool(s, n, g, t)
      PROVE  CallShape'
  BY <1>7 DEF CanUseTool, sessionVars, gateVars, IInv, TypeOK, CallShape
<1>8. ASSUME NEW s \in Session, Interrupt(s)
      PROVE  CallShape'
  BY <1>8 DEF Interrupt, StopTurn, SettleAll, PendingOf, sessionVars, gateVars, IInv, TypeOK, CallShape
<1>9. ASSUME NEW s \in Session, End(s)
      PROVE  CallShape'
  BY <1>9 DEF End, StopTurn, SettleAll, PendingOf, sessionVars, gateVars, IInv, TypeOK, CallShape
<1>10. ASSUME NEW g \in Gate, DiffDone(g)
      PROVE  CallShape'
  BY <1>10 DEF DiffDone, sessionVars, gateVars, IInv, TypeOK, CallShape
<1>11. ASSUME NEW g \in Gate, Timeout(g)
      PROVE  CallShape'
  BY <1>11 DEF Timeout, Settle, sessionVars, gateVars, IInv, TypeOK, CallShape
<1>12. ASSUME NEW g \in Gate, NEW b \in Behavior, Send(g, b)
      PROVE  CallShape'
  BY <1>12 DEF Send, sessionVars, gateVars, IInv, TypeOK, CallShape
<1>13. ASSUME NEW g \in Gate, NEW b \in Behavior, Decide(g, b)
      PROVE  CallShape'
  BY <1>13 DEF Decide, Settle, Recorded, sessionVars, gateVars, IInv, TypeOK, CallShape
<1>14. CASE Stop
  BY <1>14 DEF Stop, SettleAll, sessionVars, gateVars, IInv, TypeOK, CallShape
<1>15. CASE UNCHANGED vars
  BY <1>15 DEF vars, sessionVars, gateVars, IInv, TypeOK, CallShape
<1>16. QED
  BY <1>1, <1>2, <1>3, <1>4, <1>5, <1>6, <1>7, <1>8, <1>9, <1>10,
     <1>11, <1>12, <1>13, <1>14, <1>15 DEF Next, AskCall

LEMMA NoUnapprovedStep == IInv /\ [Next]_vars => NoUnapprovedTool'
<1> SUFFICES ASSUME IInv, [Next]_vars PROVE NoUnapprovedTool'
  OBVIOUS
<1> USE ConstantsOK
<1>1. ASSUME NEW s \in Session, LaunchArrives(s)
      PROVE  NoUnapprovedTool'
  BY <1>1 DEF LaunchArrives, sessionVars, gateVars, IInv, TypeOK, LaunchFirst, CallShape, NoUnapprovedTool, PolicyAllows
<1>2. ASSUME NEW s \in Session, PrepareFails(s)
      PROVE  NoUnapprovedTool'
  BY <1>2 DEF PrepareFails, sessionVars, gateVars, IInv, TypeOK, LaunchFirst, CallShape, NoUnapprovedTool, PolicyAllows
<1>3. ASSUME NEW s \in Session, NEW m \in Mode, LaunchReady(s, m)
      PROVE  NoUnapprovedTool'
  BY <1>3 DEF LaunchReady, BeginTurn, BeginTurnUnguarded, sessionVars, gateVars, IInv, TypeOK, LaunchFirst, CallShape, NoUnapprovedTool, PolicyAllows
<1>4. ASSUME NEW s \in Session, FollowUp(s)
      PROVE  NoUnapprovedTool'
  BY <1>4 DEF FollowUp, BeginTurn, BeginTurnUnguarded, sessionVars, gateVars, IInv, TypeOK, LaunchFirst, CallShape, NoUnapprovedTool, PolicyAllows
<1>5. ASSUME NEW s \in Session, FollowUpUnresumable(s)
      PROVE  NoUnapprovedTool'
  BY <1>5 DEF FollowUpUnresumable, sessionVars, gateVars, IInv, TypeOK, LaunchFirst, CallShape, NoUnapprovedTool, PolicyAllows
<1>6. ASSUME NEW s \in Session, NEW n \in Turns, RunEnds(s, n)
      PROVE  NoUnapprovedTool'
  BY <1>6 DEF RunEnds, EndReasons, sessionVars, gateVars, IInv, TypeOK, LaunchFirst, CallShape, NoUnapprovedTool, PolicyAllows
<1>7. ASSUME NEW s \in Session, NEW n \in Turns, NEW g \in Gate, NEW t \in Tool, CanUseTool(s, n, g, t)
      PROVE  NoUnapprovedTool'
  BY <1>7 DEF CanUseTool, sessionVars, gateVars, IInv, TypeOK, LaunchFirst, CallShape, NoUnapprovedTool, PolicyAllows
<1>8. ASSUME NEW s \in Session, Interrupt(s)
      PROVE  NoUnapprovedTool'
  BY <1>8 DEF Interrupt, StopTurn, SettleAll, PendingOf, sessionVars, gateVars, IInv, TypeOK, LaunchFirst, CallShape, NoUnapprovedTool, PolicyAllows
<1>9. ASSUME NEW s \in Session, End(s)
      PROVE  NoUnapprovedTool'
  BY <1>9 DEF End, StopTurn, SettleAll, PendingOf, sessionVars, gateVars, IInv, TypeOK, LaunchFirst, CallShape, NoUnapprovedTool, PolicyAllows
<1>10. ASSUME NEW g \in Gate, DiffDone(g)
      PROVE  NoUnapprovedTool'
  BY <1>10 DEF DiffDone, sessionVars, gateVars, IInv, TypeOK, LaunchFirst, CallShape, NoUnapprovedTool, PolicyAllows
<1>11. ASSUME NEW g \in Gate, Timeout(g)
      PROVE  NoUnapprovedTool'
  BY <1>11 DEF Timeout, Settle, sessionVars, gateVars, IInv, TypeOK, LaunchFirst, CallShape, NoUnapprovedTool, PolicyAllows
<1>12. ASSUME NEW g \in Gate, NEW b \in Behavior, Send(g, b)
      PROVE  NoUnapprovedTool'
  BY <1>12 DEF Send, sessionVars, gateVars, IInv, TypeOK, LaunchFirst, CallShape, NoUnapprovedTool, PolicyAllows
<1>13. ASSUME NEW g \in Gate, NEW b \in Behavior, Decide(g, b)
      PROVE  NoUnapprovedTool'
  BY <1>13 DEF Decide, Settle, Recorded, sessionVars, gateVars, IInv, TypeOK, LaunchFirst, CallShape, NoUnapprovedTool, PolicyAllows
<1>14. CASE Stop
  BY <1>14 DEF Stop, SettleAll, sessionVars, gateVars, IInv, TypeOK, LaunchFirst, CallShape, NoUnapprovedTool, PolicyAllows
<1>15. CASE UNCHANGED vars
  BY <1>15 DEF vars, sessionVars, gateVars, IInv, TypeOK, LaunchFirst, CallShape, NoUnapprovedTool, PolicyAllows
<1>16. QED
  BY <1>1, <1>2, <1>3, <1>4, <1>5, <1>6, <1>7, <1>8, <1>9, <1>10,
     <1>11, <1>12, <1>13, <1>14, <1>15 DEF Next, AskCall

LEMMA TranscriptStep == IInv /\ [Next]_vars => TranscriptTellsTheReply'
<1> SUFFICES ASSUME IInv, [Next]_vars PROVE TranscriptTellsTheReply'
  OBVIOUS
<1> USE ConstantsOK
<1>1. ASSUME NEW s \in Session, LaunchArrives(s)
      PROVE  TranscriptTellsTheReply'
  BY <1>1 DEF LaunchArrives, sessionVars, gateVars, IInv, TypeOK, CallShape, TranscriptTellsTheReply
<1>2. ASSUME NEW s \in Session, PrepareFails(s)
      PROVE  TranscriptTellsTheReply'
  BY <1>2 DEF PrepareFails, sessionVars, gateVars, IInv, TypeOK, CallShape, TranscriptTellsTheReply
<1>3. ASSUME NEW s \in Session, NEW m \in Mode, LaunchReady(s, m)
      PROVE  TranscriptTellsTheReply'
  BY <1>3 DEF LaunchReady, BeginTurn, BeginTurnUnguarded, sessionVars, gateVars, IInv, TypeOK, CallShape, TranscriptTellsTheReply
<1>4. ASSUME NEW s \in Session, FollowUp(s)
      PROVE  TranscriptTellsTheReply'
  BY <1>4 DEF FollowUp, BeginTurn, BeginTurnUnguarded, sessionVars, gateVars, IInv, TypeOK, CallShape, TranscriptTellsTheReply
<1>5. ASSUME NEW s \in Session, FollowUpUnresumable(s)
      PROVE  TranscriptTellsTheReply'
  BY <1>5 DEF FollowUpUnresumable, sessionVars, gateVars, IInv, TypeOK, CallShape, TranscriptTellsTheReply
<1>6. ASSUME NEW s \in Session, NEW n \in Turns, RunEnds(s, n)
      PROVE  TranscriptTellsTheReply'
  BY <1>6 DEF RunEnds, EndReasons, sessionVars, gateVars, IInv, TypeOK, CallShape, TranscriptTellsTheReply
<1>7. ASSUME NEW s \in Session, NEW n \in Turns, NEW g \in Gate, NEW t \in Tool, CanUseTool(s, n, g, t)
      PROVE  TranscriptTellsTheReply'
  BY <1>7 DEF CanUseTool, sessionVars, gateVars, IInv, TypeOK, CallShape, TranscriptTellsTheReply
<1>8. ASSUME NEW s \in Session, Interrupt(s)
      PROVE  TranscriptTellsTheReply'
  BY <1>8 DEF Interrupt, StopTurn, SettleAll, PendingOf, sessionVars, gateVars, IInv, TypeOK, CallShape, TranscriptTellsTheReply
<1>9. ASSUME NEW s \in Session, End(s)
      PROVE  TranscriptTellsTheReply'
  BY <1>9 DEF End, StopTurn, SettleAll, PendingOf, sessionVars, gateVars, IInv, TypeOK, CallShape, TranscriptTellsTheReply
<1>10. ASSUME NEW g \in Gate, DiffDone(g)
      PROVE  TranscriptTellsTheReply'
  BY <1>10 DEF DiffDone, sessionVars, gateVars, IInv, TypeOK, CallShape, TranscriptTellsTheReply
<1>11. ASSUME NEW g \in Gate, Timeout(g)
      PROVE  TranscriptTellsTheReply'
  BY <1>11 DEF Timeout, Settle, sessionVars, gateVars, IInv, TypeOK, CallShape, TranscriptTellsTheReply
<1>12. ASSUME NEW g \in Gate, NEW b \in Behavior, Send(g, b)
      PROVE  TranscriptTellsTheReply'
  BY <1>12 DEF Send, sessionVars, gateVars, IInv, TypeOK, CallShape, TranscriptTellsTheReply
<1>13. ASSUME NEW g \in Gate, NEW b \in Behavior, Decide(g, b)
      PROVE  TranscriptTellsTheReply'
  BY <1>13 DEF Decide, Settle, Recorded, sessionVars, gateVars, IInv, TypeOK, CallShape, TranscriptTellsTheReply
<1>14. CASE Stop
  BY <1>14 DEF Stop, SettleAll, sessionVars, gateVars, IInv, TypeOK, CallShape, TranscriptTellsTheReply
<1>15. CASE UNCHANGED vars
  BY <1>15 DEF vars, sessionVars, gateVars, IInv, TypeOK, CallShape, TranscriptTellsTheReply
<1>16. QED
  BY <1>1, <1>2, <1>3, <1>4, <1>5, <1>6, <1>7, <1>8, <1>9, <1>10,
     <1>11, <1>12, <1>13, <1>14, <1>15 DEF Next, AskCall

\* The strengthened invariant holds of every reachable state.
THEOREM Invariance == Spec => []IInv
<1>1. IInv /\ [Next]_vars => IInv'
  BY TypeStep, LaunchFirstStep, OneTurnStep, CallShapeStep, NoUnapprovedStep,
     TranscriptStep DEF IInv
<1>2. QED
  BY InitIInv, <1>1, PTL DEF Spec

\* Every variable stays in its domain.
THEOREM TypeCorrect == Spec => []TypeOK
BY Invariance, PTL DEF IInv

\* Invariant #4: no tool runs that neither the mode nor an operator allowed.
THEOREM NoToolUnapproved == Spec => []NoUnapprovedTool
BY Invariance, PTL DEF IInv

\* The transcript's verdict is what the agent was told.
THEOREM TranscriptIsHonest == Spec => []TranscriptTellsTheReply
BY Invariance, PTL DEF IInv

\* activeRuns, sessionAborts and the adapter runs in flight agree.
THEOREM OneTurn == Spec => []OneTurnAtATime
BY Invariance, PTL DEF IInv

-----------------------------------------------------------------------------
(* Settled once. *)

\* No action touches the reply or the verdict of a settled call.
LEMMA SettledStep ==
  IInv /\ [Next]_vars =>
    \A g \in Gate : reply[g] # "none" => reply'[g] = reply[g] /\ verdict'[g] = verdict[g]
<1> SUFFICES ASSUME IInv, [Next]_vars, NEW h \in Gate, reply[h] # "none"
             PROVE  reply'[h] = reply[h] /\ verdict'[h] = verdict[h]
  OBVIOUS
<1>1. phase[h] = "settled"
  BY DEF IInv, CallShape
<1>2. ASSUME NEW s \in Session, NEW n \in Turns, NEW g \in Gate, NEW t \in Tool,
             CanUseTool(s, n, g, t)
      PROVE  reply'[h] = reply[h] /\ verdict'[h] = verdict[h]
  BY <1>1, <1>2 DEF CanUseTool, IInv, TypeOK
<1>3. ASSUME NEW g \in Gate, DiffDone(g)
      PROVE  reply'[h] = reply[h] /\ verdict'[h] = verdict[h]
  BY <1>1, <1>3 DEF DiffDone, IInv, TypeOK
<1>4. ASSUME NEW g \in Gate, Timeout(g)
      PROVE  reply'[h] = reply[h] /\ verdict'[h] = verdict[h]
  BY <1>1, <1>4 DEF Timeout, Settle, IInv, TypeOK
<1>5. ASSUME NEW g \in Gate, NEW b \in Behavior, Decide(g, b)
      PROVE  reply'[h] = reply[h] /\ verdict'[h] = verdict[h]
  BY <1>1, <1>5 DEF Decide, Settle, Recorded, IInv, TypeOK
<1>6. ASSUME NEW s \in Session, Interrupt(s) \/ End(s)
      PROVE  reply'[h] = reply[h] /\ verdict'[h] = verdict[h]
  BY <1>1, <1>6 DEF Interrupt, End, StopTurn, SettleAll, PendingOf
<1>7. CASE Stop
  BY <1>1, <1>7 DEF Stop, SettleAll
<1>8. CASE UNCHANGED <<reply, verdict>>
  BY <1>8
<1>9. QED
  BY <1>2, <1>3, <1>4, <1>5, <1>6, <1>7, <1>8
  DEF Next, AskCall, vars, gateVars, LaunchArrives, PrepareFails, LaunchReady, FollowUp,
      FollowUpUnresumable, RunEnds, Send

\* A promise the agent awaits resolves once, and its verdict is final.
THEOREM SettlesOnce == Spec => SettledOnce
<1>1. IInv /\ [Next]_vars =>
        [\A g \in Gate : reply[g] # "none" =>
           reply'[g] = reply[g] /\ verdict'[g] = verdict[g]]_vars
  BY SettledStep
<1>2. QED
  BY <1>1, Invariance, PTL DEF Spec, SettledOnce

-----------------------------------------------------------------------------
(* What an interrupt and an end do. *)

\* Only the await on a diff stat lets a gate register for an aborted run.
LEMMA DiffedStep ==
  IInv /\ OnlyDiffedGatesOutliveAnAbort /\ [Next]_vars => OnlyDiffedGatesOutliveAnAbort'
<1> SUFFICES ASSUME IInv, OnlyDiffedGatesOutliveAnAbort, [Next]_vars,
                    NEW h \in Gate, phase'[h] = "pending",
                    ownTurn'[h] \in aborted'[owner'[h]]
             PROVE  tool'[h] = "edit"
  BY DEF OnlyDiffedGatesOutliveAnAbort
<1> USE ConstantsOK DEF IInv, TypeOK, CallShape
<1>1. ASSUME NEW s \in Session, NEW n \in Turns, NEW g \in Gate, NEW t \in Tool,
             CanUseTool(s, n, g, t)
      PROVE  tool'[h] = "edit"
  <2>1. CASE h = g
    BY <1>1, <2>1 DEF CanUseTool
  <2>2. CASE h # g
    BY <1>1, <2>2 DEF CanUseTool, OnlyDiffedGatesOutliveAnAbort
  <2>3. QED
    BY <2>1, <2>2
<1>2. ASSUME NEW g \in Gate, DiffDone(g)
      PROVE  tool'[h] = "edit"
  BY <1>2 DEF DiffDone, OnlyDiffedGatesOutliveAnAbort
<1>3. ASSUME NEW g \in Gate, Timeout(g) \/ \E b \in Behavior : Decide(g, b)
      PROVE  tool'[h] = "edit"
  BY <1>3 DEF Timeout, Decide, Settle, OnlyDiffedGatesOutliveAnAbort
<1>4. ASSUME NEW s \in Session, Interrupt(s) \/ End(s)
      PROVE  tool'[h] = "edit"
  <2>1. /\ phase[h] = "pending" /\ owner[h] # s
        /\ UNCHANGED <<owner, ownTurn, tool>>
    BY <1>4 DEF Interrupt, End, StopTurn, SettleAll, PendingOf
  <2>2. owner[h] \in Session
    BY <2>1
  <2>3. aborted'[owner[h]] = aborted[owner[h]]
    BY <1>4, <2>1, <2>2 DEF Interrupt, End, StopTurn
  <2>4. QED
    BY <2>1, <2>3 DEF OnlyDiffedGatesOutliveAnAbort
<1>5. CASE Stop
  BY <1>5 DEF Stop, SettleAll, sessionVars, OnlyDiffedGatesOutliveAnAbort
<1>6. ASSUME NEW s \in Session, NEW n \in Turns, RunEnds(s, n)
      PROVE  tool'[h] = "edit"
  <2>1. UNCHANGED <<phase, owner, ownTurn, tool>>
    BY <1>6 DEF RunEnds, gateVars
  <2>2. owner[h] \in Session
    BY <2>1
  <2>3. aborted'[owner[h]] \subseteq aborted[owner[h]]
    BY <1>6, <2>2 DEF RunEnds
  <2>4. QED
    BY <2>1, <2>3 DEF OnlyDiffedGatesOutliveAnAbort
<1>7. CASE UNCHANGED <<phase, owner, ownTurn, tool, aborted>>
  BY <1>7 DEF OnlyDiffedGatesOutliveAnAbort
<1>8. QED
  BY <1>1, <1>2, <1>3, <1>4, <1>5, <1>6, <1>7
  DEF Next, AskCall, vars, sessionVars, gateVars, LaunchArrives, PrepareFails, LaunchReady,
      FollowUp, FollowUpUnresumable, Send

\* However an abort meets the gates of its run, the only one left pending for it
\* is a file edit's, whose diff stat was being read.
THEOREM OnlyDiffedOutlive == Spec => []OnlyDiffedGatesOutliveAnAbort
<1>1. Init => OnlyDiffedGatesOutliveAnAbort
  BY DEF Init, OnlyDiffedGatesOutliveAnAbort
<1>2. QED
  BY <1>1, DiffedStep, Invariance, PTL DEF Spec

-----------------------------------------------------------------------------
(* What an interrupt reaches. *)

\* A call is one of a turn that has begun.
CallsAreOfATurn == \A g \in Gate : owner[g] \in Session => ownTurn[g] <= turn[owner[g]]

LEMMA CallsStep == IInv /\ CallsAreOfATurn /\ [Next]_vars => CallsAreOfATurn'
<1> SUFFICES ASSUME IInv, CallsAreOfATurn, [Next]_vars, NEW h \in Gate, owner'[h] \in Session
             PROVE  ownTurn'[h] <= turn'[owner'[h]]
  BY DEF CallsAreOfATurn
<1> USE ConstantsOK
<1>1. /\ turn \in [Session -> 0 .. MaxTurns] /\ ownTurn \in [Gate -> 0 .. MaxTurns]
      /\ owner \in [Gate -> Session \cup {NoSession}]
  BY DEF IInv, TypeOK
<1>2. ASSUME NEW s \in Session, NEW n \in Turns, NEW g \in Gate, NEW t \in Tool,
             CanUseTool(s, n, g, t)
      PROVE  ownTurn'[h] <= turn'[owner'[h]]
  <2>1. n = turn[s]
    BY <1>2 DEF CanUseTool, IInv, OneTurnAtATime
  <2>2. CASE h = g
    BY <1>1, <1>2, <2>1, <2>2 DEF CanUseTool
  <2>3. CASE h # g
    BY <1>1, <1>2, <2>3 DEF CanUseTool, CallsAreOfATurn
  <2>4. QED
    BY <2>2, <2>3
<1>3. ASSUME NEW s \in Session, UNCHANGED <<owner, ownTurn>>,
             turn' = turn \/ turn' = [turn EXCEPT ![s] = turn[s] + 1]
      PROVE  ownTurn'[h] <= turn'[owner'[h]]
  <2>1. turn[owner[h]] \in 0 .. MaxTurns /\ ownTurn[h] \in 0 .. MaxTurns
    BY <1>1, <1>3
  <2>2. ownTurn[h] <= turn[owner[h]]
    BY <1>3 DEF CallsAreOfATurn
  <2>3. turn'[owner[h]] = turn[owner[h]] \/ turn'[owner[h]] = turn[owner[h]] + 1
    BY <1>1, <1>3
  <2>4. QED
    BY <1>3, <2>1, <2>2, <2>3
<1>4. ASSUME UNCHANGED <<owner, ownTurn, turn>>
      PROVE  ownTurn'[h] <= turn'[owner'[h]]
  BY <1>4 DEF CallsAreOfATurn
<1>5. ASSUME NEW s \in Session, (\E m \in Mode : LaunchReady(s, m)) \/ FollowUp(s)
      PROVE  ownTurn'[h] <= turn'[owner'[h]]
  <2>1. /\ UNCHANGED <<owner, ownTurn>>
        /\ turn' = turn \/ turn' = [turn EXCEPT ![s] = turn[s] + 1]
    BY <1>5 DEF LaunchReady, FollowUp, BeginTurn, BeginTurnUnguarded, gateVars
  <2>2. QED
    BY <1>3, <2>1
<1>6. QED
  BY <1>2, <1>4, <1>5
  DEF Next, AskCall, vars, sessionVars, gateVars, LaunchArrives, PrepareFails,
      FollowUpUnresumable, RunEnds, DiffDone, Timeout, Send, Decide, Settle, Interrupt, End,
      StopTurn, SettleAll, Stop

\* An interrupted call's run was stopped by the same step or is over, and stays so.
LEMMA StoppedStep ==
  IInv /\ CallsAreOfATurn /\ OnlyStoppedRunsAreInterrupted /\ [Next]_vars
    => OnlyStoppedRunsAreInterrupted'
<1> SUFFICES ASSUME IInv, CallsAreOfATurn, OnlyStoppedRunsAreInterrupted, [Next]_vars,
                    NEW h \in Gate, reply'[h] = "interrupted"
             PROVE  ownTurn'[h] \in aborted'[owner'[h]] \/ ownTurn'[h] \notin runs'[owner'[h]]
  BY DEF OnlyStoppedRunsAreInterrupted, Late
<1> USE ConstantsOK DEF IInv, TypeOK
<1> DEFINE Goal == ownTurn'[h] \in aborted'[owner'[h]] \/ ownTurn'[h] \notin runs'[owner'[h]]
<1>1. ASSUME NEW s \in Session, NEW n \in Turns, NEW g \in Gate, NEW t \in Tool,
             CanUseTool(s, n, g, t)
      PROVE  Goal
  <2>1. /\ h # g /\ reply[h] = "interrupted"
        /\ ownTurn'[h] = ownTurn[h] /\ owner'[h] = owner[h] /\ UNCHANGED <<aborted, runs>>
    BY <1>1 DEF CanUseTool, CallShape
  <2>2. QED
    BY <2>1 DEF OnlyStoppedRunsAreInterrupted, Late
<1>2. ASSUME NEW g \in Gate, Timeout(g) \/ \E b \in Behavior : Decide(g, b)
      PROVE  Goal
  <2>1. reply[h] = "interrupted" /\ UNCHANGED <<owner, ownTurn, aborted, runs>>
    BY <1>2 DEF Timeout, Decide, Settle
  <2>2. QED
    BY <2>1 DEF OnlyStoppedRunsAreInterrupted, Late
<1>3. ASSUME NEW s \in Session, Interrupt(s) \/ End(s)
      PROVE  Goal
  <2>1. /\ reply' = [g \in Gate |-> IF g \in PendingOf(s) THEN "interrupted" ELSE reply[g]]
        /\ aborted' = IF s \in active THEN [aborted EXCEPT ![s] = aborted[s] \cup {turn[s]}]
                                      ELSE aborted
        /\ UNCHANGED <<owner, ownTurn, runs>>
    BY <1>3 DEF Interrupt, End, StopTurn, SettleAll
  <2>2. CASE h \in PendingOf(s)
    <3>1. owner[h] = s
      BY <2>2 DEF PendingOf
    <3>2. s \in active => turn[s] \in aborted'[s] /\ runs[s] = {turn[s]}
      BY <2>1 DEF OneTurnAtATime
    <3>3. s \notin active => runs[s] = {}
      BY DEF OneTurnAtATime
    <3>4. QED
      BY <2>1, <3>1, <3>2, <3>3
  <2>3. CASE h \notin PendingOf(s)
    <3>1. reply[h] = "interrupted"
      BY <2>1, <2>3
    <3>2. owner[h] \in Session
      BY <3>1 DEF CallShape
    <3>3. aborted[owner[h]] \subseteq aborted'[owner[h]]
      BY <2>1, <3>2
    <3>4. QED
      BY <2>1, <3>1, <3>3 DEF OnlyStoppedRunsAreInterrupted, Late
  <2>4. QED
    BY <2>2, <2>3
<1>4. CASE Stop
  <2>1. reply[h] = "interrupted" /\ UNCHANGED <<owner, ownTurn, aborted, runs>>
    BY <1>4 DEF Stop, SettleAll, sessionVars
  <2>2. QED
    BY <2>1 DEF OnlyStoppedRunsAreInterrupted, Late
<1>5. ASSUME NEW s \in Session, NEW n \in Turns, RunEnds(s, n)
      PROVE  Goal
  <2>1. reply[h] = "interrupted" /\ UNCHANGED <<owner, ownTurn>>
    BY <1>5 DEF RunEnds, gateVars
  <2>2. owner[h] \in Session
    BY <2>1 DEF CallShape
  <2>3. CASE owner[h] = s /\ ownTurn[h] = n
    BY <1>5, <2>1, <2>3 DEF RunEnds
  <2>4. CASE ~(owner[h] = s /\ ownTurn[h] = n)
    <3>1. ownTurn[h] \in aborted[owner[h]] => ownTurn[h] \in aborted'[owner[h]]
      BY <1>5, <2>2, <2>4 DEF RunEnds
    <3>2. runs'[owner[h]] \subseteq runs[owner[h]]
      BY <1>5, <2>2 DEF RunEnds
    <3>3. QED
      BY <2>1, <3>1, <3>2 DEF OnlyStoppedRunsAreInterrupted, Late
  <2>5. QED
    BY <2>3, <2>4
<1>6. ASSUME NEW s \in Session, (\E m \in Mode : LaunchReady(s, m)) \/ FollowUp(s)
      PROVE  Goal
  <2>1. reply[h] = "interrupted" /\ UNCHANGED <<owner, ownTurn, aborted>>
    BY <1>6 DEF LaunchReady, FollowUp, gateVars
  <2>2. owner[h] \in Session
    BY <2>1 DEF CallShape
  <2>3. runs'[owner[h]] = runs[owner[h]] \/ runs'[owner[h]] = runs[owner[h]] \cup {turn[owner[h]] + 1}
    BY <1>6, <2>2 DEF LaunchReady, FollowUp, BeginTurn, BeginTurnUnguarded
  <2>4. ownTurn[h] # turn[owner[h]] + 1
    BY <2>2 DEF CallsAreOfATurn
  <2>5. QED
    BY <2>1, <2>3, <2>4 DEF OnlyStoppedRunsAreInterrupted, Late
<1>7. CASE UNCHANGED <<reply, owner, ownTurn, aborted, runs>>
  BY <1>7 DEF OnlyStoppedRunsAreInterrupted, Late
<1>8. QED
  BY <1>1, <1>2, <1>3, <1>4, <1>5, <1>6, <1>7
  DEF Next, AskCall, vars, sessionVars, gateVars, LaunchArrives, PrepareFails,
      FollowUpUnresumable, DiffDone, Send

\* Whatever races in the maps that all sessions share, an interrupt or end refuses calls of
\* its own run only, and leaves none of them waiting but an edit whose diff was being read.
THEOREM InterruptsHit == Spec => []InterruptHitsItsRun
<1>1. Init => CallsAreOfATurn /\ OnlyStoppedRunsAreInterrupted
  BY ConstantsOK DEF Init, CallsAreOfATurn, OnlyStoppedRunsAreInterrupted
<1>2. Spec => [](CallsAreOfATurn /\ OnlyStoppedRunsAreInterrupted)
  BY <1>1, CallsStep, StoppedStep, Invariance, PTL DEF Spec
<1>3. QED
  BY <1>2, OnlyDiffedOutlive, PTL DEF InterruptHitsItsRun

-----------------------------------------------------------------------------
(* What ended sessions do. *)

\* The steps of a turn's beginning, for an ended session.
LEMMA EndedStep ==
  IInv /\ [Next]_vars =>
    \A s \in ended : turn'[s] # turn[s] => launch[s] = "preparing" /\ turn[s] = 0
<1> SUFFICES ASSUME IInv, [Next]_vars, NEW e \in ended, turn'[e] # turn[e]
             PROVE  launch[e] = "preparing" /\ turn[e] = 0
  OBVIOUS
<1>1. e \in Session /\ turn \in [Session -> 0 .. MaxTurns]
  BY DEF IInv, TypeOK
<1>2. ASSUME NEW s \in Session, NEW m \in Mode, LaunchReady(s, m)
      PROVE  launch[e] = "preparing" /\ turn[e] = 0
  <2>1. s = e
    BY <1>1, <1>2 DEF LaunchReady, BeginTurn, BeginTurnUnguarded
  <2>2. QED
    BY <1>1, <1>2, <2>1 DEF LaunchReady, IInv, LaunchFirst
<1>3. ASSUME NEW s \in Session, FollowUp(s)
      PROVE  FALSE
  BY <1>1, <1>3 DEF FollowUp, BeginTurn, BeginTurnUnguarded
<1>4. CASE UNCHANGED turn
  BY <1>4
<1>5. QED
  BY <1>2, <1>3, <1>4
  DEF Next, AskCall, vars, sessionVars, LaunchArrives, PrepareFails, FollowUpUnresumable,
      RunEnds, CanUseTool, DiffDone, Timeout, Send, Decide, Settle, Interrupt, End, Stop

\* An ended session is terminal, but for the launch that `end` overtook.
THEOREM EndedIsTerminal == Spec => OnlyALaunchOutrunsEnd
<1>1. IInv /\ [Next]_vars =>
        [\A s \in ended : turn'[s] # turn[s] => launch[s] = "preparing" /\ turn[s] = 0]_vars
  BY EndedStep
<1>2. QED
  BY <1>1, Invariance, PTL DEF Spec, OnlyALaunchOutrunsEnd

\* A gate that is newly interrupted was so by the stopTurn of its own session.
LEMMA InterruptStep ==
  IInv /\ [Next]_vars =>
    \A g \in Gate : reply[g] = "none" /\ reply'[g] = "interrupted" =>
      /\ \A h \in Gate : owner[h] = owner[g] /\ phase[h] = "pending" => phase'[h] = "settled"
      /\ \A h \in Gate : owner[h] # owner[g] => phase'[h] = phase[h]
<1> SUFFICES ASSUME IInv, [Next]_vars, NEW k \in Gate,
                    reply[k] = "none", reply'[k] = "interrupted"
             PROVE  /\ \A h \in Gate : owner[h] = owner[k] /\ phase[h] = "pending" => phase'[h] = "settled"
                    /\ \A h \in Gate : owner[h] # owner[k] => phase'[h] = phase[h]
  OBVIOUS
<1>1. ASSUME NEW s \in Session, Interrupt(s) \/ End(s)
      PROVE  /\ \A h \in Gate : owner[h] = owner[k] /\ phase[h] = "pending" => phase'[h] = "settled"
             /\ \A h \in Gate : owner[h] # owner[k] => phase'[h] = phase[h]
  <2>1. /\ phase' = [g \in Gate |-> IF g \in PendingOf(s) THEN "settled" ELSE phase[g]]
        /\ reply' = [g \in Gate |-> IF g \in PendingOf(s) THEN "interrupted" ELSE reply[g]]
    BY <1>1 DEF Interrupt, End, StopTurn, SettleAll
  <2>2. k \in PendingOf(s)
    BY <2>1
  <2>3. owner[k] = s
    BY <2>2 DEF PendingOf
  <2>4. QED
    BY <2>1, <2>3 DEF PendingOf
<1>2. ASSUME NEW s \in Session, NEW n \in Turns, NEW g \in Gate, NEW t \in Tool,
             CanUseTool(s, n, g, t)
      PROVE  FALSE
  BY <1>2 DEF CanUseTool, IInv, TypeOK
<1>3. ASSUME NEW g \in Gate, Timeout(g) \/ \E b \in Behavior : Decide(g, b)
      PROVE  FALSE
  BY <1>3 DEF Timeout, Decide, Settle, IInv, TypeOK
<1>4. CASE Stop
  BY <1>4 DEF Stop, SettleAll
<1>5. CASE UNCHANGED reply
  BY <1>5
<1>6. QED
  BY <1>1, <1>2, <1>3, <1>4, <1>5
  DEF Next, AskCall, vars, gateVars, LaunchArrives, PrepareFails, LaunchReady, FollowUp,
      FollowUpUnresumable, RunEnds, DiffDone, Send

\* An interrupt or an end settles all the gates of its session and no other's.
THEOREM InterruptScope == Spec => InterruptIsLocalAndTotal
<1>1. IInv /\ [Next]_vars =>
        [\A g \in Gate : reply[g] = "none" /\ reply'[g] = "interrupted" =>
           /\ \A h \in Gate : owner[h] = owner[g] /\ phase[h] = "pending" => phase'[h] = "settled"
           /\ \A h \in Gate : owner[h] # owner[g] => phase'[h] = phase[h]]_vars
  BY InterruptStep
<1>2. QED
  BY <1>1, Invariance, PTL DEF Spec, InterruptIsLocalAndTotal

\* The steps that take a session out of an end status: a turn's beginning, and the moves
\* of a gate.  A gate's session that has no turn has no run either.
LEMMA RevivalStep ==
  IInv /\ [Next]_vars =>
    \A s \in Session : status[s] \in EndStatus /\ status'[s] \notin EndStatus =>
      \/ s \in active'
      \/ \E g \in Gate : owner[g] = s /\ Late(g) /\ phase'[g] # phase[g]
<1> SUFFICES ASSUME IInv, [Next]_vars, NEW e \in Session,
                    status[e] \in EndStatus, status'[e] \notin EndStatus, e \notin active'
             PROVE  \E g \in Gate : owner[g] = e /\ Late(g) /\ phase'[g] # phase[g]
  OBVIOUS
<1>1. /\ status \in [Session -> Status] /\ phase \in [Gate -> Phase]
      /\ status' # status
  BY DEF IInv, TypeOK
<1>2. e \notin active => runs[e] = {}
  BY DEF IInv, OneTurnAtATime
<1>3. ASSUME NEW g \in Gate, DiffDone(g) \/ Timeout(g) \/ \E b \in Behavior : Decide(g, b)
      PROVE  owner[g] = e /\ Late(g) /\ phase'[g] # phase[g]
  <2>1. owner[g] = e
    <3>1. \E v \in Status : status' = [status EXCEPT ![owner[g]] = v]
      BY <1>3 DEF DiffDone, Timeout, Decide, Settle
    <3>2. QED
      BY <1>1, <3>1
  <2>2. active' = active
    BY <1>3 DEF DiffDone, Timeout, Decide, Settle
  <2>3. phase'[g] # phase[g]
    BY <1>1, <1>3 DEF DiffDone, Timeout, Decide, Settle
  <2>4. Late(g)
    BY <1>2, <2>1, <2>2 DEF Late
  <2>5. QED
    BY <2>1, <2>3, <2>4
<1>4. ASSUME NEW s \in Session, \/ FollowUp(s) \/ \E m \in Mode : LaunchReady(s, m)
      PROVE  FALSE
  <2>1. e = s
    BY <1>1, <1>4 DEF FollowUp, LaunchReady
  <2>2. s \in active'
    BY <1>4 DEF FollowUp, LaunchReady, BeginTurn, BeginTurnUnguarded
  <2>3. QED
    BY <2>1, <2>2
<1>5. ASSUME NEW s \in Session, NEW n \in Turns, NEW g \in Gate, NEW t \in Tool,
             CanUseTool(s, n, g, t)
      PROVE  FALSE
  <2>1. n \in runs[s] /\ active' = active
    BY <1>5 DEF CanUseTool
  <2>2. e = s
    BY <1>1, <1>5 DEF CanUseTool
  <2>3. QED
    BY <1>2, <2>1, <2>2
<1>6. ASSUME NEW s \in Session, \/ PrepareFails(s) \/ FollowUpUnresumable(s)
                                \/ End(s) \/ \E n \in Turns : RunEnds(s, n)
      PROVE  FALSE
  <2>1. \/ status' = status
        \/ \E v \in EndStatus : status' = [status EXCEPT ![s] = v]
    BY <1>6 DEF PrepareFails, FollowUpUnresumable, End, RunEnds, EndReasons
  <2>2. QED
    BY <1>1, <2>1
<1>7. CASE UNCHANGED status
  BY <1>1, <1>7
<1>8. QED
  BY <1>3, <1>4, <1>5, <1>6, <1>7
  DEF Next, AskCall, vars, sessionVars, LaunchArrives, Interrupt, Send, Stop

\* A session is taken out of an end status by a turn of its own, or by a gate its agent
\* left behind when the run was over (settlePermissionEntry and settleQuestionEntry set
\* the status to running without a look at activeRuns).
THEOREM RevivedByTurnOrGate == Spec => OnlyATurnOrALateGateRevives
<1>1. IInv /\ [Next]_vars =>
        [\A s \in Session : status[s] \in EndStatus /\ status'[s] \notin EndStatus =>
           \/ s \in active'
           \/ \E g \in Gate : owner[g] = s /\ Late(g) /\ phase'[g] # phase[g]]_vars
  BY RevivalStep
<1>2. QED
  BY <1>1, Invariance, PTL DEF Spec, OnlyATurnOrALateGateRevives

-----------------------------------------------------------------------------
(* The refinement of ApprovalGate. *)

\* The initial states are those of the abstract gate.
LEMMA RefinesInit == Init => Approval!Init
BY DEF Init, Approval!Init, CallState

\* Every step is a step of the abstract gate or leaves it alone.
LEMMA RefinesNext == IInv /\ [Next]_vars => [Approval!Next]_(Approval!vars)
<1> SUFFICES ASSUME IInv, [Next]_vars
             PROVE  Approval!Next \/ UNCHANGED Approval!vars
  OBVIOUS
<1> USE DEF IInv, TypeOK, CallShape
<1>1. CASE UNCHANGED <<phase, reply, sent>>
  BY <1>1 DEF CallState, Approval!vars
<1>2. ASSUME NEW s \in Session, NEW n \in Turns, NEW g \in Gate, NEW t \in Tool,
             CanUseTool(s, n, g, t)
      PROVE  Approval!Next
  <2>1. CASE PolicyAllows(t, mode[s])
    <3>1. Approval!Waive(g)
      <4>1. /\ phase[g] = "unasked"
            /\ phase' = [phase EXCEPT ![g] = "settled"]
            /\ reply' = [reply EXCEPT ![g] = "policy"]
            /\ sent' = sent
        BY <1>2, <2>1 DEF CanUseTool
      <4>2. QED
        BY <4>1 DEF CallState, Approval!Waive, Approval!Move
    <3>2. QED
      BY <3>1 DEF Approval!Next
  <2>2. CASE ~PolicyAllows(t, mode[s])
    <3>1. Approval!Open(g)
      <4>1. PICK p \in {"diffing", "pending"} :
              phase[g] = "unasked" /\ phase' = [phase EXCEPT ![g] = p]
        BY <1>2, <2>2 DEF CanUseTool
      <4>2. reply' = reply /\ sent' = sent
        BY <1>2, <2>2 DEF CanUseTool
      <4>3. QED
        BY <4>1, <4>2 DEF CallState, Approval!Open, Approval!Move
    <3>2. QED
      BY <3>1 DEF Approval!Next
  <2>3. QED
    BY <2>1, <2>2
<1>3. ASSUME NEW g \in Gate, DiffDone(g)
      PROVE  UNCHANGED Approval!vars
  BY <1>3 DEF DiffDone, CallState, Approval!vars
<1>4. ASSUME NEW g \in Gate, NEW b \in Behavior, Send(g, b)
      PROVE  Approval!Next
  <2>1. phase[g] \in {"pending", "settled"} /\ UNCHANGED <<phase, reply>>
    BY <1>4 DEF Send, gateVars
  <2>2. CallState[g] # "new" /\ UNCHANGED CallState
    BY <2>1 DEF CallState
  <2>3. Approval!Vote(g)
    BY <1>4, <2>2 DEF Send, Approval!Vote
  <2>4. QED
    BY <2>3 DEF Approval!Next
<1>5. ASSUME NEW g \in Gate, NEW b \in Behavior, Decide(g, b)
      PROVE  Approval!Next
  <2>1. CASE b = "allow"
    <3>1. Approval!Grant(g)
      <4>1. /\ phase[g] = "pending" /\ "allow" \in sent[g]
            /\ phase' = [phase EXCEPT ![g] = "settled"]
            /\ reply' = [reply EXCEPT ![g] = "allow"]
            /\ sent' = sent
        BY <1>5, <2>1 DEF Decide, Settle, Recorded
      <4>2. QED
        BY <4>1 DEF CallState, Approval!Grant, Approval!Move
    <3>2. QED
      BY <3>1 DEF Approval!Next
  <2>2. CASE b # "allow"
    <3>1. Approval!Refuse({g})
      BY <1>5, <2>2 DEF Decide, Settle, Recorded, CallState, Approval!Refuse,
       Approval!Move
    <3>2. QED
      BY <3>1 DEF Approval!Next
  <2>3. QED
    BY <2>1, <2>2
<1>6. ASSUME NEW g \in Gate, Timeout(g)
      PROVE  Approval!Next
  <2>1. Approval!Refuse({g})
    BY <1>6 DEF Timeout, Settle, CallState, Approval!Refuse,
       Approval!Move
  <2>2. QED
    BY <2>1 DEF Approval!Next
<1>7. ASSUME NEW s \in Session, Interrupt(s) \/ End(s)
      PROVE  Approval!Next
  <2>1. Approval!Refuse(PendingOf(s))
    BY <1>7 DEF Interrupt, End, StopTurn, SettleAll, PendingOf, CallState, Approval!Refuse,
       Approval!Move
  <2>2. QED
    BY <2>1 DEF Approval!Next, PendingOf
<1>8. CASE Stop
  <2>1. Approval!Refuse({g \in Gate : phase[g] = "pending"})
    BY <1>8 DEF Stop, SettleAll, CallState, Approval!Refuse,
       Approval!Move
  <2>2. QED
    BY <2>1 DEF Approval!Next
<1>9. QED
  BY <1>1, <1>2, <1>3, <1>4, <1>5, <1>6, <1>7, <1>8
  DEF Next, AskCall, vars, gateVars, LaunchArrives, PrepareFails, LaunchReady, FollowUp,
      FollowUpUnresumable, RunEnds

\* The daemon implements the abstract approval gate.
THEOREM Refinement == Spec => ImplementsApprovalGate
<1>1. Init => Approval!Init
  BY RefinesInit
<1>2. IInv /\ [Next]_vars => [Approval!Next]_(Approval!vars)
  BY RefinesNext
<1>3. QED
  BY <1>1, <1>2, Invariance, PTL DEF Spec, ImplementsApprovalGate, Approval!Spec
=============================================================================
