---------------------------- MODULE SessionGate ----------------------------
(***************************************************************************)
(* The launched sessions of one telecode daemon                            *)
(* (packages/daemon/src/daemon.ts): launches, follow-ups, agent turns, the *)
(* human approval gate in front of every consequential tool, operator      *)
(* interrupt / end, gate timeouts and the daemon's own stop.               *)
(*                                                                         *)
(* The daemon is one Node process, so a step of the model is the code      *)
(* between two awaits.  What interleaves is: the frames of several         *)
(* browsers, the agent runs, the file read behind a gate's diff stat, the  *)
(* launch's workspace preparation, and the gate timers.                    *)
(***************************************************************************)
EXTENDS Naturals, FiniteSets

CONSTANTS Session,       \* sessions the relay may launch on this daemon
          Gate,          \* calls of canUseTool; one that asks has its own requestId
          NoSession,     \* the owner of a call that was not made yet
          MaxTurns,      \* bound: agent turns per session
          TimeoutArmed   \* gateTimeoutMs > 0

ASSUME ConstantsOK == /\ NoSession \notin Session
                      /\ MaxTurns \in Nat \ {0}
                      /\ TimeoutArmed \in BOOLEAN

VARIABLES
  launch,    \* runSession of a session: not received, awaiting its workspace, past it
  status,    \* SessionRecord.status; "none" when the daemon holds no record
  mode,      \* SessionRecord.permissionMode
  turn,      \* how many turns began; the latest one owns the sessionAborts entry
  active,    \* activeRuns
  runs,      \* the agentAdapter.run calls in flight, by session
  aborted,   \* those whose AbortController fired
  conv,      \* keys of sdkSessions: the conversation can be resumed
  ended,     \* endedSessions
  phase,     \* a call: unasked, diffing, pending (in a pending map), settled
  owner,     \* the session and ...
  ownTurn,   \* ... the turn that made the call
  tool,      \* the class of tool it wants
  verdict,   \* what the transcript's entry shows
  reply,     \* how the promise the agent awaits was resolved
  sent,      \* decisions some browser sent; two tabs may send two
  stopped    \* daemon.stop ran

sessionVars == <<launch, status, mode, turn, active, runs, aborted, conv, ended>>
gateVars    == <<phase, owner, ownTurn, tool, verdict, reply>>
vars        == <<sessionVars, gateVars, sent, stopped>>

Turns     == 1 .. MaxTurns
EndStatus == {"done", "error", "turn_limit", "needs_restart"}
Status    == {"none", "running", "awaiting_input"} \cup EndStatus
Mode      == {"default", "acceptEdits", "bypassPermissions"}  \* plan gates as default does
Tool      == {"read", "edit", "command", "question"}
Phase     == {"unasked", "diffing", "pending", "settled"}
Verdict   == {"none", "pending", "allow", "deny", "answered"}
Behavior  == {"allow", "deny", "answer"}
Denial    == {"deny", "timeout", "interrupted", "stopping"}
Reply     == {"none", "policy", "allow", "answer"} \cup Denial

Init ==
  /\ launch  = [s \in Session |-> "unsent"]
  /\ status  = [s \in Session |-> "none"]
  /\ mode    = [s \in Session |-> "default"]
  /\ turn    = [s \in Session |-> 0]
  /\ active  = {}
  /\ runs    = [s \in Session |-> {}]
  /\ aborted = [s \in Session |-> {}]
  /\ conv    = {}
  /\ ended   = {}
  /\ phase   = [g \in Gate |-> "unasked"]
  /\ owner   = [g \in Gate |-> NoSession]
  /\ ownTurn = [g \in Gate |-> 0]
  /\ tool    = [g \in Gate |-> "read"]
  /\ verdict = [g \in Gate |-> "none"]
  /\ reply   = [g \in Gate |-> "none"]
  /\ sent    = [g \in Gate |-> {}]
  /\ stopped = FALSE

-----------------------------------------------------------------------------
(* Turns: launch, follow-up, the end of a run. *)

\* runTurn once past its guard; on its own, a mutant that begins any turn.
BeginTurnUnguarded(s) ==
  /\ turn'   = [turn EXCEPT ![s] = @ + 1]
  /\ active' = active \cup {s}
  /\ runs'   = [runs EXCEPT ![s] = @ \cup {turn[s] + 1}]

\* runTurn up to the adapter's run: the one-turn-at-a-time guard, then the
\* bookkeeping, which no await separates from the guard.
BeginTurn(s) ==
  IF s \in active THEN UNCHANGED <<turn, active, runs>> ELSE BeginTurnUnguarded(s)

\* session.launch arrives and runSession goes to await the workspace, or gives
\* up at once on a payload it cannot open (session.ended, no record).
LaunchArrives(s) ==
  /\ ~stopped
  /\ launch[s] = "unsent"
  /\ \E next \in {"preparing", "over"} : launch' = [launch EXCEPT ![s] = next]
  /\ UNCHANGED <<status, mode, turn, active, runs, aborted, conv, ended,
                 gateVars, sent, stopped>>

\* prepareWorkspace failed (clone or worktree): the launch ends in error.
PrepareFails(s) ==
  /\ launch[s] = "preparing"
  /\ launch' = [launch EXCEPT ![s] = "over"]
  /\ status' = [status EXCEPT ![s] = "error"]
  /\ UNCHANGED <<mode, turn, active, runs, aborted, conv, ended, gateVars, sent, stopped>>

\* The workspace is there: running, session.started, the first turn.
LaunchReady(s, m) ==
  /\ launch[s] = "preparing"
  /\ turn[s] < MaxTurns
  /\ launch' = [launch EXCEPT ![s] = "over"]
  /\ mode'   = [mode EXCEPT ![s] = m]
  /\ status' = [status EXCEPT ![s] = "running"]
  /\ BeginTurn(s)
  /\ UNCHANGED <<aborted, conv, ended, gateVars, sent, stopped>>

\* Mutant: an ended session is followed up.
FollowUpOfEnded(s) ==
  /\ ~stopped
  /\ s \in conv
  /\ s \in active \/ turn[s] < MaxTurns
  /\ status' = [status EXCEPT ![s] = "running"]
  /\ BeginTurn(s)
  /\ UNCHANGED <<launch, mode, aborted, conv, ended, gateVars, sent, stopped>>

\* user.message on a conversation that can be resumed.  The status is set
\* before runTurn decides whether to drop the turn.
FollowUp(s) ==
  /\ ~stopped
  /\ s \notin ended
  /\ s \in conv
  /\ s \in active \/ turn[s] < MaxTurns
  /\ status' = [status EXCEPT ![s] = "running"]
  /\ BeginTurn(s)
  /\ UNCHANGED <<launch, mode, aborted, conv, ended, gateVars, sent, stopped>>

\* Mutant: a follow-up that cannot resume marks the session running and stops there.
FollowUpUnresumableRuns(s) ==
  /\ ~stopped /\ s \notin ended \cup conv /\ status[s] # "none"
  /\ status' = [status EXCEPT ![s] = "running"]
  /\ UNCHANGED <<launch, mode, turn, active, runs, aborted, conv, ended,
                 gateVars, sent, stopped>>

\* user.message on a held session with no resume id (handleUnresumableFollowUp);
\* on an unknown session the frame is dropped.
FollowUpUnresumable(s) ==
  /\ ~stopped
  /\ s \notin ended
  /\ s \notin conv
  /\ status[s] # "none"
  /\ status' = [status EXCEPT ![s] = "needs_restart"]
  /\ UNCHANGED <<launch, mode, turn, active, runs, aborted, conv, ended,
                 gateVars, sent, stopped>>

\* The calls the agent of turn n is still waiting on.
Unanswered(s, n) ==
  {g \in Gate : owner[g] = s /\ ownTurn[g] = n /\ phase[g] \in {"diffing", "pending"}}

\* How a run can end.  A fired abort wins over whatever the adapter reports; a
\* live agent can only finish when no call of its is unanswered, but its
\* process can die at any time.
EndReasons(s, n) ==
  IF n \in aborted[s] THEN {"done"}
  ELSE {"error"} \cup (IF Unanswered(s, n) = {} THEN {"done", "turn_limit"} ELSE {})

\* runTurn after the run: the resume id if the conversation had started, the
\* end status, and the finally block.  Pending gates are left alone.
RunEnds(s, n) ==
  /\ n \in runs[s]
  /\ \E how \in EndReasons(s, n) : status' = [status EXCEPT ![s] = how]
  /\ conv' \in {conv, conv \cup {s}}
  /\ runs'    = [runs EXCEPT ![s] = @ \ {n}]
  /\ aborted' = [aborted EXCEPT ![s] = @ \ {n}]
  /\ active'  = active \ {s}
  /\ UNCHANGED <<launch, mode, turn, ended, gateVars, sent, stopped>>

-----------------------------------------------------------------------------
(* The gate. *)

\* classifyTool: what may run without the operator.
PolicyAllows(t, m) ==
  \/ t = "read"
  \/ m = "bypassPermissions" /\ t # "question"
  \/ m = "acceptEdits" /\ t = "edit"

\* The agent of turn n wants a tool.  A question is registered at once; the
\* diff stat of an edit reads the file first, any other tool's reads nothing.
CanUseTool(s, n, g, t) ==
  /\ n \in runs[s] \ aborted[s]
  /\ phase[g] = "unasked"
  /\ owner'   = [owner EXCEPT ![g] = s]
  /\ ownTurn' = [ownTurn EXCEPT ![g] = n]
  /\ tool'    = [tool EXCEPT ![g] = t]
  /\ \/ /\ PolicyAllows(t, mode[s])
        /\ phase' = [phase EXCEPT ![g] = "settled"]
        /\ reply' = [reply EXCEPT ![g] = "policy"]
        /\ UNCHANGED <<status, verdict>>
     \/ /\ ~PolicyAllows(t, mode[s])
        /\ t = "edit"
        /\ phase' = [phase EXCEPT ![g] = "diffing"]
        /\ UNCHANGED <<status, verdict, reply>>
     \/ /\ ~PolicyAllows(t, mode[s])
        /\ t # "edit"
        /\ phase'   = [phase EXCEPT ![g] = "pending"]
        /\ verdict' = [verdict EXCEPT ![g] = "pending"]
        /\ status'  = [status EXCEPT ![s] = "awaiting_input"]
        /\ UNCHANGED reply
  /\ UNCHANGED <<launch, mode, turn, active, runs, aborted, conv, ended, sent, stopped>>

\* gateDiffStat returned: requestPermission records and registers the gate.
\* Nothing is checked again after that await.
DiffDone(g) ==
  /\ phase[g] = "diffing"
  /\ phase'   = [phase EXCEPT ![g] = "pending"]
  /\ verdict' = [verdict EXCEPT ![g] = "pending"]
  /\ status'  = [status EXCEPT ![owner[g]] = "awaiting_input"]
  /\ UNCHANGED <<launch, mode, turn, active, runs, aborted, conv, ended,
                 owner, ownTurn, tool, reply, sent, stopped>>

\* An operator, on any tab that saw the gate, answers it.
Send(g, b) ==
  /\ ~stopped
  /\ phase[g] \in {"pending", "settled"}
  /\ verdict[g] # "none"
  /\ b \in IF tool[g] = "question" THEN {"answer"} ELSE {"allow", "deny"}
  /\ sent' = [sent EXCEPT ![g] = @ \cup {b}]
  /\ UNCHANGED <<sessionVars, gateVars, stopped>>

\* A pending gate is settled: out of its map, onto the transcript, the promise
\* resolved, the session running again (settlePermissionEntry, settleQuestionEntry).
Settle(g, v, r) ==
  /\ phase'   = [phase EXCEPT ![g] = "settled"]
  /\ verdict' = [verdict EXCEPT ![g] = v]
  /\ reply'   = [reply EXCEPT ![g] = r]
  /\ status'  = [status EXCEPT ![owner[g]] = "running"]
  /\ UNCHANGED <<launch, mode, turn, active, runs, aborted, conv, ended,
                 owner, ownTurn, tool, sent, stopped>>

Recorded(b) == IF b = "answer" THEN "answered" ELSE b

\* permission.decision or question.answer for a gate still in its pending map;
\* one for a settled gate changes nothing (it is answered with the history).
Decide(g, b) ==
  /\ ~stopped
  /\ b \in sent[g]
  /\ phase[g] = "pending"
  /\ Settle(g, Recorded(b), b)

\* Mutants: the timer fails open; leaves the transcript pending; spares questions.
TimeoutFailsOpen(g) == TimeoutArmed /\ phase[g] = "pending" /\ Settle(g, "allow", "allow")
TimeoutUnrecorded(g) == TimeoutArmed /\ phase[g] = "pending" /\ Settle(g, verdict[g], "timeout")
TimeoutOfPermission(g) ==
  TimeoutArmed /\ phase[g] = "pending" /\ tool[g] # "question" /\ Settle(g, "deny", "timeout")

\* The timer of a pending gate: a permission denies itself on the transcript, a
\* question stays as asked; the session resumes either way.
Timeout(g) ==
  /\ TimeoutArmed
  /\ phase[g] = "pending"
  /\ Settle(g, IF tool[g] = "question" THEN verdict[g] ELSE "deny", "timeout")

-----------------------------------------------------------------------------
(* Operator control and daemon stop. *)

\* Mutant: an interrupt settles the gates of all sessions.
PendingOfAny(s) == {g \in Gate : phase[g] = "pending"}

PendingOf(s) == {g \in Gate : phase[g] = "pending" /\ owner[g] = s}

\* The pending gates of G are settled by the daemon itself.
SettleAll(G, why) ==
  /\ phase' = [g \in Gate |-> IF g \in G THEN "settled" ELSE phase[g]]
  /\ reply' = [g \in Gate |-> IF g \in G THEN why ELSE reply[g]]

\* stopTurn: deny the session's pending permissions, release its questions, and
\* abort the run whose handle sessionAborts holds.
StopTurn(s) ==
  /\ SettleAll(PendingOf(s), "interrupted")
  /\ verdict' = [g \in Gate |-> IF g \in PendingOf(s) /\ tool[g] # "question"
                                THEN "deny" ELSE verdict[g]]
  /\ aborted' = IF s \in active THEN [aborted EXCEPT ![s] = @ \cup {turn[s]}] ELSE aborted

Interrupt(s) ==
  /\ ~stopped
  /\ s \in active \/ PendingOf(s) # {}
  /\ StopTurn(s)
  /\ UNCHANGED <<launch, status, mode, turn, active, runs, conv, ended,
                 owner, ownTurn, tool, sent, stopped>>

\* `end`: terminal.  With no run to abort the session is done at once (setStatus
\* creates the record of a session the daemon does not hold).
End(s) ==
  /\ ~stopped
  /\ launch[s] # "unsent"
  /\ ended' = ended \cup {s}
  /\ StopTurn(s)
  /\ status' = IF s \in active THEN status ELSE [status EXCEPT ![s] = "done"]
  /\ UNCHANGED <<launch, mode, turn, active, runs, conv, owner, ownTurn, tool, sent, stopped>>

\* daemon.stop: every pending promise is resolved, the transcript is not touched.
Stop ==
  /\ ~stopped
  /\ stopped' = TRUE
  /\ SettleAll({g \in Gate : phase[g] = "pending"}, "stopping")
  /\ UNCHANGED <<sessionVars, owner, ownTurn, tool, verdict, sent>>

-----------------------------------------------------------------------------
AskCall(s, g) == \E n \in Turns, t \in Tool : CanUseTool(s, n, g, t)

Next ==
  \/ \E s \in Session : \/ LaunchArrives(s) \/ PrepareFails(s)
                        \/ \E m \in Mode : LaunchReady(s, m)
                        \/ FollowUp(s) \/ FollowUpUnresumable(s)
                        \/ \E n \in Turns : RunEnds(s, n)
                        \/ \E g \in Gate : AskCall(s, g)
                        \/ Interrupt(s) \/ End(s)
  \/ \E g \in Gate : \/ DiffDone(g) \/ Timeout(g)
                     \/ \E b \in Behavior : Send(g, b) \/ Decide(g, b)
  \/ Stop

Spec == Init /\ [][Next]_vars

\* The file read returns and timers fire.  Operators and agents owe nothing.
Fairness == \A g \in Gate : WF_vars(DiffDone(g)) /\ WF_vars(Timeout(g))

FairSpec == Spec /\ Fairness

-----------------------------------------------------------------------------
(* Properties. *)

\* Every variable stays in its domain.
TypeOK ==
  /\ launch \in [Session -> {"unsent", "preparing", "over"}]
  /\ status \in [Session -> Status]
  /\ mode \in [Session -> Mode]
  /\ turn \in [Session -> 0 .. MaxTurns]
  /\ active \subseteq Session
  /\ runs \in [Session -> SUBSET Turns]
  /\ aborted \in [Session -> SUBSET Turns]
  /\ conv \subseteq Session
  /\ ended \subseteq Session
  /\ phase \in [Gate -> Phase]
  /\ owner \in [Gate -> Session \cup {NoSession}]
  /\ ownTurn \in [Gate -> 0 .. MaxTurns]
  /\ tool \in [Gate -> Tool]
  /\ verdict \in [Gate -> Verdict]
  /\ reply \in [Gate -> Reply]
  /\ sent \in [Gate -> SUBSET Behavior]
  /\ stopped \in BOOLEAN

\* Invariant #4 of the repository: a tool only runs when the session's mode lets
\* it, or an operator sent "allow" for that very call; no timeout, interrupt,
\* stop or decision for another gate ever lets it through.
NoUnapprovedTool ==
  \A g \in Gate : reply[g] \in {"allow", "policy"} =>
    \/ reply[g] = "allow" /\ "allow" \in sent[g] /\ tool[g] # "question"
    \/ reply[g] = "policy" /\ PolicyAllows(tool[g], mode[owner[g]])

\* What the transcript shows of a gate (and a later backfill repeats) is what the
\* agent was told: pending while it waits, then the same verdict whichever of
\* operator, timer and interrupt settled it.  daemon.stop is the exception.
TranscriptTellsTheReply ==
  \A g \in Gate :
    /\ phase[g] = "pending" => verdict[g] = "pending" /\ reply[g] = "none"
    /\ phase[g] = "settled" /\ reply[g] \notin {"policy", "stopping"} =>
         IF tool[g] = "question"
         THEN verdict[g] = IF reply[g] = "answer" THEN "answered" ELSE "pending"
         ELSE verdict[g] = IF reply[g] = "allow" THEN "allow" ELSE "deny"

\* A promise resolves once: nothing that comes later (the other tab's decision,
\* the timer, an interrupt, stop) changes the reply or the recorded verdict.
SettledOnce ==
  [][\A g \in Gate : reply[g] # "none" => reply'[g] = reply[g] /\ verdict'[g] = verdict[g]]_vars

\* A session has at most one adapter run in flight, exactly while activeRuns
\* holds it, and the abort handle an interrupt would fire is that run's.
OneTurnAtATime ==
  \A s \in Session : runs[s] = IF s \in active THEN {turn[s]} ELSE {}

\* Interrupt and end settle the pending gates of their session, every one, and
\* no other session's.
InterruptIsLocalAndTotal ==
  [][\A g \in Gate : reply[g] = "none" /\ reply'[g] = "interrupted" =>
       /\ \A h \in Gate : owner[h] = owner[g] /\ phase[h] = "pending" => phase'[h] = "settled"
       /\ \A h \in Gate : owner[h] # owner[g] => phase'[h] = phase[h]]_vars

\* The agent run that made a call is over.
Late(g) == ownTurn[g] \notin runs[owner[g]]

\* The one way a gate is pending for a run that was told to stop is the await
\* on its diff stat: only a file-writing tool's gate registers after the abort.
OnlyDiffedGatesOutliveAnAbort ==
  \A g \in Gate : phase[g] = "pending" /\ ownTurn[g] \in aborted[owner[g]] => tool[g] = "edit"

\* A call is refused as interrupted only if its own run was told to stop, or is over.
OnlyStoppedRunsAreInterrupted ==
  \A g \in Gate : reply[g] = "interrupted" => ownTurn[g] \in aborted[owner[g]] \/ Late(g)

\* An interrupt or end hits the run it is for, and all of it: stopTurn walks maps that all
\* sessions share, beside timers, decisions, late gates and other sessions' interrupts, and
\* leaves nothing of a stopped run waiting, but an edit whose diff was being read.
InterruptHitsItsRun == OnlyStoppedRunsAreInterrupted /\ OnlyDiffedGatesOutliveAnAbort

\* A session leaves an end status only because it has a turn in flight or
\* because a gate whose run is over still moves (registers, is decided, expires).
OnlyATurnOrALateGateRevives ==
  [][\A s \in Session : status[s] \in EndStatus /\ status'[s] \notin EndStatus =>
       \/ s \in active'
       \/ \E g \in Gate : owner[g] = s /\ Late(g) /\ phase'[g] # phase[g]]_vars

\* An ended session starts no turn, but for its first one when `end` came while the
\* launch prepared the workspace (endedSessions; runSession does not look at it again).
OnlyALaunchOutrunsEnd ==
  [][\A s \in ended : turn'[s] # turn[s] => launch[s] = "preparing" /\ turn[s] = 0]_vars

\* With the gate timeout armed no call waits forever, whatever operators do.
EveryCallIsAnswered ==
  \A g \in Gate : phase[g] \in {"diffing", "pending"} ~> phase[g] = "settled"

\* The state of a call as ApprovalGate sees it.
CallState ==
  [g \in Gate |-> CASE phase[g] = "unasked" -> "new"
                    [] phase[g] \in {"diffing", "pending"} -> "open"
                    [] phase[g] = "settled" ->
                         IF reply[g] \in {"allow", "policy"} THEN "granted" ELSE "refused"]

Approval == INSTANCE ApprovalGate WITH call <- CallState, vote <- sent

\* The daemon's launches, controls, timers and shutdown implement the abstract
\* gate: no step of any of them is anything but one move of some call.
ImplementsApprovalGate == Approval!Spec
=============================================================================
