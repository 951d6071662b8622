--------------------------- MODULE AdoptedSession ---------------------------
(***************************************************************************)
(* The life of one adopted session: a Claude Code session the user runs in *)
(* a terminal, mirrored and gated by the daemon.  Hook handlers, takeover  *)
(* offers and their continuations, operator controls and the restore, of   *)
(* packages/daemon/src/daemon.ts.                                          *)
(*                                                                         *)
(* Handlers await (the transcript mirror, a gate's diff, a human, the mint *)
(* of a continuation) and overlap: tool calls of a turn run in parallel,   *)
(* and a terminal the user escaped leaves its handlers behind.             *)
(***************************************************************************)
EXTENDS Naturals, FiniteSets

CONSTANTS Hook,        \* hook events whose handling can overlap
          Take,        \* continuations being minted at once
          MaxOffers,   \* bound
          MaxEscapes,  \* bound
          MaxRestarts  \* bound

ASSUME AdoptedConstants ==
  /\ MaxOffers \in Nat \ {0}
  /\ MaxEscapes \in Nat
  /\ MaxRestarts \in Nat

VARIABLES
  terminal,  \* Claude Code: idle, busy (in a turn), stopping (in Stop's hook), gone
  status,    \* SessionRecord.status
  offer,     \* of each takeover offer: new, shown, dropped or answered in the transcript
  offered,   \* pendingHandovers
  hook,      \* where the handling of each hook event is, see Handling
  take,      \* the continuations being minted: by which offer, see Minting
  watched,   \* isRemoteViewerOnline
  dirty,     \* a persist of the record is under way
  filed,     \* the record in the session store: its status and offers
  continued, \* history: continuations launched by each offer
  forgotten, \* history: restarts that forgot the answer to each offer
  answering, \* history: awaiting_input with its ask settled, by a control or an answer
  left,      \* history: the terminal left handlers behind
  outlived,  \* history: it was done with an offer still shown
  misled,    \* history: status was set by a Stop the terminal had left, or by a restart
  escapes,
  restarts

record  == <<status, offer, offered>>
history == <<continued, forgotten, answering, left, outlived, misled, escapes, restarts>>
adoptedVars    == <<terminal, record, hook, take, watched, dirty, filed, history>>

Offer == 1 .. MaxOffers
NoOffer == 0
\* A takeover (session.resume_new of a session between turns) has no offer.
Takeover == MaxOffers + 1

Ended == {"done", "needs_restart"}
Shown == {o \in Offer : offer[o] = "shown"}

\* idle; mirror: awaits the transcript mirror; diff: awaits the diff of a gate not yet
\* registered; held: awaits a human.  Kinds: tool, start, stop, end.  A live one is
\* still waited for by Claude Code.
Handling(at, kind, live) == [at |-> at, kind |-> kind, live |-> live]
NoHook == Handling("idle", "none", FALSE)
Held == {h \in Hook : hook[h].at = "held"}

Minting(by) == [at |-> "minting", by |-> by]
NoTake == [at |-> "idle", by |-> NoOffer]

\* The session was adopted in a turn.
AdoptedInit ==
  /\ terminal  = "busy"
  /\ status    = "running"
  /\ offer     = [o \in Offer |-> "new"]
  /\ offered   = {}
  /\ hook      = [h \in Hook |-> NoHook]
  /\ take      = [t \in Take |-> NoTake]
  /\ watched   = FALSE
  /\ dirty     = FALSE
  /\ filed     = [status |-> "running", offer |-> [o \in Offer |-> "new"]]
  /\ continued = [o \in Offer |-> 0]
  /\ forgotten = [o \in Offer |-> 0]
  /\ answering = FALSE
  /\ left      = FALSE
  /\ outlived  = FALSE
  /\ misled    = FALSE
  /\ escapes   = 0
  /\ restarts  = 0

-----------------------------------------------------------------------------
(* Helpers of the handlers. *)

Leave(h) == hook' = [hook EXCEPT ![h] = NoHook]
Begin(h, kind) ==
  /\ hook[h].at = "idle"
  /\ hook' = [hook EXCEPT ![h] = Handling("mirror", kind, TRUE)]

\* supersedePendingHandoverByLocalActivity on a record with this status: whether it
\* acts, the status it leaves, and the offers it drops.
Supersedes(st) == st \notin Ended /\ Shown # {}
Superseded(st) == IF Supersedes(st) THEN "running" ELSE st
Pruned(st) == [o \in Offer |-> IF offer[o] = "shown" /\ Supersedes(st)
                                 THEN "dropped" ELSE offer[o]]

\* Mutant: the offers stay.
DropsNoOffers(st) == UNCHANGED <<offer, offered>>
DropsOffers(st) ==
  /\ offer'   = Pruned(st)
  /\ offered' = IF Supersedes(st) THEN {} ELSE offered

\* The record's new status, with nothing asked; or with an ask.
Becomes(st) ==
  /\ status'    = st
  /\ answering' = (answering /\ st = status)
  /\ outlived'  = (outlived \/ (st = "done" /\ Shown # {}))
AwaitsInput ==
  /\ status'    = "awaiting_input"
  /\ answering' = FALSE
  /\ UNCHANGED outlived

-----------------------------------------------------------------------------
(* Hook events. *)

\* Activity revives a session between turns, or one a restart gave up.
Revived(st) == IF st \in {"waiting_local", "needs_restart"} THEN "running" ELSE st

\* UserPromptSubmit: handled at once.
PromptSubmitted ==
  /\ terminal = "idle"
  /\ terminal' = "busy"
  /\ DropsOffers(status)
  /\ Becomes(Revived(Superseded(status)))
  /\ dirty'  = (dirty \/ Supersedes(status) \/ status' # status)
  /\ misled' = FALSE
  /\ UNCHANGED <<hook, take, watched, filed, continued, forgotten, left, escapes, restarts>>

\* A PreToolUse of the turn, or the SessionStart of a session resumed in a terminal:
\* the transcript is mirrored first.
Arrives(h, kind) ==
  /\ \/ kind = "tool"  /\ terminal = "busy" /\ UNCHANGED terminal
     \/ kind = "start" /\ terminal = "gone" /\ terminal' = "idle"
  /\ Begin(h, kind)
  /\ Becomes(Revived(status))
  /\ UNCHANGED <<offer, offered, take, watched, dirty, filed, continued, forgotten, left, misled,
                 escapes, restarts>>

\* A Stop ends the turn, whose tool calls have been answered.
Stops(h) ==
  /\ terminal = "busy"
  /\ \A g \in Hook : ~hook[g].live
  /\ terminal' = "stopping"
  /\ Begin(h, "stop")
  /\ UNCHANGED <<record, take, watched, dirty, filed, history>>

\* A SessionEnd leaves them unanswered.
Ends(h) ==
  /\ terminal \in {"idle", "busy"}
  /\ terminal' = "gone"
  /\ hook[h].at = "idle"
  /\ hook' = [g \in Hook |-> IF g = h THEN Handling("mirror", "end", TRUE)
                                      ELSE [hook[g] EXCEPT !.live = FALSE]]
  /\ left' = (left \/ \E g \in Hook : hook[g].live)
  /\ UNCHANGED <<record, take, watched, dirty, filed, continued, forgotten, answering,
                 outlived, misled, escapes, restarts>>

\* The user escapes a turn, or a Stop's hook: no event says so, and what the daemon is
\* handling goes on unattended (bounded).
Escapes ==
  /\ escapes < MaxEscapes
  /\ terminal \in {"busy", "stopping"}
  /\ terminal' = "idle"
  /\ hook'     = [g \in Hook |-> [hook[g] EXCEPT !.live = FALSE]]
  /\ left'     = (left \/ \E g \in Hook : hook[g].live)
  /\ escapes'  = escapes + 1
  /\ UNCHANGED <<record, take, watched, dirty, filed, continued, forgotten, answering,
                 outlived, misled, restarts>>

\* A Stop's hook that is still waited for lets the terminal go idle.
LeavesTerminal(h) ==
  terminal' = IF hook[h].live /\ hook[h].kind = "stop" THEN "idle" ELSE terminal

\* The mirror throws (its file cannot be closed): the event is answered with {} and
\* does no more.
MirrorFails(h) ==
  /\ hook[h].at = "mirror"
  /\ Leave(h)
  /\ LeavesTerminal(h)
  /\ UNCHANGED <<record, take, watched, dirty, filed, history>>

\* A session start has nothing more to do.
StartMirrored(h) ==
  /\ hook[h].at = "mirror" /\ hook[h].kind = "start"
  /\ Leave(h)
  /\ UNCHANGED <<terminal, record, take, watched, dirty, filed, history>>

\* A tool call drops the offers; it is left to Claude Code, or held if it needs a human
\* and somebody watches: a question at once, a permission once it has its diff.
ToolMirrored(h) ==
  /\ hook[h].at = "mirror" /\ hook[h].kind = "tool"
  /\ DropsOffers(status)
  /\ dirty' = (dirty \/ Supersedes(status))
  /\ \/ Leave(h) /\ Becomes(Superseded(status))
     \/ watched /\ hook' = [hook EXCEPT ![h].at = "diff"] /\ Becomes(Superseded(status))
     \/ watched /\ hook' = [hook EXCEPT ![h].at = "held"] /\ AwaitsInput
  /\ UNCHANGED <<terminal, take, watched, filed, continued, forgotten, left, misled, escapes,
                 restarts>>

\* requestPermission registers the gate.
Registers(h) ==
  /\ hook[h].at = "diff"
  /\ hook' = [hook EXCEPT ![h].at = "held"]
  /\ AwaitsInput
  /\ UNCHANGED <<terminal, offer, offered, take, watched, dirty, filed, continued,
                 forgotten, left, misled, escapes, restarts>>

\* A decision, an answer or the gate's timer settles it and resumes the session.
\* Mutants: it only settles it; or only while somebody watches.
SettlesOnly(h) ==
  /\ hook[h].at = "held"
  /\ Leave(h)
  /\ UNCHANGED <<terminal, record, take, watched, dirty, filed, history>>
SettlesWatched(h) ==
  /\ hook[h].at = "held"
  /\ watched
  /\ Leave(h)
  /\ Becomes("running")
  /\ UNCHANGED <<terminal, offer, offered, take, watched, dirty, filed, continued,
                 forgotten, left, misled, escapes, restarts>>
Settles(h) ==
  /\ hook[h].at = "held"
  /\ Leave(h)
  /\ Becomes("running")
  /\ UNCHANGED <<terminal, offer, offered, take, watched, dirty, filed, continued,
                 forgotten, left, misled, escapes, restarts>>

\* A question the turn ended in makes the next offer, unless a gate is asking.
StopOffers(st) ==
  /\ Superseded(st) # "awaiting_input"
  /\ \E o \in Offer :
       /\ offer[o] = "new" /\ \A p \in Offer : p < o => offer[p] # "new"
       /\ offer'   = [Pruned(st) EXCEPT ![o] = "shown"]
       /\ offered' = (IF Supersedes(st) THEN {} ELSE offered) \cup {o}
  /\ AwaitsInput

\* Otherwise the session waits at its terminal.
StopReports(st) ==
  /\ DropsOffers(st)
  /\ Becomes(IF Superseded(st) = "awaiting_input" THEN "awaiting_input" ELSE "waiting_local")

\* Mutant: a Stop of an ended session settles it too.
StopSettlesAny ==
  LET st == IF status \in Ended THEN "waiting_local" ELSE status
  IN  StopOffers(st) \/ StopReports(st)

\* settleStopOutcome: an ended session stays as it is, but a Stop disproves a restart's guess.
StopSettles ==
  LET st == IF status = "needs_restart" THEN "waiting_local" ELSE status
  IN  IF status = "done" THEN UNCHANGED <<record, answering, outlived>>
                         ELSE StopOffers(st) \/ StopReports(st)

StopMirrored(h) ==
  /\ hook[h].at = "mirror" /\ hook[h].kind = "stop"
  /\ StopSettles
  /\ Leave(h)
  /\ LeavesTerminal(h)
  /\ dirty'  = TRUE
  /\ misled' = (misled \/ ~hook[h].live)
  /\ UNCHANGED <<take, watched, filed, continued, forgotten, left, escapes, restarts>>

EndMirrored(h) ==
  /\ hook[h].at = "mirror" /\ hook[h].kind = "end"
  /\ Leave(h)
  /\ Becomes(IF status \in Ended THEN status ELSE "done")
  /\ dirty' = (dirty \/ status' # status)
  /\ UNCHANGED <<terminal, offer, offered, take, watched, filed, continued, forgotten, left,
                 misled, escapes, restarts>>

-----------------------------------------------------------------------------
(* The operator. *)

\* interrupt and end settle the gates held (not those awaiting their diff); only end
\* sets a status.
StopTurn == hook' = [h \in Hook |-> IF h \in Held THEN NoHook ELSE hook[h]]

Interrupt ==
  /\ Held # {}
  /\ StopTurn
  /\ answering' = (status = "awaiting_input")
  /\ UNCHANGED outlived
  /\ UNCHANGED <<terminal, record, take, watched, dirty, filed, continued, forgotten, left,
                 misled, escapes, restarts>>

End ==
  /\ StopTurn
  /\ Becomes("done")
  /\ dirty' = TRUE
  /\ UNCHANGED <<terminal, offer, offered, take, watched, filed, continued, forgotten, left,
                 misled, escapes, restarts>>

Mints(t, by) ==
  /\ take[t] = NoTake
  /\ take' = [take EXCEPT ![t] = Minting(by)]

\* handover.answer: the offer is answered in the transcript and its continuation minted;
\* the answer is not persisted yet.  One for an offer not in the map changes nothing.
\* Mutant: an offer that has been answered is answered again.
AnswersAgain(o) ==
  /\ offer[o] \in {"shown", "answered"}
  /\ offer'   = [offer EXCEPT ![o] = "answered"]
  /\ answering' = (answering \/ status = "awaiting_input")
  /\ UNCHANGED outlived
  /\ \E t \in Take : Mints(t, o)
  /\ UNCHANGED <<terminal, status, offered, hook, watched, dirty, filed, continued,
                 forgotten, left, misled, escapes, restarts>>
Answers(o) ==
  /\ o \in offered
  /\ offered'   = offered \ {o}
  /\ offer'     = [offer EXCEPT ![o] = "answered"]
  /\ answering' = (answering \/ status = "awaiting_input")
  /\ UNCHANGED outlived
  /\ \E t \in Take : Mints(t, o)
  /\ UNCHANGED <<terminal, status, hook, watched, dirty, filed, continued, forgotten, left,
                 misled, escapes, restarts>>

\* session.resume_new of a session between turns.
TakesOver ==
  /\ status = "waiting_local"
  /\ \E t \in Take : Mints(t, Takeover)
  /\ UNCHANGED <<terminal, record, hook, watched, dirty, filed, history>>

\* The mint timed out: a warning is logged.
MintFails(t) ==
  /\ take[t] # NoTake
  /\ take' = [take EXCEPT ![t] = NoTake]
  /\ UNCHANGED <<terminal, record, hook, watched, dirty, filed, history>>

\* The continuation of an offer is launched: the parent is done.
HandsOver(t) ==
  /\ take[t].by \in Offer
  /\ take' = [take EXCEPT ![t] = NoTake]
  /\ Becomes("done")
  /\ dirty' = TRUE
  /\ continued' = [continued EXCEPT ![take[t].by] = @ + 1]
  /\ UNCHANGED <<terminal, offer, offered, hook, watched, filed, forgotten, left, misled, escapes,
                 restarts>>

\* A takeover's: the parent is retired if it still waits between turns.
\* Mutant: as it did when the takeover was asked for.
RetiresAnyway(t) ==
  /\ take[t].by = Takeover
  /\ take' = [take EXCEPT ![t] = NoTake]
  /\ Becomes("done")
  /\ dirty' = TRUE
  /\ UNCHANGED <<terminal, offer, offered, hook, watched, filed, continued, forgotten, left,
                 misled, escapes, restarts>>
Retires(t) ==
  /\ take[t].by = Takeover
  /\ take' = [take EXCEPT ![t] = NoTake]
  /\ Becomes(IF status = "waiting_local" THEN "done" ELSE status)
  /\ dirty' = (dirty \/ status = "waiting_local")
  /\ UNCHANGED <<terminal, offer, offered, hook, watched, filed, continued, forgotten, left,
                 misled, escapes, restarts>>

\* viewer.presence.
Watches ==
  /\ watched' = ~watched
  /\ UNCHANGED <<terminal, record, hook, take, dirty, filed, history>>

-----------------------------------------------------------------------------
(* The disk and the process. *)

\* A persist reaches the disk, with the record as it is by then (SessionStore).
Files ==
  /\ dirty
  /\ dirty' = FALSE
  /\ filed' = [status |-> status, offer |-> offer]
  /\ UNCHANGED <<terminal, record, hook, take, watched, history>>

\* What a restart makes of the offers: those not on file are gone.
RestoredOffer(o) == IF offer[o] # "new" /\ filed.offer[o] = "new" THEN "dropped" ELSE filed.offer[o]

\* pendingHandoverFromPersisted.  Mutant: the offers are not registered again.
RehydratesNone == {}
Rehydrated == {o \in Offer : filed.offer[o] = "shown"}

\* restorePersistedSessions: an ask without an offer is given up, an offer is registered
\* again.  The terminal went on meanwhile.
Restarts(later) ==
  /\ restarts < MaxRestarts
  /\ restarts' = restarts + 1
  /\ offer'    = [o \in Offer |-> RestoredOffer(o)]
  /\ offered'  = Rehydrated
  /\ status'   = IF filed.status = "awaiting_input" /\ Rehydrated = {}
                   THEN "needs_restart" ELSE filed.status
  /\ terminal' = later
  /\ hook'     = [h \in Hook |-> NoHook]
  /\ take'     = [t \in Take |-> NoTake]
  /\ watched'  = FALSE
  /\ dirty'    = FALSE
  /\ forgotten' = [o \in Offer |-> forgotten[o] +
                     (IF offer[o] = "answered" /\ filed.offer[o] = "shown" THEN 1 ELSE 0)]
  /\ answering' = FALSE
  /\ outlived' = (outlived \/ (status' = "done" /\ offered' # {}))
  /\ misled'   = TRUE
  /\ UNCHANGED <<filed, continued, left, escapes>>

-----------------------------------------------------------------------------
HookNext(h) ==
  \/ \E kind \in {"tool", "start"} : Arrives(h, kind)
  \/ Stops(h) \/ Ends(h)
  \/ MirrorFails(h) \/ StartMirrored(h) \/ ToolMirrored(h) \/ StopMirrored(h) \/ EndMirrored(h)
  \/ Registers(h) \/ Settles(h)

AdoptedNext ==
  \/ \E h \in Hook : HookNext(h)
  \/ PromptSubmitted \/ Escapes
  \/ Interrupt \/ End \/ TakesOver \/ Watches
  \/ \E o \in Offer : Answers(o)
  \/ \E t \in Take : MintFails(t) \/ HandsOver(t) \/ Retires(t)
  \/ Files
  \/ \E later \in {"idle", "busy", "gone"} : Restarts(later)

\* Reads of files end and gate timers fire.
Handles(h) == StartMirrored(h) \/ ToolMirrored(h) \/ StopMirrored(h) \/ EndMirrored(h)
                \/ MirrorFails(h) \/ Registers(h) \/ Settles(h)
AdoptedFairness == \A h \in Hook : WF_adoptedVars(Handles(h))

AdoptedSpec == AdoptedInit /\ [][AdoptedNext]_adoptedVars /\ AdoptedFairness

-----------------------------------------------------------------------------
TypeOK ==
  /\ terminal \in {"idle", "busy", "stopping", "gone"}
  /\ status \in {"running", "waiting_local", "awaiting_input"} \cup Ended
  /\ offer \in [Offer -> {"new", "shown", "dropped", "answered"}]
  /\ offered \subseteq Offer
  /\ hook \in [Hook -> [at : {"idle"}, kind : {"none"}, live : {FALSE}]
                 \cup [at : {"mirror"}, kind : {"tool", "start", "stop", "end"}, live : BOOLEAN]
                 \cup [at : {"diff", "held"}, kind : {"tool"}, live : BOOLEAN]]
  /\ take \in [Take -> {NoTake} \cup [at : {"minting"}, by : Offer \cup {Takeover}]]
  /\ watched \in BOOLEAN /\ dirty \in BOOLEAN
  /\ filed.status \in {"running", "waiting_local", "awaiting_input"} \cup Ended
  /\ filed.offer \in [Offer -> {"new", "shown", "dropped", "answered"}]
  /\ continued \in [Offer -> Nat] /\ forgotten \in [Offer -> Nat]
  /\ answering \in BOOLEAN /\ left \in BOOLEAN /\ outlived \in BOOLEAN /\ misled \in BOOLEAN
  /\ escapes \in 0 .. MaxEscapes /\ restarts \in 0 .. MaxRestarts

\* The offers a browser is shown are the offers an answer finds, and there is one at
\* most, through supersedes, answers and restarts (daemon.ts, pendingHandovers and the
\* transcript's pending handover entries).
OffersAgree == offered = Shown /\ Cardinality(offered) <= 1

\* An offer launches one continuation, and one more at most for each restart that forgot
\* its answer (daemon.ts, handleHandoverAnswer: a duplicate answer only reconciles).
ContinuesOnce == \A o \in Offer : continued[o] <= 1 + forgotten[o]

\* Of one conversation one offer is shown, and answered once, whatever restarts race it.
OneOfferOnce == OffersAgree /\ ContinuesOnce

\* A takeover never retires a session whose terminal is in a turn, unless the daemon
\* was misled: by a Stop the user had escaped from, or by a restart (daemon.ts,
\* retireTakenOverParent: a live local conversation must never be severed).
TakeoverSparesTheTurn ==
  [][\A t \in Take : Retires(t) /\ status' = "done" /\ status # "done" =>
       terminal # "busy" \/ misled]_adoptedVars

\* A session that is done stays done unless a gate of its still running terminal is
\* registered or settled: no Stop, prompt, mirror or takeover brings it back
\* (daemon.ts, settleStopOutcome and supersedePendingHandoverByLocalActivity).
OnlyAGateRevives ==
  [][status = "done" /\ status' # "done" =>
       \/ restarts' # restarts
       \/ \E h \in Hook : hook[h].at = "held" \/ hook'[h].at = "held"]_adoptedVars

\* A gate and an offer are stacked only by handlers the terminal left behind, or over an
\* offer that outlived its session (daemon.ts, handleHookEvent: the offer is
\* cleared before a tool's own gate).
NothingStacksInOrder == Held # {} /\ Shown # {} => left \/ outlived

\* A session that awaits input has a gate or an offer to answer, unless what it asked
\* was settled by an interrupt or by an answer whose continuation has not come.
AskingHasAnAsk == status = "awaiting_input" /\ Held = {} /\ Shown = {} => answering

\* Every hook event is answered (daemon.ts, armGateTimeout; hook-socket.ts, respond).
HookIsAnswered == \A h \in Hook : hook[h].at # "idle" ~> hook[h].at = "idle"
=============================================================================
