------------------------------ MODULE Adoption ------------------------------
(***************************************************************************)
(* How a Claude Code session the user started gets a telecode id: the hook *)
(* events of packages/daemon/src/adopt/adopted-sessions.ts, the announce   *)
(* and its ACK in packages/daemon/src/daemon.ts (announceAdopted,          *)
(* handleAdoptedAck, handleHookEvent) and the minting in                   *)
(* apps/relay/src/relay.ts (routeFromDaemon, session.adopted).             *)
(*                                                                         *)
(* Hook events overlap; an announce or its ACK is lost with the link, or   *)
(* arrives after the daemon stopped waiting; the daemon restarts.          *)
(***************************************************************************)
EXTENDS Naturals, FiniteSets

CONSTANTS Claude,     \* Claude Code sessions
          NoClaude,   \* none of them
          Hook,       \* hook events whose handling can overlap
          MaxCards,   \* bound: announces
          MaxRestarts \* bound

ASSUME AdoptionConstants ==
  NoClaude \notin Claude /\ MaxCards \in Nat \ {0} /\ MaxRestarts \in Nat

VARIABLES
  bound,    \* byClaudeId: the card each Claude session is bound to, 0 for none
  pending,  \* Claude sessions with a waiter
  hook,     \* what each hook event got so far, see Answer
  linked,   \* the daemon's socket is open and in the relay's daemons
  stage,    \* of each announce: new, wire, acking (its ACK is under way), over
  of,       \* history: the Claude session each announce was for, or NoClaude
  filed,    \* the binding in the session store, 0 for none
  excuses,  \* history: waits timed out, and restarts that found no binding
  restarts

adoptionVars == <<bound, pending, hook, linked, stage, of, filed, excuses, restarts>>

\* An announce and the row the relay mints for it are one card.
Card == 1 .. MaxCards
NoCard == 0

\* idle; waiting for the ACK; adopted, with the id it goes on with; local: `ask` or {},
\* Claude Code's own prompt decides.
Answer(at, claude, card) == [at |-> at, of |-> claude, card |-> card]
NoHook == Answer("idle", NoClaude, NoCard)

AdoptionInit ==
  /\ bound    = [c \in Claude |-> NoCard]
  /\ pending  = {}
  /\ hook     = [h \in Hook |-> NoHook]
  /\ linked   = TRUE
  /\ stage    = [k \in Card |-> "new"]
  /\ of       = [k \in Card |-> NoClaude]
  /\ filed    = [c \in Claude |-> NoCard]
  /\ excuses  = [c \in Claude |-> 0]
  /\ restarts = 0

-----------------------------------------------------------------------------
(* The daemon: ensureAdopted, called by a hook event. *)

\* A bound session answers at once.
Recognises(h, c) ==
  /\ bound[c] # NoCard
  /\ hook' = [hook EXCEPT ![h] = Answer("adopted", c, bound[c])]
  /\ UNCHANGED <<bound, pending, linked, stage, of, filed, excuses, restarts>>

\* What an announce does; without a socket the frame is dropped.
Announce(h, c) ==
  /\ pending' = pending \cup {c}
  /\ hook'    = [hook EXCEPT ![h] = Answer("waiting", c, NoCard)]
  /\ \E k \in Card :
       /\ stage[k] = "new" /\ \A j \in Card : j < k => stage[j] # "new"
       /\ stage' = [stage EXCEPT ![k] = IF linked THEN "wire" ELSE "over"]
       /\ of'    = [of EXCEPT ![k] = c]
  /\ UNCHANGED <<bound, linked, filed, excuses, restarts>>

\* Mutant: no one looks for a waiter.
JoinsNoOne(h, c) == bound[c] = NoCard /\ c \in pending /\ Announce(h, c)

\* A later event of a session being announced shares its waiter.
Joins(h, c) ==
  /\ bound[c] = NoCard
  /\ c \in pending
  /\ hook' = [hook EXCEPT ![h] = Answer("waiting", c, NoCard)]
  /\ UNCHANGED <<bound, pending, linked, stage, of, filed, excuses, restarts>>

\* The first one announces it.
Announces(h, c) == bound[c] = NoCard /\ c \notin pending /\ Announce(h, c)

HookArrives(h, c) ==
  /\ hook[h].at = "idle"
  /\ Recognises(h, c) \/ Joins(h, c) \/ Announces(h, c)

\* The connection is answered and closed.
HookLeaves(h) ==
  /\ hook[h].at \in {"adopted", "local"}
  /\ hook' = [hook EXCEPT ![h] = NoHook]
  /\ UNCHANGED <<bound, pending, linked, stage, of, filed, excuses, restarts>>

\* What the events that wait for c get.
Releases(c, at, card) ==
  hook' = [h \in Hook |-> IF hook[h].at = "waiting" /\ hook[h].of = c
                            THEN Answer(at, c, card) ELSE hook[h]]

\* Mutant: the timer drops the waiter and rejects no one.
AckTimesOutSilently(c) ==
  /\ c \in pending
  /\ pending' = pending \ {c}
  /\ excuses' = [excuses EXCEPT ![c] = @ + 1]
  /\ UNCHANGED <<bound, hook, linked, stage, of, filed, restarts>>

\* ackTimeoutMs passed: the waiter is rejected, its events fail closed.
AckTimesOut(c) ==
  /\ c \in pending
  /\ pending' = pending \ {c}
  /\ Releases(c, "local", NoCard)
  /\ excuses' = [excuses EXCEPT ![c] = @ + 1]
  /\ UNCHANGED <<bound, linked, stage, of, filed, restarts>>

\* Mutant: the waiter of another session is resolved with it.
ReadsAckForAll(k) ==
  /\ stage[k] = "acking"
  /\ stage' = [stage EXCEPT ![k] = "over"]
  /\ IF of[k] \in pending
       THEN /\ bound'   = [bound EXCEPT ![of[k]] = k]
            /\ pending' = pending \ {of[k]}
            /\ hook'    = [h \in Hook |-> IF hook[h].at = "waiting"
                             THEN Answer("adopted", hook[h].of, k) ELSE hook[h]]
       ELSE UNCHANGED <<bound, pending, hook>>
  /\ UNCHANGED <<linked, of, filed, excuses, restarts>>

\* An ACK arrives.  Only one that is waited for binds.
ReadsAck(k) ==
  /\ stage[k] = "acking"
  /\ stage' = [stage EXCEPT ![k] = "over"]
  /\ IF of[k] \in pending
       THEN /\ bound'   = [bound EXCEPT ![of[k]] = k]
            /\ pending' = pending \ {of[k]}
            /\ Releases(of[k], "adopted", k)
       ELSE UNCHANGED <<bound, pending, hook>>
  /\ UNCHANGED <<linked, of, filed, excuses, restarts>>

\* A persist of the bound session's record (at its adoption, at each Stop) reaches the
\* disk; one may fail, so none is sure to.
FilesBinding(c) ==
  /\ bound[c] # NoCard
  /\ filed[c] # bound[c]
  /\ filed' = [filed EXCEPT ![c] = bound[c]]
  /\ UNCHANGED <<bound, pending, hook, linked, stage, of, excuses, restarts>>

-----------------------------------------------------------------------------
(* The relay, the link and the daemon's process. *)

\* The row is made; its ACK goes to whatever socket the channel's daemon has by then.
Mints(k) ==
  /\ stage[k] = "wire"
  /\ stage' = [stage EXCEPT ![k] = IF linked THEN "acking" ELSE "over"]
  /\ UNCHANGED <<bound, pending, hook, linked, of, filed, excuses, restarts>>

\* ACKs under way are lost; so are the announces the relay has not received.
Severs(received) ==
  /\ linked' = FALSE
  /\ stage'  = [k \in Card |->
       IF stage[k] = "acking" \/ (stage[k] = "wire" /\ k \notin received)
         THEN "over" ELSE stage[k]]

LinkDrops(received) ==
  /\ linked
  /\ Severs(received)
  /\ UNCHANGED <<bound, pending, hook, of, filed, excuses, restarts>>

LinkUp ==
  /\ ~linked
  /\ linked' = TRUE
  /\ UNCHANGED <<bound, pending, hook, stage, of, filed, excuses, restarts>>

\* The daemon dies and starts again: hooks get no answer, bindings come from the disk.
DaemonRestarts(received) ==
  /\ restarts < MaxRestarts
  /\ restarts' = restarts + 1
  /\ bound'    = filed
  /\ pending'  = {}
  /\ hook'     = [h \in Hook |-> NoHook]
  /\ excuses'  = [c \in Claude |-> excuses[c] + (IF filed[c] = NoCard THEN 1 ELSE 0)]
  /\ Severs(received)
  /\ UNCHANGED <<of, filed>>

-----------------------------------------------------------------------------
AdoptionNext ==
  \/ \E h \in Hook : HookLeaves(h) \/ \E c \in Claude : HookArrives(h, c)
  \/ \E c \in Claude : AckTimesOut(c) \/ FilesBinding(c)
  \/ \E k \in Card : ReadsAck(k) \/ Mints(k)
  \/ \E received \in SUBSET Card : LinkDrops(received) \/ DaemonRestarts(received)
  \/ LinkUp

\* Timers fire.
AdoptionSpec ==
  /\ AdoptionInit /\ [][AdoptionNext]_adoptionVars
  /\ \A c \in Claude : WF_adoptionVars(AckTimesOut(c))

-----------------------------------------------------------------------------
AdoptionTypeOK ==
  /\ bound \in [Claude -> Card \cup {NoCard}]
  /\ filed \in [Claude -> Card \cup {NoCard}]
  /\ pending \subseteq Claude
  /\ hook \in [Hook -> {NoHook}
                 \cup [at : {"waiting", "local"}, of : Claude, card : {NoCard}]
                 \cup [at : {"adopted"}, of : Claude, card : Card]]
  /\ linked \in BOOLEAN
  /\ stage \in [Card -> {"new", "wire", "acking", "over"}]
  /\ of \in [Card -> Claude \cup {NoClaude}]
  /\ excuses \in [Claude -> Nat]
  /\ restarts \in 0 .. MaxRestarts

\* A hook event that goes on goes on with the card its own Claude session is bound to,
\* a card announced for that session; one that waits has a waiter that will release it
\* (adopted-sessions.ts, ensureAdopted and settle).
HookHasItsCard ==
  \A h \in Hook :
    /\ hook[h].at = "adopted" => /\ hook[h].card = bound[hook[h].of]
                                 /\ of[hook[h].card] = hook[h].of
    /\ hook[h].at = "waiting" => hook[h].of \in pending

\* A Claude session gets one card, and one more at most for each wait that timed out
\* and each restart that found its binding unfiled: concurrent first events, ACKs to an
\* earlier announce and restarts that restore the binding make no duplicate
\* (adopted-sessions.ts, ensureAdopted and restore).
DuplicatesAreExcused ==
  \A c \in Claude : Cardinality({k \in Card : of[k] = c}) <= 1 + excuses[c]

\* One card for each session, and the session's own, whatever events, ACKs, timeouts and
\* restarts race.
OneCardEach == HookHasItsCard /\ DuplicatesAreExcused

\* Every hook event is answered, whatever is lost: Claude Code never hangs on an
\* adoption (adopted-sessions.ts, ackTimeoutMs).
HookIsAnswered ==
  \A h \in Hook : hook[h].at = "waiting" ~> hook[h].at # "waiting"
=============================================================================
