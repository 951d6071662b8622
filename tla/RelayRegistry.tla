--------------------------- MODULE RelayRegistry ---------------------------
(***************************************************************************)
(* The session rows of one channel, as the relay keeps them in Postgres    *)
(* (apps/relay/src/relay.ts, registry/session-registry.ts), against what   *)
(* the daemon behind the channel really holds.                             *)
(*                                                                         *)
(* Each socket's frames are handled one at a time, but every handler       *)
(* awaits the database: handlers of different sockets interleave there,    *)
(* the daemon's socket can be lost or replaced meanwhile, and the frames a *)
(* closed socket delivered before it closed are still handled.  A step is  *)
(* the code between two awaits, or one database statement.                 *)
(***************************************************************************)
EXTENDS Naturals, Sequences, SequencesExt

CONSTANTS Session,   \* ids the relay may mint
          Link,      \* sockets of the daemon; a forgotten one is dialled again
          Tab,       \* sockets of the user's browsers
          NoLink,    \* no daemon on the channel
          MaxFrames, \* bound: frames of the daemon waiting on a socket
          MaxActs    \* bound: frames on the wire to a daemon socket

ASSUME RegistryConstants == /\ NoLink \notin Link
                            /\ Link \cap Tab = {}
                            /\ MaxFrames \in Nat \ {0} /\ MaxActs \in Nat \ {0}

VARIABLES
  row,      \* sessions.status; absent before createSession, deleted after DELETE
  shelved,  \* rows whose archived_at is set
  holder,   \* daemons.get(channel), set and cleared by hello and close
  socket,   \* a daemon socket as the relay sees it: new, open, peer, closed
  inbox,    \* its frames that wait in the processing chain, or on the wire
  job,      \* the frame a tab's socket handles, or the rows a daemon's is retiring
  link,     \* the daemon's current socket
  outbox,   \* frames on the wire to a daemon socket
  held,     \* the daemon's sessionRecords: its own status of a session
  filed,    \* sessions with a file in the daemon's session store
  lagging   \* history: sessions whose row is excused, see Excuse

relayVars    == <<row, shelved, holder, socket, job>>
daemonVars   == <<link, held, filed>>
registryVars == <<relayVars, daemonVars, inbox, outbox, lagging>>

\* over: done, error or turn_limit, which nothing here tells apart.
EndStatus == {"over", "needs_restart"}
LiveRow   == {"running", "awaiting_input"}
RowStatus == {"absent", "starting", "deleted"} \cup LiveRow \cup EndStatus
Held      == {"none", "preparing", "over"} \cup LiveRow

Frame(kind, about) == [kind |-> kind, about |-> about]
Idle               == [kind |-> "idle", about |-> {}, to |-> NoLink]
Job(kind, about, to) == [kind |-> kind, about |-> about, to |-> to]

RegistryInit ==
  /\ row     = [s \in Session |-> "absent"]
  /\ shelved = {}
  /\ holder  = NoLink
  /\ socket  = [c \in Link |-> "new"]
  /\ inbox   = [c \in Link |-> <<>>]
  /\ job     = [c \in Link \cup Tab |-> Idle]
  /\ link    = NoLink
  /\ outbox  = [c \in Link |-> <<>>]
  /\ held    = [s \in Session |-> "none"]
  /\ filed   = {}
  /\ lagging = {}

-----------------------------------------------------------------------------
(* What is under way about a session. *)

\* A reconcile is about the sessions it does not list, any other frame about its own.
Touches(f, s) == IF f.kind = "reconcile" THEN s \notin f.about ELSE s \in f.about

\* The daemon's word on s, not yet in the row: on socket c, on any socket.
UnderWayOn(c, s) == s \in job[c].about \/ \E i \in DOMAIN inbox[c] : Touches(inbox[c][i], s)
UnderWay(s)      == \E c \in Link : UnderWayOn(c, s)

\* A tab's word on s, not yet at the daemon.
Acting(s) ==
  \/ \E t \in Tab : s \in job[t].about
  \/ \E c \in Link : \E i \in DOMAIN outbox[c] : s \in outbox[c][i].about

\* Another word on s, of a tab or of a socket other than c, is under way too.
Crossed(c, s) == Acting(s) \/ \E d \in Link \ {c} : UnderWayOn(d, s)

\* History: the rows of S may lag from now on, until the daemon's next word on them.
Excuse(S) == lagging' = lagging \cup S

\* History: a word of the daemon on s, on socket c; it is the last unless one crosses it.
Word(c, s) == lagging' = IF Crossed(c, s) THEN lagging \cup {s} ELSE lagging \ {s}

-----------------------------------------------------------------------------
(* The daemon end: its sockets, and what its sessions do. *)

\* socket.send at the daemon: onto its current socket, or nowhere.
Emit(kind, s) ==
  IF link # NoLink /\ socket[link] # "closed"
  THEN /\ Len(inbox[link]) < MaxFrames
       /\ inbox' = [inbox EXCEPT ![link] = Append(@, Frame(kind, {s}))]
       /\ Word(link, s)
  ELSE UNCHANGED inbox /\ Excuse({s})

\* setStatus at the daemon; an ended session is written to the store, unless the write
\* fails or the process dies first.
Becomes(s, status) ==
  /\ held' = [held EXCEPT ![s] = status]
  /\ \/ UNCHANGED filed
     \/ status = "over" /\ filed' = filed \cup {s}

\* openConnection, up to the hello on the wire.
DaemonDials(c) ==
  /\ link = NoLink
  /\ socket[c] = "new"
  /\ link'   = c
  /\ socket' = [socket EXCEPT ![c] = "open"]
  /\ UNCHANGED <<row, shelved, holder, job, held, filed, inbox, outbox, lagging>>

\* The daemon's end is lost, and the tails of what was on its way from it and to it.
\* The frames it has received wait in its socket's chain, and outlive the socket.
LinkDrops ==
  /\ link # NoLink
  /\ link' = NoLink
  /\ \E n \in 0 .. Len(inbox[link]), k \in 0 .. Len(outbox[link]) :
       /\ inbox'  = [inbox EXCEPT ![link] = SubSeq(@, 1, n)]
       /\ outbox' = [outbox EXCEPT ![link] = SubSeq(@, 1, k)]
       /\ Excuse({s \in Session : \/ \E i \in n + 1 .. Len(inbox[link]) : Touches(inbox[link][i], s)
                                  \/ \E i \in k + 1 .. Len(outbox[link]) : s \in outbox[link][i].about})
  /\ UNCHANGED <<relayVars, held, filed>>

\* The process dies, link and chains with it, and starts again: what the store has
\* comes back as its last ended turn left it, the rest is lost.
DaemonRestarts ==
  /\ link'   = NoLink
  /\ outbox' = [c \in Link |-> <<>>]
  /\ \E n \in 0 .. IF link = NoLink THEN 0 ELSE Len(inbox[link]) :
       /\ inbox' = [c \in Link |-> IF c = link THEN SubSeq(inbox[c], 1, n) ELSE inbox[c]]
       /\ Excuse({s \in Session :
            \/ held[s] \notin {"none", "over"} \/ Acting(s)
            \/ link # NoLink /\ \E i \in n + 1 .. Len(inbox[link]) : Touches(inbox[link][i], s)})
  /\ held' = [s \in Session |-> IF s \in filed THEN "over" ELSE "none"]
  /\ UNCHANGED <<relayVars, filed>>

\* runSession past its workspace: session.started; or a launch that fails.
Starts(s) ==
  /\ held[s] = "preparing"
  /\ \/ Becomes(s, "running") /\ Emit("started", s)
     \/ Becomes(s, "over") /\ Emit("ended", s)
  /\ UNCHANGED <<relayVars, link, outbox>>

\* A gate asks the operator.
Gates(s) ==
  /\ held[s] = "running"
  /\ Becomes(s, "awaiting_input")
  /\ Emit("gate", s)
  /\ UNCHANGED <<relayVars, link, outbox>>

\* A gate's timer fires: the session runs on, and no frame says so.
GateExpires(s) ==
  /\ held[s] = "awaiting_input"
  /\ Becomes(s, "running")
  /\ Excuse({s})
  /\ UNCHANGED <<relayVars, link, inbox, outbox>>

\* A turn ends, of itself or by the operator's control.
Ends(s) ==
  /\ held[s] \in LiveRow
  /\ Becomes(s, "over")
  /\ Emit("ended", s)
  /\ UNCHANGED <<relayVars, link, outbox>>

\* hello.ack: the daemon lists the sessions it holds, on its current socket.
ReadsAck ==
  /\ inbox' = IF link = NoLink \/ socket[link] = "closed" THEN inbox
              ELSE [inbox EXCEPT ![link] = Append(@,
                      Frame("reconcile", {s \in Session : held[s] \notin {"none", "preparing"}}))]
  /\ UNCHANGED <<held, filed, lagging>>

ReadsLaunch(s) ==
  /\ Becomes(s, "preparing")
  /\ UNCHANGED <<inbox, lagging>>

\* A decision resumes a gated session, a message an ended one: it runs again, it is
\* reported unresumable, or it was ended by the operator.  Elsewhere nothing moves.
ReadsAct(s) ==
  \/ /\ held[s] \in {"awaiting_input", "over"}
     /\ Becomes(s, "running")
     /\ UNCHANGED <<inbox, lagging>>
  \/ /\ held[s] = "over"
     /\ Emit("ended", s)
     /\ UNCHANGED <<held, filed>>
  \/ /\ held[s] # "awaiting_input"
     /\ Excuse({s} \ {x \in {s} : held[x] = "running"})
     /\ UNCHANGED <<held, filed, inbox>>

\* The next frame is handled, on the daemon's socket or in the chain of an earlier one.
ReadsFrame(c) ==
  /\ outbox[c] # <<>>
  /\ link # NoLink => Len(inbox[link]) < MaxFrames
  /\ LET f == Head(outbox[c]) IN
       \/ f.kind = "ack" /\ ReadsAck
       \/ f.kind = "launch" /\ \E s \in f.about : ReadsLaunch(s)
       \/ f.kind = "act" /\ \E s \in f.about : ReadsAct(s)
  /\ outbox' = [outbox EXCEPT ![c] = Tail(@)]
  /\ UNCHANGED <<relayVars, link>>

-----------------------------------------------------------------------------
(* The relay: registration. *)

\* A frame sent by the relay on socket c reaches the wire to a daemon that is there.
Reaches(c) == c # NoLink /\ c = link /\ socket[c] = "peer"

Send(c, kind, about) ==
  IF Reaches(c)
  THEN /\ Len(outbox[c]) < MaxActs
       /\ outbox' = [outbox EXCEPT ![c] = Append(@, Frame(kind, about))]
       /\ UNCHANGED lagging
  ELSE UNCHANGED outbox /\ Excuse(about)

\* handleHello of a daemon, from its token check on (RelayChannel has the rest).
Registers(c) ==
  /\ socket[c] = "open"
  /\ socket' = [socket EXCEPT ![c] = "peer"]
  /\ holder' = c
  /\ IF c = link
     THEN /\ Len(outbox[c]) < MaxActs
          /\ outbox' = [outbox EXCEPT ![c] = Append(@, Frame("ack", {}))]
     ELSE UNCHANGED outbox
  /\ UNCHANGED <<row, shelved, job, daemonVars, inbox, lagging>>

\* The close event of a registered socket; its queued frames stay queued.
PeerCloses(c) ==
  /\ socket[c] = "peer"
  /\ socket' = [socket EXCEPT ![c] = "closed"]
  /\ holder' = IF holder = c THEN NoLink ELSE holder
  /\ UNCHANGED <<row, shelved, job, daemonVars, inbox, outbox, lagging>>

\* A socket that nobody refers to stands for the next one dialled.
SocketForgotten(c) ==
  /\ socket[c] = "closed"
  /\ c # link /\ inbox[c] = <<>> /\ outbox[c] = <<>> /\ job[c] = Idle
  /\ \A t \in Tab : job[t].to # c
  /\ socket' = [socket EXCEPT ![c] = "new"]
  /\ UNCHANGED <<row, shelved, holder, job, daemonVars, inbox, outbox, lagging>>

-----------------------------------------------------------------------------
(* The relay: frames of the daemon. *)

\* UPDATE ... WHERE id = s: nothing when the row is gone; any other status clears
\* the shelf unless it is an ended one.
SetRow(s, status) ==
  IF row[s] \in {"absent", "deleted"} THEN UNCHANGED <<row, shelved>>
  ELSE /\ row' = [row EXCEPT ![s] = status]
       /\ shelved' = IF status \in EndStatus THEN shelved ELSE shelved \ {s}

\* The next frame in a socket's processing chain; a frame waits for the one before it.
Handles(c) ==
  /\ socket[c] \in {"peer", "closed"}
  /\ job[c] = Idle
  /\ inbox[c] # <<>>
  /\ inbox' = [inbox EXCEPT ![c] = Tail(@)]

\* session.started, a gate frame or session.ended reaches the row.
Persists(c, s) ==
  /\ Handles(c)
  /\ s \in Head(inbox[c]).about
  /\ \/ Head(inbox[c]).kind = "started" /\ SetRow(s, "running")
     \/ Head(inbox[c]).kind = "gate" /\ SetRow(s, "awaiting_input")
     \/ Head(inbox[c]).kind = "ended" /\ \E how \in EndStatus : SetRow(s, how)
  /\ UNCHANGED <<holder, socket, job, daemonVars, outbox, lagging>>

\* Mutant: rows whose launch is on its way are stale too.
ReadsEveryRow(c) ==
  /\ Handles(c)
  /\ Head(inbox[c]).kind = "reconcile"
  /\ LET stale == {s \in Session \ Head(inbox[c]).about : row[s] \in LiveRow \cup {"starting"}} IN
       job' = [job EXCEPT ![c] = IF stale = {} THEN Idle ELSE Job("retire", stale, NoLink)]
  /\ UNCHANGED <<row, shelved, holder, socket, daemonVars, outbox, lagging>>

\* reconcileSessions reads the rows: the stale ones are the live rows not held.  A
\* starting row is left to its launch.
ReadsRows(c) ==
  /\ Handles(c)
  /\ Head(inbox[c]).kind = "reconcile"
  /\ LET stale == {s \in Session \ Head(inbox[c]).about : row[s] \in LiveRow} IN
       job' = [job EXCEPT ![c] = IF stale = {} THEN Idle ELSE Job("retire", stale, NoLink)]
  /\ UNCHANGED <<row, shelved, holder, socket, daemonVars, outbox, lagging>>

\* ... and retires them, each with a statement of its own.
Retires(c, s) ==
  /\ job[c].kind = "retire"
  /\ s \in job[c].about
  /\ SetRow(s, "needs_restart")
  /\ LET left == job[c].about \ {s} IN
       job' = [job EXCEPT ![c] = IF left = {} THEN Idle ELSE Job("retire", left, NoLink)]
  /\ IF c = link /\ held[s] = "none" THEN Word(c, s) ELSE UNCHANGED lagging
  /\ UNCHANGED <<holder, socket, daemonVars, inbox, outbox>>

-----------------------------------------------------------------------------
(* The relay: frames of the tabs, and the HTTP routes. *)

\* routeFromBrowser looks the daemon up, then awaits the database.
LaunchArrives(t) ==
  /\ job[t] = Idle
  /\ job' = [job EXCEPT ![t] = Job("launch", {}, holder)]
  /\ UNCHANGED <<row, shelved, holder, socket, daemonVars, inbox, outbox, lagging>>

\* createSession.
Mints(t, s) ==
  /\ job[t].kind = "launch"
  /\ row[s] = "absent"
  /\ row' = [row EXCEPT ![s] = "starting"]
  /\ job' = [job EXCEPT ![t] = Job("minted", {s}, @.to)]
  /\ UNCHANGED <<shelved, holder, socket, daemonVars, inbox, outbox, lagging>>

\* The launch goes to the daemon that was there when it arrived; with none, the row
\* is failed.
ForwardsLaunch(t) ==
  /\ job[t].kind = "minted"
  /\ job' = [job EXCEPT ![t] = Idle]
  /\ IF job[t].to = NoLink
     THEN /\ \E s \in job[t].about : SetRow(s, "over")
          /\ UNCHANGED <<outbox, lagging>>
     ELSE Send(job[t].to, "launch", job[t].about) /\ UNCHANGED <<row, shelved>>
  /\ UNCHANGED <<holder, socket, daemonVars, inbox>>

\* A decision, an answer or a message for s; with no daemon the tab gets relay.error
\* and nothing changes.
ActArrives(t, s) ==
  /\ job[t] = Idle
  /\ holder # NoLink
  /\ row[s] # "absent"
  /\ job' = [job EXCEPT ![t] = Job("act", {s}, holder)]
  /\ UNCHANGED <<row, shelved, holder, socket, daemonVars, inbox, outbox, lagging>>

\* markRunning.
MarksRunning(t) ==
  /\ job[t].kind = "act"
  /\ \E s \in job[t].about :
       /\ SetRow(s, "running")
       /\ Excuse({x \in {s} : UnderWay(x)})
  /\ job' = [job EXCEPT ![t] = Job("acted", @.about, @.to)]
  /\ UNCHANGED <<holder, socket, daemonVars, inbox, outbox>>

ForwardsAct(t) ==
  /\ job[t].kind = "acted"
  /\ job' = [job EXCEPT ![t] = Idle]
  /\ Send(job[t].to, "act", job[t].about)
  /\ UNCHANGED <<row, shelved, holder, socket, daemonVars, inbox>>

\* PATCH .../archive, both ways: ended rows only.
Archive(s) ==
  /\ row[s] \in EndStatus
  /\ \E S \in {shelved \cup {s}, shelved \ {s}} : shelved' = S
  /\ UNCHANGED <<row, holder, socket, job, daemonVars, inbox, outbox, lagging>>

\* DELETE: ended rows only.
Delete(s) ==
  /\ row[s] \in EndStatus
  /\ row'     = [row EXCEPT ![s] = "deleted"]
  /\ shelved' = shelved \ {s}
  /\ UNCHANGED <<holder, socket, job, daemonVars, inbox, outbox, lagging>>

-----------------------------------------------------------------------------
RegistryNext ==
  \/ LinkDrops \/ DaemonRestarts
  \/ \E c \in Link : \/ DaemonDials(c) \/ Registers(c) \/ PeerCloses(c) \/ SocketForgotten(c)
                     \/ ReadsFrame(c) \/ ReadsRows(c)
  \/ \E t \in Tab : LaunchArrives(t) \/ ForwardsLaunch(t) \/ MarksRunning(t) \/ ForwardsAct(t)
  \/ \E s \in Session : \/ Starts(s) \/ Gates(s) \/ GateExpires(s) \/ Ends(s)
                        \/ Archive(s) \/ Delete(s)
                        \/ \E t \in Tab : Mints(t, s) \/ ActArrives(t, s)
                        \/ \E c \in Link : Persists(c, s) \/ Retires(c, s)

RegistrySpec == RegistryInit /\ [][RegistryNext]_registryVars

-----------------------------------------------------------------------------
(* Properties. *)

\* Every variable stays in its domain.
RegistryTypeOK ==
  /\ row \in [Session -> RowStatus]
  /\ shelved \subseteq Session
  /\ holder \in Link \cup {NoLink}
  /\ socket \in [Link -> {"new", "open", "peer", "closed"}]
  /\ \A c \in Link : \A i \in DOMAIN inbox[c] :
       inbox[c][i] \in [kind : {"started", "gate", "ended", "reconcile"}, about : SUBSET Session]
  /\ \A c \in Link \cup Tab : job[c].about \subseteq Session /\ job[c].to \in Link \cup {NoLink}
  /\ link \in Link \cup {NoLink}
  /\ \A c \in Link : \A i \in DOMAIN outbox[c] :
       outbox[c][i] \in [kind : {"ack", "launch", "act"}, about : SUBSET Session]
  /\ held \in [Session -> Held]
  /\ filed \subseteq Session
  /\ lagging \subseteq Session

\* An archived row is an ended one, whichever resume races the archiving: the
\* database's CHECK never rejects a write of the relay's.
ShelvedIsEnded == \A s \in shelved : row[s] \in EndStatus

\* The rows that tell the truth about a session in this state at the daemon.
Agreeing(status) ==
  CASE status = "none" -> EndStatus \cup {"absent"}
    [] status = "preparing" -> {"starting"}
    [] status = "over" -> EndStatus
    [] OTHER -> {status}

\* With nothing under way about a session its row agrees with the daemon, except
\* after a word on it was lost, crossed another one or was never said (a gate that
\* expired, an act that did not move it), and then only until the daemon's next word.
RowAgreesWithTheDaemon ==
  \A s \in Session :
    row[s] = "deleted" \/ s \in lagging \/ UnderWay(s) \/ Acting(s)
      \/ row[s] \in Agreeing(held[s])
=============================================================================
