----------------------------- MODULE LinkHealth -----------------------------
(***************************************************************************)
(* How a client of the relay, the daemon (packages/daemon/src/daemon.ts:   *)
(* openConnection, runHeartbeatRound) or a browser tab                     *)
(* (apps/web/src/lib/relay-client.ts: openSocket, runHeartbeatRound),      *)
(* keeps its link: it dials out, redials what closes, and probes what      *)
(* stays open, while the relay (apps/relay/src/relay.ts: GET /ws) caps the *)
(* connections of one address, sweeps the silent ones and retires the old. *)
(*                                                                         *)
(* A path may die without a close: what either end sends is lost and       *)
(* neither learns that the other is gone. Both sides wake every 30 s, so   *)
(* their rounds alternate here. What goes wrong (a path that dies, a       *)
(* lookup that fails, a round so slow that an answer misses it) happens at *)
(* most MaxFaults times, so that the system may show that it comes back.   *)
(***************************************************************************)
EXTENDS Naturals, FiniteSets

CONSTANTS
  Socket,    \* connections, reused once both ends are closed
  NoSocket,
  Cap,       \* maxConnectionsPerIp
  MaxSilent, \* heartbeatMaxSilentRounds, of either side
  MaxFaults  \* bound of the model

ASSUME LinkConstants ==
  /\ NoSocket \notin Socket
  /\ Cap \in Nat \ {0} /\ MaxSilent \in Nat \ {0} /\ MaxFaults \in Nat
  /\ Cardinality(Socket) > Cap

VARIABLES
  client,    \* daemon or tab
  socket,    \* the client's current connection
  near, far, \* each connection's two ends
  whole,     \* the connections whose path carries frames
  flight,    \* what is under way on each, the relay's own lookup included
  refusal,   \* the connections the relay closed as unauthorized
  redial,    \* reconnectTimer is set
  probing,   \* the client's heartbeat runs: heartbeatTimer, heartbeatArmed
  hadAck,    \* a hello was acknowledged in this process
  over,      \* the client stopped for good
  saw, silent,   \* sawInboundSinceHeartbeat, silentRounds of the client
  heard, quiet,  \* sawInbound, silentRounds of the relay, per connection
  next,      \* whose round is next
  late, lag, \* history: slow rounds since the client, since the relay last heard
  faults     \* how much went wrong so far

linkVars == <<client, socket, near, far, whole, flight, refusal, redial, probing, hadAck,
          over, saw, silent, heard, quiet, next, late, lag, faults>>

Handshake == {"hello", "lookup", "ack"}
\* After its ack a client is told who is there; pings and pongs are the client's probe.
Frame == Handshake \cup {"presence", "ping", "pong"}

LinkTypeOK ==
  /\ client \in {"daemon", "tab"}
  /\ socket \in Socket \cup {NoSocket}
  /\ near \in [Socket -> {"closed", "dialing", "open"}]
  /\ far \in [Socket -> {"closed", "open", "registered"}]
  /\ whole \subseteq Socket /\ refusal \subseteq Socket
  /\ flight \in [Socket -> SUBSET Frame]
  /\ redial \in BOOLEAN /\ probing \in BOOLEAN /\ hadAck \in BOOLEAN
  /\ over \in BOOLEAN /\ saw \in BOOLEAN
  /\ silent \in 0..MaxSilent /\ late \in 0..MaxFaults /\ lag \in 0..MaxFaults
  /\ faults \in 0..MaxFaults
  /\ heard \in [Socket -> BOOLEAN] /\ quiet \in [Socket -> 0..MaxSilent]
  /\ next \in {"client", "relay"}

LinkInit ==
  /\ client \in {"daemon", "tab"}
  /\ socket = NoSocket
  /\ near = [s \in Socket |-> "closed"]
  /\ far  = [s \in Socket |-> "closed"]
  /\ whole = Socket /\ refusal = {}
  /\ flight = [s \in Socket |-> {}]
  /\ redial = TRUE       \* the first dial is due
  /\ probing = FALSE /\ hadAck = FALSE /\ over = FALSE
  /\ saw = FALSE /\ silent = 0
  /\ heard = [s \in Socket |-> FALSE] /\ quiet = [s \in Socket |-> 0]
  /\ next = "client" /\ late = 0 /\ lag = 0 /\ faults = 0

Fault == faults < MaxFaults /\ faults' = faults + 1

\* The frames of s once the step has taken and sent some; a dead path carries nothing.
Carries(s, taken, sent) ==
  flight' = [flight EXCEPT ![s] = (@ \ taken) \cup (IF s \in whole THEN sent ELSE {})]

nearVars == <<socket, redial, probing, hadAck, over, saw, silent, late, lag>>
farVars  == <<far, heard, quiet>>

-----------------------------------------------------------------------------
(* The client: openConnection, openSocket, scheduleReconnect *)

Free(s) == near[s] = "closed" /\ far[s] = "closed"

\* Mutant: the new socket is judged by the silence of the last.
DialsWithOldSilence(s) ==
  /\ redial /\ ~over /\ Free(s)
  /\ socket' = s
  /\ near'   = [near EXCEPT ![s] = "dialing"]
  /\ whole'  = whole \cup {s} /\ refusal' = refusal \ {s}
  /\ flight' = [flight EXCEPT ![s] = {}]
  /\ redial' = FALSE
  /\ saw' = FALSE /\ late' = 0 /\ lag' = 0
  /\ UNCHANGED <<client, far, probing, hadAck, over, silent, heard, quiet, next, faults>>

\* The reconnect timer fires, or the first dial. A daemon starts its count of silent rounds
\* afresh with the socket; a tab will at the ack.
Dials(s) ==
  /\ redial /\ ~over /\ Free(s)
  /\ socket' = s
  /\ near'   = [near EXCEPT ![s] = "dialing"]
  /\ whole'  = whole \cup {s} /\ refusal' = refusal \ {s}
  /\ flight' = [flight EXCEPT ![s] = {}]
  /\ redial' = FALSE
  /\ saw'    = (client = "tab" /\ saw)
  /\ silent' = IF client = "daemon" THEN 0 ELSE silent
  /\ late'   = 0 /\ lag' = 0
  /\ UNCHANGED <<client, far, probing, hadAck, over, heard, quiet, next, faults>>

\* The daemon's first dial fails: start() rejects and the process exits.
GivesUp == client = "daemon" /\ ~hadAck

\* Mutant: the timer is never cleared, so that the second close finds a redial scheduled.
LosesForGood(s) ==
  /\ near' = [near EXCEPT ![s] = "closed"]
  /\ over' = (over \/ (client = "daemon" /\ s \in refusal))
  /\ redial' = (~over' /\ ~hadAck)
  /\ probing' = (probing /\ client = "daemon")

\* The close event of the client's own connection. A daemon whose token is refused stops
\* and pairs again; everyone else schedules a redial. A tab stops probing.
Loses(s) ==
  /\ near' = [near EXCEPT ![s] = "closed"]
  /\ over' = (over \/ (client = "daemon" /\ s \in refusal))
  /\ redial' = ~over'
  /\ probing' = (probing /\ client = "daemon")

DialFails(s) ==
  /\ near[s] = "dialing" /\ Fault
  /\ near' = [near EXCEPT ![s] = "closed"]
  /\ over' = GivesUp /\ redial' = ~over'
  /\ UNCHANGED <<client, socket, far, whole, flight, refusal, probing, hadAck, saw, silent,
                 heard, quiet, next, late, lag>>

\* The connections counted for the client's address.
Counted == {s \in Socket : far[s] # "closed"}

\* open: the client sends its hello. The relay refuses a connection beyond the cap before it
\* reads anything, and counts the others as alive.
Connects(s) ==
  /\ near[s] = "dialing"
  /\ near' = [near EXCEPT ![s] = "open"]
  /\ IF Cardinality(Counted) >= Cap
       THEN UNCHANGED <<flight, farVars>>
       ELSE /\ Carries(s, {}, {"hello"})
            /\ far'   = [far EXCEPT ![s] = "open"]
            /\ heard' = [heard EXCEPT ![s] = TRUE]
            /\ quiet' = [quiet EXCEPT ![s] = 0]
  /\ UNCHANGED <<client, nearVars, whole, refusal, next, faults>>

\* The tab cannot mint its channel token: it closes the socket itself.
MintFails(s) ==
  /\ client = "tab" /\ near[s] = "open" /\ "hello" \in flight[s] /\ Fault
  /\ Loses(s)
  /\ Carries(s, {"hello"}, {})
  /\ UNCHANGED <<client, socket, hadAck, saw, silent, late, lag, whole, refusal, farVars, next>>

\* The relay's close reaches the client.
ClientHears(s) ==
  /\ near[s] = "open" /\ far[s] = "closed" /\ s \in whole
  /\ Loses(s)
  /\ flight' = [flight EXCEPT ![s] = {}]
  /\ UNCHANGED <<client, socket, far, whole, refusal, hadAck, saw, silent, heard, quiet,
                 next, late, lag, faults>>

\* Any frame marks the link alive. The ack starts the probes; on a tab it also clears the
\* count, after its own arrival was noted.
ClientReads(s, f) ==
  /\ near[s] = "open" /\ f \in {"ack", "presence", "pong"} /\ f \in flight[s]
  /\ f # "ack" => "ack" \notin flight[s]
  /\ Carries(s, {f}, {})
  /\ saw'     = (f # "ack" \/ client = "daemon")
  /\ silent'  = IF f = "ack" /\ client = "tab" THEN 0 ELSE silent
  /\ probing' = (probing \/ f = "ack")
  /\ hadAck'  = (hadAck \/ f = "ack")
  /\ late'    = 0
  /\ UNCHANGED <<client, socket, redial, over, lag, near, whole, refusal, farVars, next, faults>>

\* Something the client waits for is still under way.
Awaits(s) == s \in whole /\ far[s] # "closed" /\ flight[s] # {}

\* runHeartbeatRound, with no round while nothing is probed. A round that overtakes an
\* answer is a fault of the network.
Probes ==
  /\ next = "client" /\ next' = "relay"
  /\ IF socket # NoSocket /\ near[socket] = "open" /\ Awaits(socket)
       THEN Fault /\ late' = late + 1 /\ lag' = lag + 1
       ELSE UNCHANGED <<late, lag, faults>>
  /\ IF ~probing \/ over \/ socket = NoSocket \/ near[socket] # "open"
       THEN UNCHANGED <<redial, probing, over, saw, silent, near, flight>>
       ELSE LET silence == IF saw THEN 0 ELSE silent + 1
            IN  /\ saw' = FALSE
                /\ IF silence >= MaxSilent
                     THEN /\ Loses(socket)
                          /\ silent' = 0
                          /\ flight' = [flight EXCEPT ![socket] = {}]
                     ELSE /\ silent' = silence
                          /\ Carries(socket, {}, {"ping"})
                          /\ UNCHANGED <<near, redial, over, probing>>
  /\ UNCHANGED <<client, socket, hadAck, far, whole, refusal, heard, quiet>>

-----------------------------------------------------------------------------
(* The relay: GET /ws, handleHello, the keepalive sweep *)

\* The connection's age timer, the sweep and a refusal all end in the same close.
Drops(gone) ==
  /\ far'    = [s \in Socket |-> IF s \in gone THEN "closed" ELSE far[s]]
  /\ flight' = [s \in Socket |-> IF s \in gone THEN {} ELSE flight[s]]

\* A frame is proof of life. The hello asks for the lookup; frames queue behind it, and a
\* probe is answered once the peer is registered.
RelayReads(s, f) ==
  /\ far[s] # "closed" /\ f \in {"hello", "ping"} /\ f \in flight[s]
  /\ f = "ping" => "hello" \notin flight[s]
  /\ heard' = [heard EXCEPT ![s] = TRUE]
  /\ CASE f = "hello" -> Carries(s, {"hello"}, {"lookup"})
       [] "lookup" \in flight[s] -> FALSE
       [] OTHER -> Carries(s, {"ping"}, IF far[s] = "registered" THEN {"pong"} ELSE {})
  /\ lag' = IF s = socket THEN 0 ELSE lag
  /\ UNCHANGED <<client, socket, redial, probing, hadAck, over, saw, silent, late, near, whole,
                 refusal, far, quiet, next, faults>>

Accepts(s) ==
  /\ far[s] = "open" /\ "lookup" \in flight[s]
  /\ far' = [far EXCEPT ![s] = "registered"]
  /\ Carries(s, {"lookup"}, {"ack", "presence"})
  /\ UNCHANGED <<client, nearVars, near, whole, refusal, heard, quiet, next, faults>>

\* The token is refused, or the database could not say: the first close is final for a daemon.
Refuses(s) ==
  /\ far[s] = "open" /\ "lookup" \in flight[s] /\ Fault
  /\ Drops({s})
  /\ refusal' \in {refusal, refusal \cup {s}}
  /\ UNCHANGED <<client, nearVars, near, whole, heard, quiet, next>>

\* Mutant: the sweep forgets what it heard only when it probes an idle peer.
SweepsForgetful ==
  /\ next = "relay" /\ next' = "client"
  /\ quiet' = [s \in Socket |-> IF far[s] = "closed" \/ heard[s] THEN 0 ELSE quiet[s] + 1]
  /\ heard' = heard
  /\ Drops({s \in Socket : far[s] # "closed" /\ quiet'[s] >= MaxSilent})
  /\ UNCHANGED <<client, nearVars, near, whole, refusal, faults>>

\* One round: what was silent for MaxSilent rounds is terminated, the others are pinged.
Sweeps ==
  /\ next = "relay" /\ next' = "client"
  /\ quiet' = [s \in Socket |-> IF far[s] = "closed" \/ heard[s] THEN 0 ELSE quiet[s] + 1]
  /\ heard' = [s \in Socket |-> FALSE]
  /\ Drops({s \in Socket : far[s] # "closed" /\ quiet'[s] >= MaxSilent})
  /\ UNCHANGED <<client, nearVars, near, whole, refusal, faults>>

\* The answer to the sweep's own ping, which an ingress need not carry to the end.
Pongs(s) ==
  /\ far[s] # "closed" /\ near[s] = "open" /\ s \in whole /\ ~heard[s]
  /\ heard' = [heard EXCEPT ![s] = TRUE]
  /\ lag' = IF s = socket THEN 0 ELSE lag
  /\ UNCHANGED <<client, socket, redial, probing, hadAck, over, saw, silent, late, near, whole,
                 flight, refusal, far, quiet, next, faults>>

\* A connection ages over many minutes: a handshake that can end has ended by then.
Ages(s) ==
  /\ far[s] # "closed"
  /\ s \in whole => flight[s] \cap Handshake = {}
  /\ Drops({s})
  /\ UNCHANGED <<client, nearVars, near, whole, refusal, heard, quiet, next, faults>>

\* The client's close reaches the relay.
RelayHears(s) ==
  /\ far[s] # "closed" /\ near[s] = "closed" /\ s \in whole
  /\ Drops({s})
  /\ UNCHANGED <<client, nearVars, near, whole, refusal, heard, quiet, next, faults>>

\* The path dies: a lid closes, a NAT forgets, a proxy keeps one side of a dead pair.
PathDies(s) ==
  /\ s \in whole /\ near[s] = "open" /\ Fault
  /\ whole' = whole \ {s}
  /\ flight' = [flight EXCEPT ![s] = @ \cap {"lookup"}]
  /\ UNCHANGED <<client, nearVars, near, refusal, farVars, next>>

-----------------------------------------------------------------------------
LinkNext ==
  \/ Probes \/ Sweeps
  \/ \E s \in Socket :
       \/ Dials(s) \/ DialFails(s) \/ Connects(s) \/ MintFails(s)
       \/ ClientHears(s) \/ RelayHears(s)
       \/ \E f \in Frame : ClientReads(s, f) \/ RelayReads(s, f)
       \/ Accepts(s) \/ Refuses(s) \/ Pongs(s) \/ Ages(s) \/ PathDies(s)

\* Timers fire, connections open, and what a whole path carries arrives.
LinkFairness ==
  /\ WF_linkVars(Probes) /\ WF_linkVars(Sweeps)
  /\ WF_linkVars(\E s \in Socket : Dials(s))
  /\ \A s \in Socket :
       /\ WF_linkVars(Connects(s)) /\ WF_linkVars(Accepts(s))
       /\ WF_linkVars(ClientHears(s)) /\ WF_linkVars(RelayHears(s))
       /\ WF_linkVars(\E f \in Frame : ClientReads(s, f))
       /\ WF_linkVars(\E f \in Frame : RelayReads(s, f))

LinkSpec == LinkInit /\ [][LinkNext]_linkVars /\ LinkFairness

-----------------------------------------------------------------------------
(* Properties *)

Linked ==
  /\ socket # NoSocket /\ socket \in whole
  /\ near[socket] = "open" /\ far[socket] = "registered"
  /\ "ack" \notin flight[socket]

\* A handshake nobody watches over: a daemon's until its first ack, any of a tab's.
Unwatched ==
  /\ ~probing /\ socket # NoSocket /\ near[socket] = "open" /\ socket \notin whole

\* Whatever dies, the client is linked again and again, through every close, every ghost of
\* its own that still fills the cap and every lookup that failed; but for a client that
\* stopped (a refused daemon pairs again, in DaemonProcess) and for a handshake that died
\* while nothing probed it.
LinkComesBack == []<>(Linked \/ over \/ Unwatched)

\* A link whose path works is torn down by silence only when the network made MaxSilent
\* rounds of the client in a row miss an answer: one slow answer, the age of the last
\* connection or a round that fell into the handshake never cost the link. The relay's own
\* sweep, which hears every probe, needs as many less one.
HealthyLinkStays ==
  [][/\ (Probes /\ socket \in whole /\ far[socket] # "closed" /\ near'[socket] # near[socket])
          => late' >= MaxSilent
     /\ (Sweeps /\ Linked /\ probing /\ far'[socket] = "closed")
          => lag >= MaxSilent - 1]_linkVars

\* "so a DEAD path can't strand the daemon": the doc comment of runHeartbeatRound
\* (packages/daemon/src/daemon.ts:2173). Every handshake is watched over.
NeverStranded == client = "daemon" => []<>(Linked \/ over)
=============================================================================
