---------------------------- MODULE RelayChannel ----------------------------
(***************************************************************************)
(* One channel (user, device) of the telecode relay                        *)
(* (apps/relay/src/relay.ts): the connections that dial /ws, the hello     *)
(* handshake with its awaited token check, the daemons and browsers maps,  *)
(* the close handler, and the presence frames that tell browsers whether   *)
(* the device is online and the daemon whether anybody is watching.        *)
(*                                                                         *)
(* The two ends of a connection learn of its death separately: the client  *)
(* end drops at once (sleep, network), the relay hears its close event     *)
(* later (heartbeat sweep), or closes first itself (connection age).       *)
(***************************************************************************)
EXTENDS Naturals, Sequences, SequencesExt

CONSTANTS Daemon,    \* connections the device's daemon dials
          Browser,   \* connections of the user's tabs
          NoConn,    \* the daemons map has no entry for the channel
          MaxQueue   \* bound: presence frames in flight on a connection

ASSUME ChannelConstants == /\ Daemon \cap Browser = {}
                           /\ NoConn \notin Daemon \cup Browser
                           /\ MaxQueue \in Nat \ {0}

VARIABLES
  conn,      \* a connection: idle, open, hello (its token is checked), peer, refused
  gone,      \* those whose close event the relay has handled
  alive,     \* those whose client end still holds its socket
  daemons,   \* daemons.get(channel)
  browsers,  \* browsers.get(channel)
  toDaemon,  \* viewer.presence frames in flight to a daemon connection
  toBrowser, \* device.presence frames in flight to a tab
  watched,   \* the daemon's isRemoteViewerOnline
  shown      \* the device state a tab was last told

vars == <<conn, gone, alive, daemons, browsers, toDaemon, toBrowser, watched, shown>>

Conn   == Daemon \cup Browser
Online == {"unknown", "online", "offline"}

Init ==
  /\ conn      = [c \in Conn |-> "idle"]
  /\ gone      = {}
  /\ alive     = {}
  /\ daemons   = NoConn
  /\ browsers  = {}
  /\ toDaemon  = [c \in Daemon |-> <<>>]
  /\ toBrowser = [b \in Browser |-> <<>>]
  /\ watched   = FALSE
  /\ shown     = [b \in Browser |-> "unknown"]

-----------------------------------------------------------------------------
(* Sending.  A frame for a socket either end has closed is dropped silently. *)

Receives(c) == c \in alive \ gone
HasRoom == /\ \A c \in Daemon : Len(toDaemon[c]) < MaxQueue
           /\ \A b \in Browser : Len(toBrowser[b]) < MaxQueue

Presence(up) == IF up THEN "online" ELSE "offline"

\* broadcastToBrowsers of a device.presence frame to the tabs of S.
Broadcast(S, up) ==
  toBrowser' = [b \in Browser |-> IF b \in S /\ Receives(b)
                                  THEN Append(toBrowser[b], Presence(up)) ELSE toBrowser[b]]

\* A viewer.presence frame to the daemon connection d, if there is one.
Notify(d, watching) ==
  toDaemon' = [c \in Daemon |-> IF c = d /\ Receives(c)
                                THEN Append(toDaemon[c], watching) ELSE toDaemon[c]]

-----------------------------------------------------------------------------
(* The client ends. *)

\* A tab dials whenever it likes; the daemon has one socket at a time and, until
\* told otherwise, assumes that nobody watches.
Dial(c) ==
  /\ conn[c] = "idle"
  /\ c \in Daemon => alive \cap Daemon = {}
  /\ conn'  = [conn EXCEPT ![c] = "open"]
  /\ alive' = alive \cup {c}
  /\ watched' = (watched /\ c \in Browser)
  /\ shown' = [b \in Browser |-> IF b = c THEN "unknown" ELSE shown[b]]
  /\ UNCHANGED <<gone, daemons, browsers, toDaemon, toBrowser>>

\* The client end is lost, and with it what is in flight to it; the frames a daemon
\* has received wait in its socket's chain, and outlive the socket.
ClientDrops(c) ==
  /\ c \in alive
  /\ alive'     = alive \ {c}
  /\ toBrowser' = [b \in Browser |-> IF b = c THEN <<>> ELSE toBrowser[b]]
  /\ IF c \in Daemon
     THEN \E n \in 0 .. Len(toDaemon[c]) : toDaemon' = [toDaemon EXCEPT ![c] = SubSeq(@, 1, n)]
     ELSE UNCHANGED toDaemon
  /\ UNCHANGED <<conn, gone, daemons, browsers, watched, shown>>

\* viewer.presence at the daemon, from its current socket or from an earlier one's chain.
DaemonReads(c) ==
  /\ toDaemon[c] # <<>>
  /\ watched'  = Head(toDaemon[c])
  /\ toDaemon' = [toDaemon EXCEPT ![c] = Tail(@)]
  /\ UNCHANGED <<conn, gone, alive, daemons, browsers, toBrowser, shown>>

BrowserReads(b) ==
  /\ b \in alive
  /\ toBrowser[b] # <<>>
  /\ shown'     = [shown EXCEPT ![b] = Head(toBrowser[b])]
  /\ toBrowser' = [toBrowser EXCEPT ![b] = Tail(@)]
  /\ UNCHANGED <<conn, gone, alive, daemons, browsers, toDaemon, watched>>

-----------------------------------------------------------------------------
(* The relay: hello and close. *)

\* The hello reaches handleHello, which goes to await the token check.
HelloArrives(c) ==
  /\ conn[c] = "open"
  /\ c \notin gone
  /\ conn' = [conn EXCEPT ![c] = "hello"]
  /\ UNCHANGED <<gone, alive, daemons, browsers, toDaemon, toBrowser, watched, shown>>

\* The token is bad (4001) or the lookup failed (1013): the socket is closed,
\* the peer was never registered.
HelloRefused(c) ==
  /\ conn[c] = "hello"
  /\ conn' = [conn EXCEPT ![c] = "refused"]
  /\ UNCHANGED <<gone, alive, daemons, browsers, toDaemon, toBrowser, watched, shown>>

\* The daemon's token is good: it takes the channel's entry, the tabs hear that
\* the device is online, it hears whether anybody watches.
DaemonAccepted(c) ==
  /\ c \in Daemon
  /\ conn[c] = "hello"
  /\ HasRoom
  /\ conn'    = [conn EXCEPT ![c] = "peer"]
  /\ daemons' = c
  /\ Broadcast(browsers, TRUE)
  /\ Notify(c, browsers # {})
  /\ UNCHANGED <<gone, alive, browsers, watched, shown>>

\* Mutant: the first tab of a channel is not reported to the daemon.
BrowserAcceptedQuietly(b) ==
  /\ b \in Browser
  /\ conn[b] = "hello"
  /\ HasRoom
  /\ conn'     = [conn EXCEPT ![b] = "peer"]
  /\ browsers' = browsers \cup {b}
  /\ Broadcast({b}, daemons # NoConn)
  /\ UNCHANGED <<gone, alive, daemons, toDaemon, watched, shown>>

\* Mutant: the snapshot is sent only when the daemon is absent.
BrowserAcceptedUnconfirmed(b) ==
  /\ b \in Browser
  /\ conn[b] = "hello"
  /\ HasRoom
  /\ conn'     = [conn EXCEPT ![b] = "peer"]
  /\ browsers' = browsers \cup {b}
  /\ IF browsers = {} THEN Notify(daemons, TRUE) ELSE UNCHANGED toDaemon
  /\ Broadcast(IF daemons = NoConn THEN {b} ELSE {}, FALSE)
  /\ UNCHANGED <<gone, alive, daemons, watched, shown>>

\* The tab's token is good: it joins the channel, the first one is reported to
\* the daemon, and it gets one snapshot of the device's state.
BrowserAccepted(b) ==
  /\ b \in Browser
  /\ conn[b] = "hello"
  /\ HasRoom
  /\ conn'     = [conn EXCEPT ![b] = "peer"]
  /\ browsers' = browsers \cup {b}
  /\ IF browsers = {} THEN Notify(daemons, TRUE) ELSE UNCHANGED toDaemon
  /\ Broadcast({b}, daemons # NoConn)
  /\ UNCHANGED <<gone, alive, daemons, watched, shown>>

\* close of a registered daemon: only the current holder empties the entry.
DaemonClosed(c) ==
  IF daemons = c
  THEN /\ daemons' = NoConn
       /\ Broadcast(browsers, FALSE)
       /\ UNCHANGED <<browsers, toDaemon>>
  ELSE UNCHANGED <<daemons, browsers, toDaemon, toBrowser>>

\* Mutant: a tab that leaves stays among the watchers.
BrowserClosedKept(b) ==
  /\ Notify(daemons, FALSE)
  /\ UNCHANGED <<daemons, browsers, toBrowser>>

\* close of a registered tab: the last one to leave is reported to the daemon.
BrowserClosed(b) ==
  /\ browsers' = browsers \ {b}
  /\ IF browsers = {b} THEN Notify(daemons, FALSE) ELSE UNCHANGED toDaemon
  /\ UNCHANGED <<daemons, toBrowser>>

\* The relay's close event, whoever closed: a peer that never finished its hello
\* leaves nothing to undo.
SocketCloses(c) ==
  /\ conn[c] # "idle"
  /\ c \notin gone
  /\ HasRoom
  /\ gone' = gone \cup {c}
  /\ \/ conn[c] = "peer" /\ c \in Daemon /\ DaemonClosed(c)
     \/ conn[c] = "peer" /\ c \in Browser /\ BrowserClosed(c)
     \/ conn[c] # "peer" /\ UNCHANGED <<daemons, browsers, toDaemon, toBrowser>>
  /\ UNCHANGED <<conn, alive, watched, shown>>

\* A connection both ends have forgotten stands for the next one dialled.
Forgotten(c) ==
  /\ c \in gone \ (alive \cup browsers \cup {daemons})
  /\ conn[c] # "hello"
  /\ c \in Daemon => toDaemon[c] = <<>>
  /\ conn' = [conn EXCEPT ![c] = "idle"]
  /\ gone' = gone \ {c}
  /\ UNCHANGED <<alive, daemons, browsers, toDaemon, toBrowser, watched, shown>>

-----------------------------------------------------------------------------
Next ==
  \/ \E c \in Conn : \/ Dial(c) \/ ClientDrops(c)
                     \/ HelloArrives(c) \/ HelloRefused(c)
                     \/ SocketCloses(c) \/ Forgotten(c)
  \/ \E c \in Daemon : DaemonAccepted(c) \/ DaemonReads(c)
  \/ \E b \in Browser : BrowserAccepted(b) \/ BrowserReads(b)

Spec == Init /\ [][Next]_vars

-----------------------------------------------------------------------------
(* Properties. *)

\* Every variable stays in its domain.
TypeOK ==
  /\ conn \in [Conn -> {"idle", "open", "hello", "peer", "refused"}]
  /\ gone \subseteq Conn
  /\ alive \subseteq Conn
  /\ daemons \in Daemon \cup {NoConn}
  /\ browsers \subseteq Browser
  /\ toDaemon \in [Daemon -> Seq(BOOLEAN)]
  /\ toBrowser \in [Browser -> Seq({"online", "offline"})]
  /\ watched \in BOOLEAN
  /\ shown \in [Browser -> Online]

\* What is told last: the newest frame in flight, else what was read before.
Newest(q, read) == IF q = <<>> THEN read ELSE Last(q)

\* Once its frames are read, a connected tab shows the device exactly as the
\* daemons map has it, whatever reconnects replaced or late closes it went through.
TabsShowTheMap ==
  \A b \in browsers : Receives(b) =>
    Newest(toBrowser[b], shown[b]) = Presence(daemons # NoConn)

\* Once the daemon that holds the channel has read its frames it knows whether any
\* tab watches: no gate waits for a tab that left, none is answered locally behind the
\* back of one that is there.
DaemonKnowsItsViewers ==
  [][\A c \in Daemon :
       DaemonReads(c) /\ c = daemons /\ Receives(c) /\ toDaemon'[c] = <<>>
         => watched' = (browsers # {})]_vars

\* A close event never unregisters anybody but its own connection.
CloseIsLocal ==
  [][\A c \in Conn : c \in browsers \cup {daemons} =>
       \/ c \in browsers' \cup {daemons'}
       \/ c \in gone' \ gone
       \/ c \in Daemon /\ daemons' \in Daemon \ {c}]_vars

\* A registered connection that closes leaves the maps at once and for good: an
\* entry of a closed socket is there only because its hello was still being
\* checked when it closed.
OnlyALateHelloLeavesAGhost ==
  [][\A c \in gone' : c \in browsers' \cup {daemons'} =>
       \/ conn[c] = "hello"
       \/ c \in gone /\ c \in browsers \cup {daemons}]_vars
=============================================================================
