----------------------------- MODULE SessionView -----------------------------
(***************************************************************************)
(* One tab's view of one session: the reducer and the store of the browser *)
(* (apps/web/src/lib/session.ts, sessions.ts, session-store.ts), its relay *)
(* client (relay-client.ts), the relay's routing and ciphertext cache      *)
(* (apps/relay/src/relay.ts) and the daemon that holds the session         *)
(* (packages/daemon/src/daemon.ts).                                        *)
(*                                                                         *)
(* Of a transcript only its gated asks are kept.  An ask may be shown more *)
(* than once (a replay appends), so what a tab shows of it is a set of     *)
(* faces.  A socket that dies takes what it carries with it.               *)
(***************************************************************************)
EXTENDS Naturals, Sequences

CONSTANTS Ask,
          CacheMax,    \* maxFramesPerSession
          MaxHeals,    \* bound: times the tab asks for the key anew
          MaxVotes,    \* bound: verdicts this tab's user gives
          MaxEvents    \* bound: dead links, reloads, restarts, evictions, frames of another
                       \* tab and messages of the agent

ASSUME SessionViewConstants ==
  /\ CacheMax \in Nat \ {0}
  /\ {MaxHeals, MaxVotes} \subseteq Nat /\ MaxEvents \in Nat

Verdict == {"allow", "deny"}
Face    == {"pending", "approving", "rejecting", "approved", "rejected"}

VARIABLES
  link,     \* the tab's socket
  chain,    \* sendChain: frames waiting for the handshake gate
  up,       \* frames from the tab to the relay
  marking,  \* the relay awaits markRunning for the head of `up`: "no", or how the daemon's
            \* socket it captured stands
  down,     \* frames on their way to the tab, from the daemon's sendChain on
  online,   \* the daemon's socket is registered
  rec,      \* the daemon's record: status, and each ask's decision
  row,      \* the row is in a live status
  cache,    \* ciphertextCache: for whom the key frame is wrapped, and the ring
  view,     \* the tab's SessionState
  key,      \* the tab holds the content key
  asked,    \* pendingKeyRequests
  voted,    \* history: the verdicts given, by anybody
  crossed,  \* history: asks voted on in another tab, or offered anew by a frame that crossed
            \* this tab's verdict
  count     \* the bounds' counters

vars == <<link, chain, up, marking, down, online, rec, row, cache, view, key, asked,
          voted, crossed, count>>
tabVars    == <<chain, view, key, asked>>
daemonVars == <<rec, row>>
histVars   == <<voted, crossed>>

NoView == [known |-> FALSE, filled |-> FALSE, status |-> "idle", shown |-> [a \in Ask |-> {}]]
NoCache == [key |-> "none", ring |-> <<>>]
Subscribe == [type |-> "subscribe", by |-> "me"]

\* The page is open and dials; the session runs, unseen so far.
Init ==
  /\ link = "dialing" /\ chain = <<>> /\ up = <<>> /\ marking = "no" /\ down = <<>>
  /\ online = TRUE
  /\ rec = [held |-> TRUE, status |-> "running", ask |-> [a \in Ask |-> "none"]]
  /\ row = TRUE
  /\ cache \in {NoCache, [NoCache EXCEPT !.key = "theirs"]}
  /\ view = NoView /\ key = FALSE /\ asked = FALSE
  /\ voted = {} /\ crossed = {}
  /\ count = [heals |-> 0, votes |-> 0, events |-> 0]

Event == count.events < MaxEvents /\ count' = [count EXCEPT !.events = @ + 1]

\* broadcastToBrowsers, as far as this tab goes; replies are sent in the same way.
Reaching(frames) == IF link = "live" THEN down \o frames ELSE down

-----------------------------------------------------------------------------
(* The reducer *)

EachFace(shown, F(_)) == [a \in Ask |-> {F(d) : d \in shown[a]}]

Confirmed(d) == CASE d = "approving" -> "approved" [] d = "rejecting" -> "rejected"
                  [] OTHER -> d
Reverted(d)  == IF d \in {"approving", "rejecting"} THEN "pending" ELSE d
Closed(d)    == IF d = "pending" THEN "rejected" ELSE d

\* Mutant: an ask that was not denied counts as approved.
FaceUnlessDenied(decision) == CASE decision = "none" -> {} [] decision = "deny" -> {"rejected"}
                                [] OTHER -> {"approved"}

\* mapHistoryEntry
FaceOf(decision) == CASE decision = "none"  -> {}
                      [] decision = "open"  -> {"pending"}
                      [] decision = "allow" -> {"approved"}
                      [] decision = "deny"  -> {"rejected"}

\* confirmInFlightActions: any frame but relay.error.
Confirm(v) == [v EXCEPT !.shown = EachFace(@, Confirmed)]

\* relay.error
Undelivered(v) ==
  [v EXCEPT !.known = TRUE, !.shown = EachFace(@, Reverted),
            !.status = IF @ = "ended" THEN @ ELSE "paused"]

\* markChannelOffline
Pause(v) == [v EXCEPT !.status = IF @ \in {"running", "awaiting"} THEN "paused" ELSE @]

\* Mutant: an empty backfill is applied like any other.
ReseedAlways(v, f) ==
  [v EXCEPT !.known = TRUE, !.filled = f.held, !.status = f.status,
            !.shown = [a \in Ask |-> IF f.held THEN FaceOf(f.ask[a]) ELSE {}]]

\* session.history: reseeds the view; an empty one, of a session the daemon does not hold,
\* spares the entries and an ended status.
Reseed(v, f) ==
  IF ~f.held /\ v.filled
    THEN [v EXCEPT !.status = IF @ = "ended" THEN @ ELSE f.status]
    ELSE [v EXCEPT !.known = TRUE, !.filled = f.held, !.status = f.status,
                   !.shown = [a \in Ask |-> IF f.held THEN FaceOf(f.ask[a]) ELSE {}]]

\* applyEnvelope, for a frame that was opened.
Apply(v, f) ==
  CASE f.type = "ask"     -> [Confirm(v) EXCEPT !.known = TRUE, !.filled = TRUE,
                                !.status = "awaiting", !.shown[f.ask] = @ \cup {"pending"}]
    [] f.type = "message" -> [Confirm(v) EXCEPT !.known = TRUE, !.filled = TRUE]
    [] f.type = "ended"   -> [Confirm(v) EXCEPT !.known = TRUE, !.status = "ended",
                                !.shown = EachFace(@, Closed)]
    [] f.type = "history" -> Reseed(Confirm(v), f)

\* What a tab without the key makes of a sealed frame: its type, and the status in clear.
ApplySealed(v, f) == IF f.type = "ended" THEN Apply(v, f) ELSE Confirm(v)

-----------------------------------------------------------------------------
(* The tab *)

\* decide: markDeciding on every copy of the ask, and the frame joins the chain.
Vote(a, d) ==
  /\ "pending" \in view.shown[a]
  /\ count.votes < MaxVotes /\ count' = [count EXCEPT !.votes = @ + 1]
  /\ view'  = [view EXCEPT !.status = "running",
                           !.shown[a] = {IF d = "allow" THEN "approving" ELSE "rejecting"}]
  /\ chain' = Append(chain, [type |-> "decide", ask |-> a, verdict |-> d])
  /\ voted' = voted \cup {<<a, d>>}
  /\ UNCHANGED <<link, up, marking, down, online, daemonVars, cache, key, asked,
                 crossed>>

\* A frame leaves the chain once the gate is open; on a socket that is dead, noticed or not
\* (it may die while the frame is being sealed), it is lost.
Flush ==
  /\ chain # <<>> /\ link \in {"live", "zombie"}
  /\ chain' = Tail(chain)
  /\ up' = IF link = "live" THEN Append(up, Head(chain)) ELSE up
  /\ UNCHANGED <<link, marking, down, online, daemonVars, cache, view, key, asked,
                 histVars, count>>

Pop(extra) == /\ down # <<>> /\ down' = Tail(down)
              /\ chain' = chain \o extra
              /\ UNCHANGED <<link, up, marking, online, daemonVars, cache, voted>>

\* handleDevicePresence: reattachSessions, or markChannelOffline.
TakePresence ==
  LET f == Head(down) IN
  /\ down # <<>> /\ f.type = "presence"
  /\ Pop(IF f.online /\ view.known THEN <<Subscribe>> ELSE <<>>)
  /\ view' = IF f.online THEN view ELSE Pause(view)
  /\ UNCHANGED <<key, asked, count, crossed>>

TakeError ==
  /\ down # <<>> /\ Head(down).type = "error"
  /\ Pop(<<>>)
  /\ view' = Undelivered(view)
  /\ UNCHANGED <<key, asked, count, crossed>>

\* session.key: one that is wrapped for another browser cannot be opened.
TakeKey ==
  /\ down # <<>> /\ Head(down).type = "key"
  /\ Pop(<<>>)
  /\ key'   = (key \/ Head(down).for = "me")
  /\ asked' = FALSE
  /\ UNCHANGED <<view, count, crossed>>

\* needsKeyRecovery
NeedsKey(f) == f.sealed /\ ~key /\ ~asked /\ count.heals < MaxHeals

OfferedAnew ==
  {a \in Ask : /\ view.shown[a] # {} /\ "pending" \notin view.shown[a]
               /\ "pending" \in view'.shown[a]}

TakeFrame ==
  LET f == Head(down) IN
  /\ down # <<>> /\ f.type \in {"ask", "message", "ended", "history"}
  /\ Pop(IF NeedsKey(f) THEN <<Subscribe>> ELSE <<>>)
  /\ IF NeedsKey(f)
       THEN asked' = TRUE /\ count' = [count EXCEPT !.heals = @ + 1]
       ELSE UNCHANGED <<asked, count>>
  /\ view'  = IF f.sealed /\ ~key THEN ApplySealed(view, f) ELSE Apply(view, f)
  /\ crossed' = crossed \cup OfferedAnew
  /\ UNCHANGED key

-----------------------------------------------------------------------------
(* The tab's link *)

\* The link dies; only what the relay awaits a write for goes on.
LinkDies ==
  /\ link = "live"
  /\ Event
  /\ link' = "zombie"
  /\ up' = IF marking = "no" THEN <<>> ELSE <<Head(up)>>
  /\ down' = <<>>
  /\ UNCHANGED <<chain, marking, online, daemonVars, cache, view, key, asked,
                 histVars>>

\* The close event comes, or two silent heartbeat rounds close the socket: the gate is armed
\* anew, and the timer of scheduleReconnect dials until a dial succeeds.
LinkCloses ==
  /\ link = "zombie"
  /\ link' = "dialing"
  /\ UNCHANGED <<chain, up, marking, down, online, daemonVars, cache, view, key, asked,
                 histVars, count>>

\* hello.ack, with the snapshot of the device's presence behind it. The open page subscribes
\* whenever the link is up again (as does reattachSessions).
Handshake ==
  /\ link = "dialing"
  /\ link'  = "live"
  /\ down'  = <<[type |-> "presence", online |-> online]>>
  /\ chain' = Append(chain, Subscribe)
  /\ UNCHANGED <<up, marking, online, daemonVars, cache, view, key, asked, histVars,
                 count>>

\* The page is loaded anew: keys and views are gone, the identity and the route are not.
Reload ==
  /\ Event
  /\ link' = "dialing" /\ chain' = <<>> /\ down' = <<>>
  /\ up' = IF marking = "no" THEN <<>> ELSE <<Head(up)>>
  /\ view' = NoView /\ key' = FALSE /\ asked' = FALSE
  /\ UNCHANGED <<marking, online, daemonVars, cache, histVars>>

-----------------------------------------------------------------------------
(* What the relay makes of the daemon's frames *)

\* cacheFrame
Push(ring, f) == LET r == Append(ring, f) IN IF Len(r) > CacheMax THEN Tail(r) ELSE r

\* CACHEABLE_TYPES, of the frames modelled
Cached(c, f) ==
  CASE f.type = "key" -> [c EXCEPT !.key = f.for]
    [] f.type \in {"ask", "message", "ended"} -> [c EXCEPT !.ring = Push(@, f)]
    [] OTHER -> c

\* The daemon sends two frames at once at most.
CachedAll(c, frames) ==
  CASE Len(frames) = 0 -> c
    [] Len(frames) = 1 -> Cached(c, frames[1])
    [] OTHER -> Cached(Cached(c, frames[1]), frames[2])

\* The daemon sends, and the relay caches and forwards; without a link the frames are lost.
Sends(frames) ==
  IF online
    THEN cache' = CachedAll(cache, frames) /\ down' = Reaching(frames)
    ELSE UNCHANGED <<cache, down>>

-----------------------------------------------------------------------------
(* The daemon's answers *)

Key(who) == [type |-> "key", for |-> who]

\* historyPayloadFor
History(r) == IF r.held
  THEN [type |-> "history", sealed |-> TRUE, held |-> TRUE, status |-> r.status, ask |-> r.ask]
  ELSE [type |-> "history", sealed |-> FALSE, held |-> FALSE, status |-> "paused",
        ask |-> [a \in Ask |-> "none"]]

\* session.subscribe
Backfill(who) == (IF rec.held THEN <<Key(who)>> ELSE <<>>) \o <<History(rec)>>

\* settlePermissionEntry
Settled(a, d) == [rec EXCEPT !.ask[a] = d, !.status = "running"]

\* Mutant: a verdict for a settled gate is dropped without a word.
SilentlyDropped == <<>>

\* A verdict for a gate that is settled is answered with the state of things.
Reconciliation == <<History(rec)>>

\* permission.decision
Decide(a, d) ==
  IF rec.held /\ rec.ask[a] = "open"
    THEN rec' = Settled(a, d) /\ UNCHANGED <<cache, down>>
    ELSE Sends(Reconciliation) /\ UNCHANGED rec

-----------------------------------------------------------------------------
(* The relay *)

\* replayCache: the key first.
Replay == (IF cache.key = "none" THEN <<>> ELSE <<Key(cache.key)>>) \o cache.ring

Error == <<[type |-> "error"]>>

\* session.subscribe: a replay; the daemon sends its key to the browser that asks, and the
\* backfill.
RouteSubscribe ==
  /\ up # <<>> /\ Head(up).type = "subscribe"
  /\ up' = Tail(up)
  /\ cache' = IF online THEN CachedAll(cache, Backfill("me")) ELSE cache
  /\ down'  = Reaching(Replay \o (IF online THEN Backfill("me") ELSE Error))
  /\ UNCHANGED <<link, marking, online, daemonVars, tabVars, histVars, count>>

\* A verdict: refused while the device is offline, else the row is marked first.
RouteVerdict ==
  /\ up # <<>> /\ Head(up).type = "decide" /\ marking = "no"
  /\ IF online
       THEN marking' = "fresh" /\ UNCHANGED <<up, down>>
       ELSE up' = Tail(up) /\ down' = Reaching(Error) /\ UNCHANGED marking
  /\ UNCHANGED <<link, online, daemonVars, cache, tabVars, histVars, count>>

\* daemon.send on the socket captured before the write, and permission.decision there.
ForwardVerdict ==
  /\ marking # "no"
  /\ marking' = "no"
  /\ up' = Tail(up)
  /\ IF marking = "fresh" THEN Decide(Head(up).ask, Head(up).verdict)
                          ELSE UNCHANGED <<rec, cache, down>>
  /\ UNCHANGED <<link, online, row, tabVars, histVars, count>>

\* Another session's first frame evicts this one's entry.
Evict ==
  /\ cache # NoCache
  /\ Event
  /\ cache' = NoCache
  /\ UNCHANGED <<link, up, marking, down, online, daemonVars, tabVars, histVars>>

-----------------------------------------------------------------------------
(* The daemon *)

Runs == rec.held /\ rec.status # "ended"

\* canUseTool: recorded, then sent.
Asks(a) ==
  /\ Runs /\ rec.ask[a] = "none"
  /\ rec' = [rec EXCEPT !.ask[a] = "open", !.status = "awaiting"]
  /\ Sends(<<[type |-> "ask", sealed |-> TRUE, ask |-> a]>>)
  /\ UNCHANGED <<link, up, marking, online, row, tabVars, histVars, count>>

Says ==
  /\ Runs
  /\ Event
  /\ Sends(<<[type |-> "message", sealed |-> TRUE]>>)
  /\ UNCHANGED <<link, up, marking, online, daemonVars, tabVars, histVars>>

\* armGateTimeout
GateTimesOut(a) ==
  /\ Runs /\ rec.ask[a] = "open"
  /\ rec' = Settled(a, "deny")
  /\ Sends(<<History(Settled(a, "deny"))>>)
  /\ UNCHANGED <<link, up, marking, online, row, tabVars, histVars, count>>

\* session.ended; the relay marks the row.
Finishes ==
  /\ Runs /\ \A a \in Ask : rec.ask[a] # "open"
  /\ rec' = [rec EXCEPT !.status = "ended"]
  /\ row' = (row /\ ~online)
  /\ Sends(<<[type |-> "ended", sealed |-> TRUE]>>)
  /\ UNCHANGED <<link, up, marking, online, tabVars, histVars, count>>

\* The daemon's socket closes.
Closes ==
  /\ online
  /\ Event
  /\ online' = FALSE
  /\ down' = Reaching(<<[type |-> "presence", online |-> FALSE]>>)
  /\ marking' = IF marking = "fresh" THEN "stale" ELSE marking
  /\ UNCHANGED <<link, up, row, cache, tabVars, histVars>>

DaemonDrops == Closes /\ UNCHANGED rec

\* The process restarts: a launched session comes back if it had settled (setStatus saves it).
DaemonRestarts ==
  /\ rec.held
  /\ Closes
  /\ rec' = [rec EXCEPT !.held = rec.status = "ended"]

\* hello, and session.reconcile behind it, which retires the row of a session that is lost.
DaemonReturns ==
  /\ ~online
  /\ online' = TRUE
  /\ row'  = (row /\ rec.held)
  /\ down' = Reaching(<<[type |-> "presence", online |-> TRUE]>> \o
                (IF row /\ ~rec.held THEN <<[type |-> "ended", sealed |-> FALSE]>> ELSE <<>>))
  /\ UNCHANGED <<link, up, marking, rec, cache, tabVars, histVars, count>>

\* Another browser of the channel subscribes, or votes on an open ask.
AnotherSubscribes ==
  /\ online
  /\ Event
  /\ Sends(Backfill("theirs"))
  /\ UNCHANGED <<link, up, marking, online, daemonVars, tabVars, histVars>>

AnotherVotes(a, d) ==
  /\ online /\ rec.held /\ rec.ask[a] = "open"
  /\ Event
  /\ Decide(a, d)
  /\ voted' = voted \cup {<<a, d>>}
  /\ crossed' = crossed \cup {a}
  /\ UNCHANGED <<link, up, marking, online, row, tabVars>>

-----------------------------------------------------------------------------
Next ==
  \/ \E a \in Ask, d \in Verdict : Vote(a, d) \/ AnotherVotes(a, d)
  \/ Flush \/ TakePresence \/ TakeError \/ TakeKey \/ TakeFrame
  \/ LinkDies \/ LinkCloses \/ Handshake \/ Reload
  \/ RouteSubscribe \/ RouteVerdict \/ ForwardVerdict \/ Evict
  \/ AnotherSubscribes
  \/ \E a \in Ask : Asks(a) \/ GateTimesOut(a)
  \/ Says \/ Finishes \/ DaemonDrops \/ DaemonRestarts \/ DaemonReturns

Spec == Init /\ [][Next]_vars

\* Queues drain, sockets close and are redialled (timers of both ends), the daemon comes back
\* and the agent does not stall without a gate.  Nobody has to vote, and gates need not time
\* out (gateTimeoutMs <= 0 disables them).
Fairness ==
  /\ WF_vars(Flush) /\ WF_vars(TakePresence \/ TakeError \/ TakeKey \/ TakeFrame)
  /\ WF_vars(RouteSubscribe \/ RouteVerdict \/ ForwardVerdict)
  /\ WF_vars(Finishes) /\ WF_vars(LinkCloses) /\ WF_vars(Handshake) /\ WF_vars(DaemonReturns)

FairSpec == Spec /\ Fairness

-----------------------------------------------------------------------------
(* Properties *)

\* A tab never shows a verdict nobody gave: an ask that reads approved, or is on its way to, was
\* allowed by somebody, whatever was replayed, backfilled, reverted or closed since.
NoVerdictFromNowhere ==
  \A a \in Ask : view.shown[a] \cap {"approving", "approved"} # {} => <<a, "allow">> \in voted

\* Short of a reload a transcript that has been shown is never lost, whatever a daemon that lost
\* the session backfills.
TranscriptSurvives ==
  [][view' = NoView \/
     /\ view.filled => view'.filled
     /\ \A a \in Ask : view.shown[a] # {} => view'.shown[a] # {}]_vars

\* What the tab shows of an ask is what the daemon holds. An ask voted on elsewhere, or offered
\* anew by a frame that crossed the verdict, may still be offered, and is closed as rejected at
\* the end of the session even if it was allowed.
ShowsTheAsk(a) ==
  \/ view.shown[a] = FaceOf(rec.ask[a])
  \/ a \in crossed /\ view.shown[a] \subseteq {"pending", "rejected"}

ShowsTheStatus == view.status = rec.status \/ (crossed # {} /\ rec.status # "ended")

Agrees ==
  IF rec.held THEN ShowsTheStatus /\ \A a \in Ask : ShowsTheAsk(a)
  ELSE /\ view.status \in {"ended", "paused"}
       /\ \A a \in Ask : view.shown[a] \cap {"approving", "rejecting"} = {}

\* The tab catches up with the daemon, whichever links died, whichever of the two restarted and
\* whatever was replayed out of order on the way; no verdict spins forever.
ViewConverges == <>[](view.known => Agrees)

=============================================================================
