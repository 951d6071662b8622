----------------------------- MODULE SessionMeta -----------------------------
(***************************************************************************)
(* The sealed metadata of one adopted session, from the daemon that derives *)
(* it (packages/daemon/src/daemon.ts: emitSessionMeta, refreshAdoptedBranch, *)
(* refineAdoptedTitleFromPrompt, backfillRestoredTitle) over the relay that *)
(* stores, caches and broadcasts it (apps/relay/src/relay.ts) to one tab's  *)
(* map (apps/web/src/lib/session-meta.ts, session-store.ts).                *)
(*                                                                         *)
(* Of the metadata the branch and the derived title are kept: the title is *)
(* the directory's name until the transcript holds a real prompt.  The tab *)
(* holds the session's content key.                                        *)
(***************************************************************************)
EXTENDS Naturals, SequencesExt

CONSTANTS Branch,
          Unknown,        \* no branch: readGitBranch found none
          MaxReads,       \* bound: branch reads at a time
          MaxWire,        \* bound: frames of a socket that wait at the relay
          MaxEvents       \* bound: branch switches, reads given up, dead links, restarts,
                          \* and times the tab drops, loads the page or opens the session

ASSUME SessionMetaConstants ==
  /\ Unknown \notin Branch
  /\ {MaxReads, MaxWire} \subseteq Nat \ {0} /\ MaxEvents \in Nat

Name  == {"directory", "prompt"}
Meta  == [branch : Branch \cup {Unknown}, title : Name]
Socket == {"old", "new"}

VARIABLES
  head,      \* the branch checked out in the session's directory
  meta,      \* rec.meta
  prompted,  \* rec.transcript holds a real prompt
  hook,      \* where a hook handler stands: "no", or "mirrored" (past mirrorTranscript)
  reads,     \* the branch reads in flight: what each found, and whether the directory has
             \* kept that branch since
  disk,      \* the session's file: meta and transcript
  backfill,  \* pendingTitleBackfills holds the session
  linked,    \* the daemon's socket is registered
  frames,    \* what is left to route of the frames of the daemon's sockets
  stored,    \* of which sockets the first frame is stored, and not yet broadcast
  row,       \* sealed_meta of the row: at most one Meta
  cache,     \* entry.meta of the ciphertext cache: at most one Meta
  tab,       \* the tab: its socket, its entry in the map, a page load's row being opened
  seen,      \* history: a read begun since the last switch has finished
  misled,    \* history: since then, one begun before the switch, or given up, has finished
  unsent,    \* history: the last word of the daemon found no socket, or was lost with it
  crossed,   \* history: a dead socket's frame was routed after a frame of its successor
  missed,    \* history: the last broadcast met the tab's socket down
  cleared,   \* history: a branch the tab shows became unknown
  events     \* how many of the bounded events there were

daemonVars == <<meta, prompted, hook, reads, disk, backfill>>
relayVars  == <<stored, row, cache>>
entryVars  == <<tab, missed, cleared>>
metaVars == <<head, daemonVars, linked, frames, relayVars, entryVars, seen, misled, unsent,
              crossed, events>>

\* The session was just adopted: its first identity is on the wire.
MetaInit ==
  /\ head \in Branch \cup {Unknown}
  /\ meta = [branch |-> Unknown, title |-> "directory"]
  /\ prompted = FALSE /\ hook = "no" /\ reads = <<>>
  /\ disk = [meta |-> meta, prompted |-> FALSE] /\ backfill = FALSE
  /\ linked = TRUE /\ frames = [old |-> <<>>, new |-> <<meta>>]
  /\ stored = {} /\ row = {} /\ cache = {}
  /\ tab = [up |-> TRUE, has |-> {}, opening |-> {}]
  /\ seen = FALSE /\ misled = FALSE
  /\ unsent = FALSE /\ crossed = FALSE /\ missed = FALSE /\ cleared = FALSE
  /\ events = 0

Event == events < MaxEvents /\ events' = events + 1

-----------------------------------------------------------------------------
(* The daemon *)

\* sendForSession: a frame that finds no socket is gone.
Send(m) ==
  /\ Len(frames.new) < MaxWire
  /\ frames' = IF linked THEN [frames EXCEPT !.new = Append(@, m)] ELSE frames
  /\ unsent' = ~linked

\* Mutant: the frame carries the snapshot from before the patch.
EmitUnmerged(m) == meta' = m /\ Send(meta)

\* emitSessionMeta: the frame carries the whole merged snapshot.
Emit(m) == meta' = m /\ Send(m)

Save(m, p) == disk' = [meta |-> m, prompted |-> p]

\* Somebody at the terminal switches the branch, or leaves the repository.
SwitchBranch ==
  /\ \E b \in (Branch \cup {Unknown}) \ {head} : head' = b
  /\ reads' = [i \in DOMAIN reads |-> [reads[i] EXCEPT !.current = FALSE]]
  /\ seen' = FALSE /\ misled' = FALSE
  /\ Event
  /\ UNCHANGED <<meta, prompted, hook, disk, backfill, linked, frames, relayVars, entryVars,
                 unsent, crossed>>

\* refreshAdoptedBranch, as far as its await.
BeginRead ==
  /\ Len(reads) < MaxReads
  /\ reads' = Append(reads, [found |-> head, current |-> TRUE])

NotificationHook ==
  /\ BeginRead
  /\ UNCHANGED <<head, meta, prompted, hook, disk, backfill, linked, frames, relayVars,
                 entryVars, seen, misled, unsent, crossed, events>>

\* The mirror of a tool-use or a stop hook, which may bring the first real prompt.
MirrorTranscript ==
  /\ hook = "no" /\ hook' = "mirrored"
  /\ prompted' \in {prompted, TRUE}
  /\ UNCHANGED <<head, meta, reads, disk, backfill, linked, frames, relayVars, entryVars, seen,
                 misled, unsent, crossed, events>>

\* refinedTitleFor
Refined(m, p) == IF p THEN [m EXCEPT !.title = "prompt"] ELSE m

\* The rest of the hook: refineAdoptedTitleFromPrompt, the branch, and a stop's save.  The
\* mirror may have thrown, which ends a stop hook.
FinishHook ==
  /\ hook = "mirrored" /\ hook' = "no"
  /\ \/ UNCHANGED <<meta, reads, disk, frames, unsent>>
     \/ /\ BeginRead
        /\ IF Refined(meta, prompted) # meta
             THEN Emit(Refined(meta, prompted))
             ELSE UNCHANGED <<meta, frames, unsent>>
        /\ \/ Save(Refined(meta, prompted), prompted)
           \/ UNCHANGED disk
  /\ UNCHANGED <<head, prompted, backfill, linked, relayVars, entryVars, seen, misled, crossed,
                 events>>

\* Mutant: a read that found no branch changes nothing.
TakeKnownBranch(b) ==
  IF b \in {Unknown, meta.branch}
    THEN UNCHANGED <<meta, frames, unsent, disk>>
    ELSE Emit([meta EXCEPT !.branch = b]) /\ Save(meta', prompted)

\* refreshAdoptedBranch, past its await: only a change is emitted and saved.
TakeBranch(b) ==
  IF b = meta.branch
    THEN UNCHANGED <<meta, frames, unsent, disk>>
    ELSE Emit([meta EXCEPT !.branch = b]) /\ Save(meta', prompted)

\* git takes too long or fails: the read has found no branch.
GiveUpRead(i) ==
  /\ reads[i].found # Unknown /\ Event
  /\ reads' = [reads EXCEPT ![i] = [found |-> Unknown, current |-> head = Unknown]]
  /\ UNCHANGED <<head, meta, prompted, hook, disk, backfill, linked, frames, relayVars,
                 entryVars, seen, misled, unsent, crossed>>

\* A read finishes, in any order with the others.
FinishRead(i) ==
  /\ TakeBranch(reads[i].found)
  /\ reads' = RemoveAt(reads, i)
  /\ seen'  = (seen \/ reads[i].current)
  /\ misled' = (~reads[i].current /\ (seen \/ misled))
  /\ UNCHANGED <<head, prompted, hook, backfill, linked, relayVars, entryVars, crossed, events>>

-----------------------------------------------------------------------------
(* The daemon's link and life *)

\* The socket dies once the relay has got n of the frames that are left, and routes on with
\* those.  (Bound: one dead socket at a time has frames left.)
DiesAfter(n) ==
  /\ linked' = FALSE
  /\ frames.old = <<>>
  /\ "new" \in stored => n > 0
  /\ frames' = [old |-> SubSeq(frames.new, 1, n), new |-> <<>>]
  /\ stored' = IF "new" \in stored THEN {"old"} ELSE {}

LoseLink ==
  /\ linked /\ Event
  /\ \E n \in 0..Len(frames.new) :
       DiesAfter(n) /\ unsent' = (unsent \/ n < Len(frames.new))
  /\ UNCHANGED <<head, daemonVars, row, cache, entryVars, seen, misled, crossed>>

\* A restart: restorePersistedSessions, with backfillRestoredTitle.
Restart ==
  /\ Event
  /\ \/ /\ linked
        /\ \E n \in 0..Len(frames.new) :
             DiesAfter(n) /\ unsent' = (unsent \/ n < Len(frames.new) \/ disk.meta # meta)
     \/ /\ ~linked /\ UNCHANGED <<linked, frames, stored>>
        /\ unsent' = (unsent \/ backfill \/ disk.meta # meta)
  /\ meta'     = Refined(disk.meta, disk.prompted)
  /\ prompted' = disk.prompted
  /\ backfill' = (meta' # disk.meta)
  /\ hook' = "no" /\ reads' = <<>>
  /\ UNCHANGED <<head, disk, row, cache, entryVars, seen, misled, crossed>>

\* hello.ack, with flushTitleBackfills.
Register ==
  /\ ~linked /\ linked' = TRUE
  /\ backfill' = FALSE
  /\ IF backfill
       THEN /\ frames' = [frames EXCEPT !.new = Append(@, meta)] /\ unsent' = FALSE
            /\ Save(meta, prompted)
       ELSE UNCHANGED <<frames, unsent, disk>>
  /\ UNCHANGED <<head, meta, prompted, hook, reads, relayVars, entryVars, seen, misled, crossed,
                 events>>

-----------------------------------------------------------------------------
(* The tab *)

\* applyMetaFrame: the entry's fields are kept where the frame has none, and an unknown
\* branch is no field of the frame.
Merged(m) ==
  IF m.branch = Unknown
    THEN {[m EXCEPT !.branch = e.branch] : e \in tab.has} \cup (IF tab.has = {} THEN {m} ELSE {})
    ELSE {m}

\* A frame reaches the tab, or passes it by.
Take(m) ==
  IF tab.up
    THEN /\ tab'     = [tab EXCEPT !.has = Merged(m)]
         /\ cleared' = (m \notin Merged(m))
         /\ missed'  = FALSE
    ELSE missed' = TRUE /\ UNCHANGED <<tab, cleared>>

TabDrops ==
  /\ tab.up /\ Event
  /\ tab' = [tab EXCEPT !.up = FALSE]
  /\ UNCHANGED <<head, daemonVars, linked, frames, relayVars, missed, cleared, seen, misled,
                 unsent, crossed>>

TabConnects ==
  /\ ~tab.up
  /\ tab' = [tab EXCEPT !.up = TRUE]
  /\ UNCHANGED <<head, daemonVars, linked, frames, relayVars, missed, cleared, seen, misled,
                 unsent, crossed, events>>

\* A page load brings the row; seedSessionMetas has it opened with the content key.  A reload
\* of the document begins with an empty map and no socket.
LoadRows ==
  /\ Event
  /\ \/ /\ tab.opening = {} /\ tab' = [tab EXCEPT !.opening = row]
        /\ missed' = (missed /\ tab.has # {}) /\ UNCHANGED cleared
     \/ /\ tab' = [up |-> FALSE, has |-> {}, opening |-> row]
        /\ missed' = FALSE /\ cleared' = FALSE
  /\ UNCHANGED <<head, daemonVars, linked, frames, relayVars, seen, misled, unsent, crossed>>

\* Mutant: what was opened replaces the entry.
OverlayAll(metas) == metas

\* overlayMissingMetas
OverlayMissing(metas) == IF tab.has = {} THEN metas ELSE tab.has

SeedEntry ==
  /\ tab.opening # {}
  /\ tab' = [tab EXCEPT !.opening = {}, !.has = OverlayMissing(tab.opening)]
  /\ UNCHANGED <<head, daemonVars, linked, frames, relayVars, missed, cleared, seen, misled,
                 unsent, crossed, events>>

\* Opening the session: replayCache answers at once, and the daemon, if linked, sends its
\* meta again.
Subscribe ==
  /\ tab.up /\ Event
  /\ IF cache = {} THEN UNCHANGED entryVars ELSE \E m \in cache : Take(m)
  /\ IF linked THEN Send(meta) ELSE UNCHANGED <<frames, unsent>>
  /\ UNCHANGED <<head, daemonVars, linked, relayVars, seen, misled, crossed>>

-----------------------------------------------------------------------------
(* The relay: each socket's frames in order, those of two sockets side by side *)

\* setSealedMeta, for the first frame of a socket.
Store(s) ==
  /\ frames[s] # <<>> /\ s \notin stored
  /\ stored'  = stored \cup {s}
  /\ row'     = {Head(frames[s])}
  /\ crossed' = ((crossed /\ s = "old") \/ (s = "new" /\ frames.old # <<>>))
  /\ UNCHANGED <<head, daemonVars, linked, frames, cache, entryVars, seen, misled, unsent,
                 events>>

\* cacheFrame and broadcastToBrowsers.
Broadcast(s) ==
  /\ s \in stored /\ stored' = stored \ {s}
  /\ frames' = [frames EXCEPT ![s] = Tail(@)]
  /\ cache' = {Head(frames[s])}
  /\ Take(Head(frames[s]))
  /\ UNCHANGED <<head, daemonVars, linked, row, seen, misled, unsent, crossed, events>>

-----------------------------------------------------------------------------
MetaNext ==
  \/ SwitchBranch \/ NotificationHook \/ MirrorTranscript \/ FinishHook
  \/ \E i \in DOMAIN reads : GiveUpRead(i) \/ FinishRead(i)
  \/ LoseLink \/ Restart \/ Register
  \/ TabDrops \/ TabConnects \/ LoadRows \/ SeedEntry \/ Subscribe
  \/ \E s \in Socket : Store(s) \/ Broadcast(s)

MetaSpec == MetaInit /\ [][MetaNext]_metaVars

-----------------------------------------------------------------------------
MetaTypeOK ==
  /\ head \in Branch \cup {Unknown} /\ meta \in Meta /\ prompted \in BOOLEAN
  /\ hook \in {"no", "mirrored"}
  /\ reads \in Seq([found : Branch \cup {Unknown}, current : BOOLEAN])
  /\ disk \in [meta : Meta, prompted : BOOLEAN] /\ backfill \in BOOLEAN
  /\ linked \in BOOLEAN /\ frames \in [Socket -> Seq(Meta)]
  /\ stored \subseteq Socket /\ row \subseteq Meta /\ cache \subseteq Meta
  /\ tab \in [up : BOOLEAN, has : SUBSET Meta, opening : SUBSET Meta]
  /\ {seen, misled, unsent, crossed, missed, cleared} \subseteq BOOLEAN
  /\ events \in Nat

Quiet == frames.old = <<>> /\ frames.new = <<>> /\ ~backfill

\* The branch on a card is the terminal's once a read begun since the last switch has finished:
\* only a read begun before it, or given up, that finishes later misleads, and only until the
\* next one.  About refreshAdoptedBranch, which several hooks run side by side.
BranchIsTheTerminals == seen => meta.branch = head \/ misled

\* The row holds what the daemon would say now, unless its last word found no link or was
\* lost with it, or a dead socket's frame was routed after one of its successor.
RowIsTheDaemons == row = {meta} \/ unsent \/ crossed

\* An entry is the row, unless the last broadcast met the tab disconnected, or a branch was
\* cleared, which the merge keeps.
EntryIsTheRow ==
  \/ missed \/ crossed \/ tab.has = row
  \/ cleared /\ {m.title : m \in tab.has} = {m.title : m \in row}

\* When nothing is on its way, daemon, row and the entry of a connected tab agree on the
\* session's labels, whatever emissions, dead sockets, restarts, loads and frames raced, with
\* no excuse but those.  About emitSessionMeta, which says everything and never twice,
\* setSealedMeta, which is awaited per socket, applyMetaFrame, and overlayMissingMetas; and the
\* branch among the labels is the terminal's.
LabelsAgree ==
  /\ BranchIsTheTerminals
  /\ Quiet => RowIsTheDaemons /\ (tab.up /\ tab.has # {} => EntryIsTheRow)

\* What daemon.ts:2766 says of a change to an unknown branch ("a stale name is worse than
\* none"): it reaches a tab as every other change does.
UnknownReachesTheTab ==
  Quiet /\ tab.up /\ tab.has # {} => missed \/ crossed \/ tab.has = row
=============================================================================
