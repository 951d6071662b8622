---------------------------- MODULE SessionBoard ----------------------------
(***************************************************************************)
(* The list of sessions a tab shows (web: routes/(app)/+page.svelte,        *)
(* lib/housekeeping.ts, lib/session-pager.svelte.ts) over the relay's      *)
(* paged read of its registry (apps/relay/src/registry/                    *)
(* session-registry.ts, session-routes.ts) and the web server that passes  *)
(* it on (lib/server/relay-api.ts).                                        *)
(*                                                                         *)
(* A load delivers every session that goes on and the first page of the    *)
(* ended ones, "Load more" appends further pages behind a cursor, and a    *)
(* session's frames put it on the list.  Meanwhile sessions begin, end and *)
(* go on, and are archived, restored and deleted by this tab and by        *)
(* others.  How a row is labelled is the subject of SessionTitle and       *)
(* SessionMeta.                                                            *)
(***************************************************************************)
EXTENDS Integers, FiniteSets

CONSTANTS Session,   \* session ids, compared as the database compares them
          PageSize,  \* DEFAULT_ENDED_PAGE_SIZE
          MaxTime,   \* bound: distinct times of an update
          MaxMoves   \* bound: changes of the registry

ASSUME BoardConstants ==
  /\ Session \subseteq Nat \ {0} /\ IsFiniteSet(Session)
  /\ PageSize \in Nat \ {0} /\ MaxTime \in Nat /\ MaxMoves \in Nat

VARIABLES
  rows,   \* the relay's registry: status, updated_at, archived
  time,   \* the newest updated_at
  moves,  \* how many changes there were
  wire,   \* sessions with a frame on its way to the tab
  live,   \* the sessions in the tab's sessionMap
  data,   \* what the last load delivered: its rows and its cursor
  load,   \* a load on its way to the tab, or NoLoad
  extra,  \* pager.extraRows
  cursor, \* pager.cursor
  page,   \* pager.loadMore: the page asked for or on its way, or NoPage
  busy,   \* an archive or delete the relay has done, its answer under way
  owed,   \* history: what the last load's list held and nothing has moved since
  away,   \* history: sessions this tab put away before its last load
  put,    \* history: sessions this tab put away
  echoed, \* history: sessions whose frame came after they were put away
  skewed  \* history: a page asked for before the last load was appended after it

relay  == <<rows, time, moves>>
pager  == <<extra, cursor, page>>
past   == <<owed, away, put, echoed, skewed>>
vars   == <<relay, wire, live, data, load, pager, busy, past>>

NoLoad  == [at |-> "no"]
NoPage  == [at |-> "no"]
NoCall  == [kind |-> "no"]
Drained == [at |-> -1, id |-> 0]   \* a null cursor: there is nothing after it
Top     == [at |-> MaxTime + 1, id |-> 0]

Exists(s) == rows[s].is \in {"running", "ended"}

Init ==
  /\ rows \in [Session -> [is : {"none", "running", "ended"}, at : {0}, archived : {FALSE}]]
  /\ time   = 0
  /\ moves  = 0
  /\ wire   = {}
  /\ live   = {}
  /\ data   = [rows |-> {}, cursor |-> Drained]
  /\ load   = NoLoad
  /\ extra  = {}
  /\ cursor = Drained
  /\ page   = NoPage
  /\ busy   = NoCall
  /\ owed   = {}
  /\ away   = {}
  /\ put    = {}
  /\ echoed = {}
  /\ skewed = FALSE

-----------------------------------------------------------------------------
(* The registry.  Sessions updated by one statement share their time. *)

\* Session s changes: a load's list owes it no more.
Moves(s) ==
  /\ moves < MaxMoves /\ moves' = moves + 1
  /\ owed' = owed \ {s}
  /\ load' = IF load = NoLoad THEN load ELSE [load EXCEPT !.owed = @ \ {s}]

\* What stamps a row: a session that goes on leaves the shelf.  A frame tells the tab;
\* one that is lost is one that does not arrive.
Stamp(s, is) ==
  /\ Moves(s)
  /\ time' \in {time, time + 1} /\ time' <= MaxTime
  /\ rows' = [rows EXCEPT ![s] = [is |-> is, at |-> time',
                                 archived |-> @.archived /\ is = "ended"]]
  /\ wire' = wire \cup {s}
  /\ IF is = "running" THEN away' = away \ {s} /\ put' = put \ {s}
                       ELSE UNCHANGED <<away, put>>

\* createSession
Begins(s) ==
  /\ rows[s].is = "none"
  /\ Stamp(s, "running")
  /\ UNCHANGED <<live, data, pager, busy, echoed, skewed>>

\* setStatus, markEnded, and what leaves the status: setSealedMeta, setSealedTitle.
Updates(s) ==
  /\ Exists(s)
  /\ \E is \in {"running", "ended"} : Stamp(s, is)
  /\ UNCHANGED <<live, data, pager, busy, echoed, skewed>>

\* setArchived leaves the time as it is.
Shelved(s, shelf) ==
  /\ rows[s].is = "ended"
  /\ rows' = [rows EXCEPT ![s].archived = shelf]
  /\ Moves(s)

\* deleteSession
Deleted(s) ==
  /\ rows[s].is = "ended"
  /\ rows' = [rows EXCEPT ![s].is = "deleted"]
  /\ Moves(s)

\* The same by another tab, or by this one's archived view.
ElseArchives(s) ==
  /\ ~rows[s].archived
  /\ Shelved(s, TRUE)
  /\ UNCHANGED <<time, wire, live, data, pager, busy, away, put, echoed, skewed>>

Restores(s) ==
  /\ rows[s].archived
  /\ Shelved(s, FALSE)
  /\ away' = away \ {s} /\ put' = put \ {s}
  /\ UNCHANGED <<time, wire, live, data, pager, busy, echoed, skewed>>

ElseDeletes(s) ==
  /\ Deleted(s)
  /\ UNCHANGED <<time, wire, live, data, pager, busy, away, put, echoed, skewed>>

-----------------------------------------------------------------------------
(* The paged read: ended rows by descending (updated_at, id). *)

KeyOf(s) == [at |-> rows[s].at, id |-> s]

After(k, c) == k.at < c.at \/ (k.at = c.at /\ k.id < c.id)

\* Mutant: the time alone is the key.
BehindInTime(s, c) == KeyOf(s).at < c.at

\* afterCursor
Behind(s, c) == After(KeyOf(s), c)

Listed(s) == rows[s].is = "ended" /\ ~rows[s].archived

\* Mutant: a full page is taken for the last one.
Cut(after, last) == IF Cardinality(after) > PageSize + 1 THEN KeyOf(last) ELSE Drained

\* listPage's limit: one row more than the page decides whether there is a cursor.
NextCursor(after, last) == IF Cardinality(after) > PageSize THEN KeyOf(last) ELSE Drained

\* listPage's paged read: what is behind cursor c.
ReadPage(c) ==
  LET after  == {s \in Session : Listed(s) /\ Behind(s, c)}
      served == {s \in after : Cardinality({t \in after : After(KeyOf(s), KeyOf(t))}) < PageSize}
      last   == CHOOSE s \in served : \A t \in served : t = s \/ After(KeyOf(s), KeyOf(t))
  IN  [rows |-> served, cursor |-> NextCursor(after, last)]

\* listPage's second read, of a first page only: the sessions that go on.
Active == {s \in Session : rows[s].is = "running"}

-----------------------------------------------------------------------------
(* The tab: loads and pages. *)

\* The load of +layout.server.ts: the relay reads the first page, and then what goes on
\* (two statements, each of them sees what is committed).  A load that a newer one
\* replaces is not told from one not answered yet.
LoadReads ==
  /\ load = NoLoad
  /\ load' = [at |-> "half", rows |-> ReadPage(Top).rows, cursor |-> ReadPage(Top).cursor,
              put |-> put, owed |-> {s \in Session : Listed(s)} \cup Active]
  /\ UNCHANGED <<relay, wire, live, data, pager, busy, past>>

LoadServed ==
  /\ load.at = "half"
  /\ load' = [load EXCEPT !.at = "served", !.rows = @ \cup Active]
  /\ UNCHANGED <<relay, wire, live, data, pager, busy, past>>

\* Mutant: pages of an earlier load stay.
ResetKeepsRows(c) == cursor' = c /\ UNCHANGED extra

\* pager.reset.  A page that is asked for already is not called off.
Reset(c) == cursor' = c /\ extra' = {}

\* The load arrives: its rows, or with the relay out of reach none and an error.
LoadArrives ==
  /\ load.at = "served"
  /\ \/ /\ data' = [rows |-> load.rows, cursor |-> load.cursor]
        /\ Reset(load.cursor)
        /\ owed' = load.owed
        /\ away' = away \cup (load.put \cap put)
     \/ /\ data' = [rows |-> {}, cursor |-> Drained]
        /\ Reset(Drained)
        /\ owed' = {}
        /\ UNCHANGED away
  /\ load'   = NoLoad
  /\ page'   = IF page = NoPage THEN page ELSE [page EXCEPT !.late = TRUE]
  /\ skewed' = FALSE
  /\ UNCHANGED <<relay, wire, live, busy, put, echoed>>

\* loadMore, one page at a time.
LoadMore ==
  /\ cursor # Drained /\ page = NoPage
  /\ page' = [at |-> "asked", from |-> cursor, late |-> FALSE]
  /\ UNCHANGED <<relay, wire, live, data, load, extra, cursor, busy, past>>

PageServed ==
  /\ page.at = "asked"
  /\ page' = [at |-> "served", late |-> page.late,
              rows |-> ReadPage(page.from).rows, cursor |-> ReadPage(page.from).cursor]
  /\ UNCHANGED <<relay, wire, live, data, load, extra, cursor, busy, past>>

PageArrives ==
  /\ page.at = "served"
  /\ extra'  = extra \cup page.rows
  /\ cursor' = page.cursor
  /\ page'   = NoPage
  /\ skewed' = (skewed \/ page.late)
  /\ UNCHANGED <<relay, wire, live, data, load, busy, owed, away, put, echoed>>

\* The cursor stays for a retry.
PageFails ==
  /\ page.at = "asked"
  /\ page' = NoPage
  /\ UNCHANGED <<relay, wire, live, data, load, extra, cursor, busy, past>>

\* foldSessionFrame: a session's first frame makes it live.
FrameArrives(s) ==
  /\ s \in wire
  /\ live' = live \cup {s}
  /\ wire' = wire \ {s}
  /\ echoed' = IF s \in put THEN echoed \cup {s} ELSE echoed
  /\ UNCHANGED <<relay, data, load, pager, busy, owed, away, put, skewed>>

-----------------------------------------------------------------------------
(* The tab: archive and delete. *)

\* archiveSession, deleteSessionForever: the relay has done it, or refuses what goes on
\* and what is gone.
PutAway(s) ==
  /\ busy = NoCall
  /\ \E kind \in {"archive", "delete"} :
          /\ IF kind = "archive" THEN Shelved(s, TRUE) ELSE Deleted(s)
          /\ busy' = [kind |-> kind, of |-> s]
  /\ UNCHANGED <<time, wire, live, data, pager, away, put, echoed, skewed>>

\* Mutant: the live state stays behind.
ForgetsRow(s) == UNCHANGED live

\* forgetSession.
Forgets(s) == live' = live \ {s}

Away(s) == rows[s].archived \/ rows[s].is = "deleted"

\* The answer is here, and the load it is followed by is under way (LoadReads).  The
\* page of an archived session is left for the board, which is mounted anew; one
\* deletes from the board.
PutAwayDone ==
  /\ busy # NoCall
  /\ Forgets(busy.of)
  /\ put'    = IF Away(busy.of) THEN put \cup {busy.of} ELSE put
  /\ echoed' = echoed \ {busy.of}
  /\ busy'   = NoCall
  /\ load'   = NoLoad
  /\ IF busy.kind = "archive"
     THEN extra' = {} /\ page' = NoPage /\ cursor' = data.cursor
     ELSE UNCHANGED <<extra, page, cursor>>
  /\ UNCHANGED <<relay, wire, data, owed, away, skewed>>

\* buildSessionRows over appendSessionRows: registry rows, and a row for each session
\* that is only live.
Shown == data.rows \cup extra \cup live

-----------------------------------------------------------------------------
Next ==
  \/ \E s \in Session :
       \/ Begins(s) \/ Updates(s) \/ ElseArchives(s) \/ Restores(s) \/ ElseDeletes(s)
       \/ FrameArrives(s) \/ PutAway(s)
  \/ LoadReads \/ LoadServed \/ LoadArrives \/ LoadMore \/ PageServed \/ PageArrives \/ PageFails
  \/ PutAwayDone

Spec == Init /\ [][Next]_vars

-----------------------------------------------------------------------------
(* Properties *)

\* A session's place in the ended list, the end of the list (Drained) or its top.
Key == [at : -1 .. MaxTime + 1, id : Nat]

Row == [is : {"none", "running", "ended", "deleted"}, at : 0 .. MaxTime, archived : BOOLEAN]

\* Every variable stays in its domain.
RegistryOK ==
  /\ rows \in [Session -> Row]
  /\ time \in 0 .. MaxTime /\ moves \in 0 .. MaxMoves
TabOK ==
  /\ wire \subseteq Session /\ live \subseteq Session /\ extra \subseteq Session
  /\ data \in [rows : SUBSET Session, cursor : Key] /\ cursor \in Key
  /\ busy = NoCall \/ busy \in [kind : {"archive", "delete"}, of : Session]
LoadOK ==
  \/ load = NoLoad
  \/ load \in [at : {"half", "served"}, rows : SUBSET Session, cursor : Key,
               put : SUBSET Session, owed : SUBSET Session]
PageOK ==
  \/ page = NoPage
  \/ page \in [at : {"asked"}, from : Key, late : BOOLEAN]
  \/ page \in [at : {"served"}, late : BOOLEAN, rows : SUBSET Session, cursor : Key]
PastOK ==
  /\ owed \subseteq Session /\ away \subseteq Session
  /\ put \subseteq Session /\ echoed \subseteq Session /\ skewed \in BOOLEAN
TypeOK == RegistryOK /\ TabOK /\ LoadOK /\ PageOK /\ PastOK

\* The list has no gap: a session that nothing has happened to since the last load was
\* asked for is shown, or has ended and is one of those the next page starts from.  Only
\* a page asked for before the load and appended after it can leave one out.
ListHasNoGap ==
  skewed \/ \A s \in owed :
    s \in Shown \/ (rows[s].is = "ended" /\ cursor # Drained /\ After(KeyOf(s), cursor))

\* A session this tab archived or deleted does not come back to its board, unless a
\* frame was still to come, a page was, or it was restored.
PutAwayStaysAway ==
  \A s \in away : s \in Shown => s \in echoed \/ skewed
=============================================================================
