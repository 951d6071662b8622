# telecode, specified

TLA+ specifications of [telecode](../src/README.md): a daemon on the user's machine runs
Claude Code agents, browsers watch and steer them, and a relay forwards frames between
the two. Every definition is translated from the code under `src/`; `PROJECT.json` maps
each one to the lines it stands for. Paths below are relative to `src/`.

    tlc -workers 2 -config MCSessionGate.cfg MCSessionGate     # a run
    tlapm SessionGateProofs.tla                                # the proofs

## 1. Inventory

### 1.1 Components, their state and operations

| Component | Where | State | Operations |
| --- | --- | --- | --- |
| Launched sessions | `packages/daemon/src/daemon.ts` | `sessionRecords`, `activeRuns`, `sessionAborts`, `endedSessions`, `pendingPermissions`, `pendingQuestions` | `session.launch`, `user.message`, `canUseTool`, `permission.decision`, `question.answer`, interrupt, end, gate timers, `stop` |
| Adopted sessions | `daemon.ts`, `adopt/hook-socket.ts` | records with source "adopted", `pendingHandovers`, held hook connections | the hook events PreToolUse, UserPromptSubmit, Stop, SessionStart, SessionEnd; `handover.answer`, `session.resume_new` |
| Adoption | `adopt/adopted-sessions.ts`, `daemon.ts`, `apps/relay/src/relay.ts` | `byClaudeId`, waiters, the relay's rows | announce, ACK, timeout, restore |
| Continuations | `daemon.ts` (`runResumeNew`, `registerChained`) | child records, waiters by request | mint, inherit, cut a worktree, launch, fail |
| Worktrees and branches | `sessions/worktree-manager.ts`, `branch-switcher.ts`, `branch-push.ts`, `workspace-reaper.ts` | git's worktrees and branches | cut, switch, push, reap |
| Session metadata | `daemon.ts`, `adopt/git-branch.ts` | branch and derived title of a record | read, emit, refine, backfill |
| Transcript mirror | `adopt/transcript-mirror.ts` | byte offset in Claude Code's log, transcript | `sync`, record, persist |
| Session store | `sessions/session-store.ts` | queue of snapshots, files | `save`, `flush`, `remove`, `loadAll` |
| Daemon link | `daemon.ts` | current socket, inbound chain, `isRemoteViewerOnline` | dial, ack, redial with backoff, heartbeat, `session.reconcile` |
| Daemon process | `main.ts`, `pairing.ts`, `pair-and-save.ts`, `single-instance-lock.ts`, `service/` | lock file, credentials, login service | start, pair, repair and relaunch, install, signals |
| Relay channels | `apps/relay/src/relay.ts` | `daemons`, `browsers`, peers | hello, presence frames, close |
| Relay rows and routing | `relay.ts`, `registry/session-registry.ts`, `session-routes.ts` | Postgres `sessions` | create, setStatus, markRunning, markEnded, archive, delete, reconcile, list, forward |
| Relay cache | `relay.ts` | rings of ciphertext frames | cache, replay, evict |
| Device authorisation | `device-auth.ts`, `registry/device-registry.ts` | pending codes, device rows | start, poll, approve, expire, revoke, restore |
| Browser session | `apps/web/src/lib/session.ts`, `session-store.ts`, `relay-client.ts` | reducer, in-flight actions, ledger of asks, keys, send chain | frames, verdicts, timeouts, redial, key recovery |
| Browser list | `routes/(app)/+page.svelte`, `housekeeping.ts`, `session-pager.svelte.ts`, `session-title.ts`, `session-meta.ts` | loaded rows, pages, live map, labels | load, load more, archive, delete, rename |

Sign-in, push, rate limits, the infrastructure scaler, service files, the doctor, the
encryption primitives, the wire schemas and the rest of the user interface complete the
system; section 5 says why they are not modelled.

### 1.2 Interactions

Daemon and browsers dial out to the relay. The relay handles the frames of one socket in
order, and handlers of different sockets interleave wherever they await the database or a
token check. The daemon handles the frames of one socket one at a time too, but a redial
begins a second chain beside the first, and agent runs, continuations, hook connections,
timers, git and file operations proceed beside both; each program is one Node process, so
nothing interleaves between two awaits. Claude Code calls the daemon through a local
socket and blocks on the answer. Frames are lost with their socket, in both directions;
nothing is retransmitted, so what one side believes of the other is repaired only by what
is said on the next connection, or by what the relay kept: the rows and the cache.

### 1.3 What is hard, and what makes each part correct

* **Gates.** Timers, two tabs, interrupts and the end of a run race to settle a call; a
  gate is registered after an await. Correct: no tool runs unapproved, a call is
  answered once, and the transcript shows the answer that was given.
* **Turns.** Follow-ups race turns and ends race launches. Correct: one turn at a time,
  and an ended session starts none.
* **Worktrees.** Guards look, then git is awaited, while turns start beside them.
  Correct: a worktree moves between turns only, and a deleted session leaves none.
* **Channels.** Hellos await a token check, sockets close late, a daemon redials before
  the relay has noticed. Correct: a close removes its own entry only, tabs see who is
  there, the daemon knows whether anybody watches.
* **Rows.** They are written at each end's word, which can be lost, overtaken or crossed.
  Correct: a row disagrees with the daemon only for as long as that explains it.
* **Views.** A tab is fed by live frames, a cache's replay and a history, over sockets
  that die, through keys it may lack. Correct: it shows no verdict nobody gave, and ends
  up showing what the daemon holds.
* **Lists and labels.** Pages, loads, frames and other tabs meet. Correct: nothing is left
  out, nothing put away comes back, and the last word on a name or a branch shows.
* **Store.** Saves coalesce during writes, reaps race writes, processes die between file
  operations. Correct: the newest save wins, and a reaped session leaves nothing behind.
* **Adoption, hooks and handover.** Handlers overlap, terminals are escaped, offers go
  stale, mints fail. Correct: an event is tied to its own session's card and always
  answered, offers shown can be answered, a live terminal is not taken over.
* **Devices.** Approvals, expiry, polls and crashes race. Correct: a code makes one
  device, a re-pairing keeps it, a revoked one is cut off, and the service comes back.

The hazards, each at its line and with the properties that watch it, are in
`PROJECT.json`.

## 2. Modules

| Module | Models | A step is |
| --- | --- | --- |
| `SessionGate` | launched sessions of a daemon | the code between two awaits |
| `ApprovalGate` | what the gate promises: a call is opened, voted on, granted only on a vote or a policy, refused otherwise, and then final | |
| `AdoptedSession` | one adopted session's life | a handler, cut at the mirror, the diff, the human and the mint |
| `Adoption` | binding a Claude session to a card | a hook event, a frame, a timer |
| `Workspaces` | worktrees, the requests that touch them, continuations, and the tab's ledger of asks | a handler, cut at each git call |
| `SessionStore` | store, exports, reap and the disk | a file operation, or the code around it |
| `TranscriptMirror` | mirror of a growing log | a file operation |
| `SessionMeta` | branch and derived title, from the daemon to a tab | a handler, cut at git, the database and the opening of a seal |
| `SessionTitle` | the user's name for a session, among tabs | a handler, a request at each of its ends |
| `RelayChannel` | sockets, hellos, presence, viewers | a handler, cut at the token check |
| `RelayRegistry` | rows, routing and reconcile against what the daemon holds | a handler, cut at each database call |
| `SessionView` | one tab's view of a session's ask: reducer, client, cache, routing, keys | a frame taken, a handler, cut at awaits |
| `SessionBoard` | the paged list of sessions of a tab | a request at each of its ends |
| `DeviceAuth` | codes and device rows | a handler, cut at each database call |
| `LinkHealth` | one client's link, the daemon's or a tab's: dial, redial, heartbeat, and the relay's cap, sweep and age limit | a frame, a timer, an event of a socket |
| `DaemonProcess` | extends `DeviceAuth` with the processes of one machine | the code between two awaits |

The theorems are in `SessionGateProofs`, `WorkspacesProofs`, `AdoptedSessionProofs`,
`SessionViewProofs`, `RelayProofs` (of `RelayChannel` and `RelayRegistry`),
`DaemonLocalProofs` (of `SessionStore`, `Adoption`, `TranscriptMirror` and `LinkHealth`),
`DaemonProcessProofs` (of `DeviceAuth` and of `DaemonProcess` over it) and
`SessionListProofs` (of `SessionBoard`, `SessionTitle` and `SessionMeta`).

The `MC` modules fix small instances. `MCRelay`, `MCDaemonLocal`, `MCSessionList` and
`MCSessionView` check two to four components that share no state in one run: each
behaviour is about one of them and the others rest. `MCSessionGate`, `MCWorkspaces` and
`MCAdoptedSession` check two instances of one component in the same way: a behaviour has
the sessions, turns, links or faults of the one or of the other, and a conjunct of
`NextOfEither` says which it goes without. Operators that a comment calls a mutant are
plausible mistakes that no specification uses; substituting one for the definition it
follows must make a run fail, which is how each property is known to bite.

### How state and actions correspond to the code

**SessionGate.** `status`, `active`, `runs`, `aborted`, `conv`, `ended` are the record's
status, `activeRuns`, the runs of the adapter, their fired `AbortController`s, the keys of
`sdkSessions` and `endedSessions`. A call moves through `phase`: `diffing` is the await on
`gateDiffStat`, `pending` its entry in a pending map. `StopTurn` is `stopTurn`, which
`Interrupt` and `End` call. `sent` is what operators put on the wire: two tabs may send two
decisions for one gate. The refinement maps a call's phase and reply to `ApprovalGate`'s
new, open, granted, refused.

**RelayChannel.** `conn` is a socket's life at the relay, `alive` its client end, `gone`
the close event. `hello` is the await on the token check, during which the socket may
close; `SocketCloses` then has nothing to undo, as in the code. A daemon's socket keeps
the frames it received when it is replaced (`toDaemon` outlives it), as the code's
per-socket chain does.

**RelayRegistry.** `inbox` holds the daemon's frames in the relay's chain, `job` what a
tab's or the daemon's handler holds across an await, `held` the daemon's own view. History
variable `lagging` marks a session whose row is excused: a word on it was lost with the
link, crossed another, or the daemon did not say one; the daemon's next word clears it.
The status `waiting_local` of adopted sessions is left out, and done, error and turn_limit,
which nothing there tells apart, are one status `over`.

**SessionStore.** A record's content is its version. `flush` is the loop of `flush`: make
the directory, open and truncate, write, look for a newer snapshot. `exporting` is
`persistSession` awaiting the session's key. `Dies` may fall anywhere.

**TranscriptMirror.** The log is the sequence of the bytes at which its lines end, so a
write can end inside a line. `sync` is stat, read, close; two handlers share `offset`.

**Adoption.** An announce and the row that the relay mints for it are one `Card`. `stage`
follows it over the wire and back; either leg is lost with the link.

**AdoptedSession.** `terminal` is Claude Code (external: modelled by the events it sends).
`hook[h]` is where a handler is. `offer` is what the transcript shows of each takeover
offer, `offered` the `pendingHandovers` map. `live` tells handlers Claude Code still waits
for from those an escape left behind. `filed` and `dirty` abstract `SessionStore`: a
persist writes the record as it is when it runs.

**Workspaces.** `rec` is a record's status, worktree and branch; `turn` is `activeRuns`,
with the socket the message came by; `opening` is a follow-up that a chain took and that
is still being decrypted: `handleFrame` does not wait for `runFollowUp`, so the chain goes
on to the next request, and the turn begins whenever the decryption ends. `making` is a
launch or continuation under way, with how far its worktree is. `LateGate` is the
settlement of a gate that its turn left behind, which sets the status whatever it is
(`SessionGate` has the gate itself). `queue` and `job` are one socket's `inboundChain` and
what its head waits for git with, `opens` whether that chain had a follow-up of the
session to decrypt when the request was guarded; a redial adds a socket with its own.
`head` and `branches` are git's. `pending` and `timers` are the tab's ledger: an ask's
number is history, the code matches by session and kind alone.

**SessionMeta, SessionTitle.** A seal is transparent (the tab holds the key), but opening
one is an await of its own. `frames` is what a socket still has to route, `stored` a frame
written to the row and not yet broadcast. `patch` is one tab's PATCH on its way there and
back, `inbox` the title frames on their way to a tab.

**SessionView.** `up`, `down` are one connection's frames, `chain` the client's
`sendChain`, `marking` the relay's handler at its await of `markRunning`, `cache` the key
slot and the ring. `view.shown[a]` is the set of faces an ask has on the screen, because a
replay appends. `key` is whether the tab can open what it is sent.

**SessionBoard.** `rows` is the registry with coarse times, so that rows tie. `load` and
`page` are reads on their way to the tab, `extra` and `cursor` the pager, `live` the
session map that frames fill. `owed`, `away`, `put` are what the properties promise.

**LinkHealth.** `near` and `far` are the two ends of a connection, `flight` what is under
way on it (frames of a kind are one: a second ping adds nothing). A path may die without a
close (`whole`). `saw`, `silent` and `heard`, `quiet` are the two sides' marks and counts;
both wake every 30 s, so their rounds alternate.

**DeviceAuth, DaemonProcess.** `grant[c]` is a code's record and where its bind stands; a
token is named by the code and the attempt that minted it, a device by its first token.
`pc` is where a process is, `mem` what its daemon was built with, `creds` the file,
`unit` the login service, which starts its process again whenever it is gone.

## 3. Runs

All finish within five minutes with two workers.

| Run | Shows | Instance | Distinct states |
| --- | --- | --- | --- |
| `gate` | safety and liveness of launched sessions, refinement of `ApprovalGate`; an interrupt hits its own run's gates | 2 calls: of 1 session with 2 turns, or of 2 sessions with a turn each | 1,040,939 |
| `relay` | presence converges, closes are local; rows agree with the daemon unless excused | 2 daemon sockets, 2 tabs, 2 frames; 1 session, 2 links, 1 tab, 1 frame each way | 1,410,686 |
| `local` | an event gets its own session's card, and is answered; the newest save survives, a reap leaves a trace only if it raced; the transcript is the log while syncs do not overlap; a link that dies comes back, a healthy one stays | 2 Claude sessions, 2 handlers, 3 announces, 1 restart; 1 session, 8 versions, 2 exports; 3 lines, 2 handlers, 1 restart; 2 connections, cap of 1, 2 silent rounds, 3 faults | 414,692 |
| `adopted` | offers, gates, takeovers and revivals, offers over a restart | 1 mint, 2 offers; 2 handlers and 1 escape, or 1 handler and 1 restart | 2,878,510 |
| `devices` | codes, re-pairings, revocation, and a service that comes back | 2 users, 2 codes, 2 tries, 1 fault | 389,635 |
| `view` | a tab's ask: no invented verdict, no lost transcript, convergence; every hook of a terminal session is answered | 1 ask, ring of 1, 1 heal, 1 vote, 2 events; 1 handler, 1 mint, 2 offers, 1 restart | 1,516,154 |
| `workspaces` | worktrees move between turns, deletes strand nothing, asks get their own verdicts, what reads as running is explained | 2 requests: session and continuation on 1 link, or 1 session on 2 links | 3,687,644 |
| `list` | the list has no gap and nothing returns; names and branches show | 3 sessions, pages of 1, 2 moves; 2 tabs, 3 renames; 2 reads, 2 events | 1,861,180 |
| `reaps_own_branch` | violated | 1 link | |
| `branch_lingers` | violated | 1 read, 2 events | |
| `first_dial_strands` | violated | 2 connections, 1 fault | |
| `moves_mid_turn` | violated | 1 session, 1 link, 1 request | |

The four violations are items 1, 5, 37 and 41 of section 6.

**Why the bounds suffice.** Two calls are what it takes for two gates of a turn to be
pending together, or for a late one to cross a new turn's; two turns for a follow-up and a
racing one. The pending maps are shared between sessions: half of `gate`'s behaviours have
two, each with a turn and a call that one tab decides, and the theorems `InterruptScope`
and `InterruptsHit` hold for any number. Two codes are enough for `ServiceComesBack`: they
are a pairing and a re-pairing, and once both are used the property excuses (`OutOfCodes`)
only a process that asks for a third, so a repair that fails, and a repaired daemon that
is rejected again, have to end well within the bound. One follow-up of a session is
decrypted at a time: a second finds the turn of the first, or none. A redial and a
continuation are checked apart (together they are out of reach); the theorems of section 4
have them together. A reconnect has an old socket and a new one: closed and forgotten
sockets are dialled again, so any number of reconnects happens, two at a time. One frame
in flight each way already lets the daemon's words cross the tabs'. Two overlapping
handlers are all the mirror and the adoption code distinguish; a third shares its waiter
or its offset with the second. Eight versions let a record be made, changed during each
write of a flush, reaped and made again. One ask per view is enough because the reducer
treats each request id apart; a ring of one frame makes every later frame an eviction.
Three sessions and pages of one are the least at which a page can lie between two others.
Two requests are an ask and the one it is confused with.

Larger instances were run by hand with the same verdicts: `RelayRegistry` with two frames
in flight (6.8 million states), `SessionBoard` with three sessions and three moves (14
million), `SessionMeta` with three events (2.7 million), `DaemonProcess` with three codes
(1.8 million with one user and one try), `SessionView` with its larger bounds (25
million). The inductive invariants of section 4 were checked as invariants of such
instances before they were proved. Counters that would grow for ever are bounded in the
guards by a constant whose declaration says "bound".

**Deadlock** is checked in `relay` and `adopted`, whose systems never stop. The others'
configurations turn the check off: turns, calls, versions, requests and faults are used
up, a settled view comes to rest, and a machine may be left switched off.

**Symmetry.** Sessions, calls, sockets, tabs and handlers are interchangeable model
values; no run that checks a liveness property uses it.

**Fairness.** Assumed only where the code schedules the step itself. `SessionGate`: file
reads return and armed timers fire. `Adoption`: the ACK timer fires. `AdoptedSession`: a
handler's file reads end and gate timers fire. `DaemonProcess`: a process that is alive
goes on (asks, polls, saves, dials, redials), the relay ages connections out, an empty
event loop exits, and the operating system starts a loaded service; users, crashes and the
network owe nothing, and a bounded number of faults is what makes "comes back" mean
anything. `SessionView`: programs handle the frames that reach them, a dead link is
noticed and dialled again. `LinkHealth`: timers fire, connections open, and a whole path
delivers; what dies or is refused is bounded. Operators, tabs and the agent's process owe
nothing. With `gateTimeoutMs = 0` (`TimeoutArmed = FALSE`) a call may wait for ever, and
the liveness properties do not hold; nor are they claimed.

**Excuses.** Several properties hold but for a case the code leaves open, and say so in a
conjunct (`lagging`, `raced`, `overlapped`, `excuses`, `misled`, `outlived`, `answering`,
`crossed`, `skewed`, `late`, `elsewhere`, `opens`, `astray`, `undone`, `unheard`,
`missed`, `doubt`, `torn`). Section 6 tells what those cases are; the history variable
(for `opens`, a field of the job) only records that one occurred and no action reads it.

## 4. Proofs

All theorems hold for every value of the constants that satisfies the module's named
ASSUME. `TypeCorrect` (`[]TypeOK`) is proved in each of the modules below that has a type
invariant of its own; the others:

| Module | Theorem | States |
| --- | --- | --- |
| `SessionGateProofs` | `NoToolUnapproved` | no tool runs without the operator's allow or the mode's |
| | `TranscriptIsHonest` | a transcript shows the verdict the agent was given |
| | `OneTurn` | one turn in flight, and the abort handle is its own |
| | `SettlesOnce` | a reply is final |
| | `OnlyDiffedOutlive` | only a file edit's gate can be pending for an aborted run |
| | `EndedIsTerminal` | an ended session starts no turn but its overtaken launch's |
| | `InterruptScope` | an interrupt settles its session's gates, all of them, and no others |
| | `InterruptsHit` | over any history, a call is refused as interrupted only if its own run was aborted or is over, and an aborted run leaves no gate open but a late edit's |
| | `Refinement` | `Spec => ApprovalGate!Spec` under the mapping `CallState` |
| | `RevivedByTurnOrGate` | an ended session lives again by a turn or by a late gate only |
| `WorkspacesProofs` | `BetweenTurns` | a worktree is pushed, moved or removed between turns, but for a turn of another socket's message or of one still being decrypted |
| | `Attended` | a running session has a turn or a cut under way, or a gate its ended turn left set it so |
| | `NothingStranded` | a delete with a reap leaves no worktree |
| | `OwnEnds` | an ask of a tab ends by its own verdict |
| `AdoptedSessionProofs` | `OneOffer` | one takeover offer is shown, answered and continued at a time |
| | `GatesDoNotStack` | a gate and an offer are not shown together |
| | `AsksCanBeAnswered` | a session that awaits input has something to answer |
| | `TurnsAreSpared` | a takeover that finds the terminal at work leaves it alone |
| | `DoneIsDone` | what is done stays done, but for a gate |
| `DaemonLocalProofs` | `NewestKept` | the newest save is in the file or queued |
| | `ReapedForGood` | a reap that meets nothing in flight leaves no trace |
| | `EachItsCard` | a hook event goes on with its own session's card, and there is one |
| | `LogIsMirrored` | the transcript is the log, as long as syncs do not overlap |
| | `LinkOutlivesSlowAnswers` | silence takes a working link down only after as many late answers in a row as are tolerated |
| `DaemonProcessProofs` | `OneDevice`, `OneDevicePerApproval` | one code makes one device, by the relay alone and with the machine that pairs |
| | `OwnersRestore`, `MachinesRestoreTheirOwn` | a device keeps its owner, and changes its token only by its owner's approval while revoked |
| | `PairingKeeps` | a machine that pairs again keeps its device |
| `RelayProofs` | `TabsToldTheTruth` | a tab that read its frames shows the map |
| | `ViewersKnown` | a daemon that read its frames knows whether anybody watches |
| | `OnlyLateGhosts` | only a hello still being checked leaves a ghost |
| | `ClosesAreLocal` | a close unregisters nobody else |
| | `ArchivedIsEnded` | a row is archived only while it is ended |
| | `RowsAgree` | with nothing on its way, a row says what its daemon does |
| `SessionListProofs` | `NothingLeftOut` | no session is left out between a load and its pages |
| | `StaysPutAway` | what was archived or deleted stays off the board |
| | `NameIsShown` | a tab that hears of a rename shows the row's name, unless a load brings back the one a reset took |
| | `LabelsAgreed` | daemon, row and tab agree on branch and title, and the branch is the terminal's |
| `SessionViewProofs` | `VerdictsAreGiven` | a tab shows no verdict that nobody gave |
| | `NothingShownIsLost` | nothing takes an ask off a tab that shows it |

Each rests on one inductive invariant, preserved by one lemma per conjunct or per action.

* **SessionGate.** `TypeOK /\ LaunchFirst /\ OneTurnAtATime /\ CallShape /\
  NoUnapprovedTool /\ TranscriptTellsTheReply`. `LaunchFirst` (nothing of a session exists
  before its launch is past the workspace) is what makes the first turn the only one:
  without it `LaunchReady` could meet a turn in flight. `CallShape` (a call has an owner
  once made and a reply once settled; only an edit is ever diffing; only asked calls are
  voted on) keeps the next two inductive: a vote cannot be waiting for a call made later.
* **Workspaces.** `TypeOK /\ OwnTrees /\ ReapedAreTreeless /\ OpeningIsSeen /\
  RunningIsAttended /\ MovesBetweenTurns`. `OpeningIsSeen`: a chain that waits for git has
  no follow-up of that session to decrypt but one its request saw (`opens`), for it takes
  no frame meanwhile. `OwnTrees`: git is only ever asked about a session that was made and
  has its own worktree. `ReapedAreTreeless`: whatever a reap answers with ok, and what is
  deleted after it, has lost its worktree for good; it carries a fact about git across a
  verdict's way to the tab. The ledger has an invariant of its own, `AInv`: a request is
  in one place, its number is fresh, what is on its way is the pending ask or is over, and
  a timer is a pending ask's. The proof showed that from three asks on the history of late
  verdicts has to outlive the ask it was late for, which no instance of two asks could.
* **AdoptedSession.** `TypeOK` with `OneShown`, `GivenUp` and `Counted` (an offer that is
  shown, held or being minted is one and the latest), `Waited` and `NothingStacks` (which
  handlers hold a gate beside which offer), and `WaitsBetweenTurns`.
* **SessionStore.** `TypeOK /\ Held /\ Fresh /\ Queued /\ Forgotten /\ NewestSurvives`:
  what a process that is down, or a session never made, cannot have; that what is queued
  is the newest, and stays queued until its write ends; that a session which a reap forgot
  without a race never moves again.
* **Adoption.** `AdoptionTypeOK /\ Unannounced /\ OwnBindings /\ HookHasItsCard /\
  Excused`: bindings and waiters are of the session that announced, and the cards of a
  session are counted against what excuses each further one.
* **TranscriptMirror.** `LogInv`: while syncs do not overlap, one of them follows the log:
  the offset is the end of a line, a read under way began there, and the transcript with
  what the sync brought is the log up to it. `LinesJoin` and `LastLineEnd` say how pieces
  of a log that are cut at line ends fit together, for any log.
* **LinkHealth.** `LinkTypeOK /\ OneNear /\ Rounds /\ Shaking /\ Answering /\ Hearing`: a
  link that works always has something on its way until it is acknowledged, and whenever a
  side has heard nothing since its last round; so a round that finds silence is a late one,
  and neither side's count gets ahead of the late rounds by more than the probe under way.
* **RelayChannel.** `TypeOK /\ OnlyPeers /\ LastWordToTheDaemon /\ TabsShowTheMap`: the
  maps hold open sockets or ghosts only, and the last presence frame on its way says what
  the maps say.
* **RelayRegistry.** For the CHECK of migration 0011 the table's domain and
  `ShelvedIsEnded`; the proof shows that no write of the code runs into it. For the rows'
  agreement `RInv`, about one session at a time: it has a row if the daemon holds it, one
  launch, and at any moment the row's value or the last word under way about it (a frame,
  a handler's job, a list) says what the daemon holds, or it is `lagging`; and numbers of
  calls are fresh per connection.
* **SessionBoard.** `TypeOK /\ Unmoved /\ Loads /\ Pages /\ Gone`: a row owed to the board
  has not moved since its load, and lies in the loaded page, in an appended one or behind
  the cursor; the lemma `PageLeavesNoGap` says that a page is a convex piece of the order,
  for any page size and any ties.
* **SessionTitle.** `TInv`: one tab renames at a time unless renames raced, a rename that
  is saved is the row's, a tab that is not connected has no frames, and what a tab shows
  once its frames and its load are taken is the row's name (`HeardIsShown`).
* **SessionMeta.** `MInv`, in three parts. The branch: a read that is current found the
  terminal's branch, and the file has the daemon's. The wire: the daemon's last word is
  the last frame on its way, and the row once none is; a frame that is stored heads its
  socket. The copies: between a broadcast and the next row, cache and tab have what the
  row has. The last two speak of the moments between two awaits of the relay, which the
  property does not.
* **SessionView.** `VInv == Honest /\ MarksAVerdict /\ InOrder`: whatever is on its way,
  cached or shown was asked, and was allowed by somebody if it reads so; the relay marks
  the verdict at the head of its queue; and a history that does not know of an ask is ahead
  of everything that shows it, which is why it cannot wipe it.
* **DeviceAuth, DaemonProcess.** `AuthTypeOK /\ TriesCount /\ Binds`: a bind in flight has
  a token that no row carries, and a code that is unbound and without doubt has made no
  device. Over it `FInv`: no two rows share a token, a restore is of a row that is there;
  one process at a time is past the lock, and the credentials in the file, in its memory
  and in its request are those of the device it pairs for.

Every safety and action property that a run expects to hold is a theorem. Only
model-checked: the liveness properties (`EveryCallIsAnswered`, `HookIsAnswered`,
`LinkReturns`, `ServiceComesBack`, `RevokedIsCutOff`, `ViewConverges`), which need fairness
and ENABLED, and the disagreements of the four runs that expect one. Proved and in no run:
`NoUnapprovedTool`, `SettledOnce`, `InterruptIsLocalAndTotal`, `CloseIsLocal`,
`OnlyTheOwnerRestores`, `ShelvedIsEnded`, and the type invariants.

## 5. Not modelled

Of modelled components: steers, edits of settings, checkpoints, attachments and model
changes of a launched session; the framing of the hook socket and the hook installer; the
audit log and quotas of rows; backoff delays; the parsing of transcript lines; launches as
a tab pairs them with their answers; failures of the database outside `DeviceAuth`; the
subscribe that is lost before a tab has seen anything (`SessionView` begins its promise
once the session is known); in `SessionMeta` and `SessionTitle` the forgetting of an
archived or deleted session's labels, after which no row of its shows them.

Not at all: push (sends that nobody waits for), rate limits, sign-in and OAuth (calls to a
provider), the infrastructure scaler, the schema and its migrations, service files and the
doctor beyond what the process sees of them, the cryptographic primitives, the wire schemas
(their kinds are the actions of the modules), and rendering. Much of the implementation's
text is the markup and styles of the user interface, schemas and types, which have no
behaviour of their own; the map names about a fifth of all lines.
`PROJECT.json` says of every component what is left out.

## 6. Known divergences

Where the code does something else than its documentation or comments say, or leaves a
case open. Items 1, 5, 37 and 41 have a run that shows them; TLC or the translation found
the others while the modules were written, and those with a name in brackets are the
reason for an excuse in a property that does hold.

**Launched sessions**

1. *A reap deletes the user's branch.* `sessions/workspace-reaper.ts:14`: "The session's
   own branch, deleted with the worktree." After a branch switch `rec.meta.branch` is the
   branch switched to, and the reap passes that one (`daemon.ts:2680`). (run
   `reaps_own_branch`)
2. *A gate for an aborted run.* A file edit's gate registers after `await gateDiffStat`
   without looking at the run (`daemon.ts:906`), so an interrupt in between leaves it
   pending until its timer, and its settlement sets an ended session to running.
   (`InterruptHitsItsRun`, `astray`)
3. *End overtakes launch.* `runSession` does not look at `endedSessions` after preparing
   the workspace (`daemon.ts:1393`): the first turn runs. (`OnlyALaunchOutrunsEnd`)
4. *Dropped follow-up.* `runFollowUp` sets the status to running before `runTurn` drops the
   turn (`daemon.ts:1479`), also while a gate awaits input.
5. *Mid-way through writing.* `daemon.ts:2618`: "Never publish a state the agent is
   mid-way through writing". The frames of a socket are "chained so each is fully handled
   before the next" (`daemon.ts:2128`), but a follow-up is not waited for
   (`daemon.ts:1876`), and it is decrypted before it is in `activeRuns`: a push, a switch
   or a reap behind it on the same socket passes its guard, and the turn begins under its
   git call. (run `moves_mid_turn`; `opens`) So does a turn that came by another socket,
   after a redial. (`MovesBetweenTurns`) A continuation without a worktree of its own runs
   in its parent's while the guard looks at the parent's `activeRuns` only, and a parent
   reaped during the mint takes the child's directory with it.
6. *Half a reap.* When the worktree is removed and `branch -D` fails, the reap is refused
   although the tree is gone; a delete that opted in cannot be retried after a lost ok.

**Adopted sessions**

7. *Late ACK.* `adopted-sessions.ts:103`: a late ACK is bound "so a retried hook event for
   the same session correlates without re-announcing". `handleAdoptedAck`
   (`daemon.ts:2274`) ignores it unless a waiter is pending: the next event announces
   again, and the first row is an orphan.
8. *Failed mint.* `daemon.ts:2907`: "a later answer can retry". The offer left
   `pendingHandovers` before the mint (line 2857), so none can.
9. *Overlapping syncs* read from one offset and advance it twice, so lines are repeated and
   then skipped (`transcript-mirror.ts:53`). (`overlapped`) After a restart the mirror
   starts at 0 over a restored transcript (`daemon.ts:2816`). (`base`)
10. *Ended sessions revived.* Tool calls of a terminal that runs on are gated although its
    session ended, and the gate sets it to awaiting input (`daemon.ts:3221`).
    (`OnlyAGateRevives`)
11. *Handover under a turn.* `handleHandoverAnswer` sets the parent to done after the mint
    without looking whether the user prompted the terminal meanwhile (`daemon.ts:2926`);
    `retireTakenOverParent` does look. (`TakeoverSparesTheTurn` is about the latter only)
12. *Unwatched gates.* Viewer presence is looked at before a gate and not again
    (`daemon.ts:3217`): when the last viewer leaves, the terminal blocks until the timer.
13. *Stacked asks.* An offer that outlived its session, or a handler left by an escape,
    shows a gate and an offer together (`daemon.ts:3328`). (`NothingStacksInOrder`)
14. *Interrupted ask.* An interrupt settles an adopted session's gate and leaves the status
    at awaiting input (`daemon.ts:1087`). (`AskingHasAnAsk`)
15. *Late chained ACK.* After `registerChained` timed out the ACK is dropped
    (`daemon.ts:2328`): the child's row stays at starting.
16. *Branch reads.* A read given up after two seconds resolves to "unknown" and clears a
    good branch (`adopt/git-branch.ts`), and an older read that finishes last shows the
    old branch, both until the next hook. (`misled`)
17. *Titles over a restart.* A backfilled title that another persist saves before the
    first ack, and a refinement lost by a crash before its save, never reach the row; a
    label said while there is no socket is not said again until somebody subscribes.
    (`unsent`)

**Link, relay and rows**

18. *Phantom rows.* `docs/reconnect-and-offline.md:52`: "the registry self-reconciles so
    nothing lingers as a phantom". A `session.ended` said while the link is down is
    dropped, and the list sent on reconnect (`daemon.ts:2096`) names every record, ended
    ones included: the row stays live. (`lagging`)
19. *Ghost viewers.* A tab that closes during its hello's token check is registered
    afterwards for good (`relay.ts:1370`). (`OnlyALateHelloLeavesAGhost`)
20. *Stale hello.* Of two daemon hellos being checked, the last to finish takes the
    channel, whichever socket is newer (`relay.ts:1261`).
21. *Stale presence.* A replaced socket's queued `viewer.presence` is obeyed during the
    redial gap (`daemon.ts:2057`, against the comment at 2112).
22. *Lost launches and acts.* Both go to the socket captured before an await
    (`relay.ts:586`, `relay.ts:647`); reconcile never retires a `starting` row, and the
    sender is not told. Reconcile itself may retire a session launched after the list was
    drawn up (`relay.ts:670`). (`lagging`)
23. *Cache after delete.* `cacheFrame` makes the entry of a deleted session anew.
24. *Overtaken labels.* The last frame of a dead socket is stored after the first of its
    successor (`relay.ts:868`). (`crossed`)

**Disk and process**

25. *Reap races.* A write in flight re-creates a removed file, which the next start
    restores (`session-store.ts:139`, against the comment at 137); a follow-up during
    `await git` starts a run in the worktree being removed (`daemon.ts:2694`). (`raced`)
26. *Torn files.* `writeFile` truncates in place (`session-store.ts:85`): a process that
    dies there loses the session, and `loadAll` skips its file.
27. *Orphaned rows.* A re-pairing cut short after the grant leaves a row whose token no
    machine has (`pair-and-save.ts:21`); the evidence stays good for a second restore.
    (`PairingKeepsTheDevice`)
28. *Revoked and live.* Revoking a device does not close its socket; the relay's maximum
    connection age does. (`RevokedIsCutOff`)
29. *Repair.* `repairAndRelaunch` that fails returns silently (`main.ts:354`); the process
    lives on for as long as old runs do. The lock's read and write are two steps, and
    its release removes whoever's file is there.

**Browser**

30. *Closed as rejected.* `closeOpenGates` (`session.ts:177`) shows an ask that was
    approved elsewhere, or whose approval a history in flight undid, as rejected at the
    end, although its tool ran. (`crossed`)
31. *Too early a confirmation.* Any inbound frame confirms an action in flight
    (`session.ts:225`, against the comment at 222); an error that follows no longer
    reverts it.
32. *Stale gates.* A gate answered in another tab, and one of a session that the daemon
    lost, stay on offer until the next history. (`crossed`)
33. *Key recovery.* Any `session.key` clears the request that is pending
    (`relay-client.ts:252`), so that a tab without the right key asks again for as long as
    replays come.
34. *Lost subscribe.* A tab whose first subscribe is lost before any frame does not ask
    again: `reattachSessions` skips a session it does not know. (`ViewConverges` begins at
    `view.known`)
35. *Echoes.* A frame is lost when its socket dies after the send, and the echo of
    `sendUserMessage` is not taken back on an error.
36. *"Nothing changed."* `+page.svelte:190` ("nothing was deleted"), `:186` ("worktree was
    not touched") and the branch switcher's timeout are wrong when the verdict is only late
    or lost. The ledger matches verdicts by session. (`late`, `elsewhere`)
37. *The branch that lingers.* A cleared branch is no field of a frame, and
    `applyMetaFrame` merges (`session-meta.ts:30`). (run `branch_lingers`)
38. *Titles.* A reset is undone by a load whose rows, this one or any other, are still
    being opened: the load starts from a copy of the map (`session-store.ts:605`) and adds
    back every entry of it that the map has lost (`session-title.ts:109`), against "Live
    `session.title` frames always win" (`session-store.ts:590`); renames that cross leave
    tabs with different names; a title frame is not cached. (`undone`, `raced`, `unheard`)
39. *Pager.* `reset` does not call off a page in flight (`session-pager.svelte.ts:6`).
    (`skewed`) `listPage` reads the running and the ended rows at two times.
40. *Threads.* `threads.ts` says "every input session appears exactly once", which fails
    for two continuations of one parent; `session-groups.ts` says that its numbers "can
    never disagree".

**Heartbeat**

41. *The first dial.* `startHeartbeat` runs after the first ack only, so a path that dies
    before it strands the daemon, against `daemon.ts:2173` ("so a DEAD path can't strand
    the daemon"). (run `first_dial_strands`; `Unwatched`) A tab stops its probe with each
    close and starts it with each ack: every handshake of its is unwatched.
42. *A round that falls into the handshake* counts as silent before anything was asked,
    against `daemon.ts:316` ("a single slow round-trip can't kill a healthy link"): with
    the default of two rounds it takes one slow answer more. (`HealthyLinkStays` counts
    them)

## 7. What is left

1. Launches from the drawer to the daemon, with the tab's pairing of answers.
2. Sharing state where two modules meet: `RelayChannel` with `AdoptedSession` (who watches,
   who is gated), `SessionView` over `RelayRegistry`.
3. Abstract specifications worth stating, with a refinement: a store that holds the newest
   save; a binding that is made at most once; a row that follows one owner's words.
