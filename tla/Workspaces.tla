----------------------------- MODULE Workspaces -----------------------------
(***************************************************************************)
(* The git worktrees of a daemon's launched sessions, and the requests of  *)
(* a browser that touch one between turns: switch its branch, push it,     *)
(* reap it before the session is deleted (handleBranchSwitch,              *)
(* handleSessionPush, handleWorkspaceReap of packages/daemon/src/          *)
(* daemon.ts over packages/daemon/src/sessions/), and its continuation in  *)
(* the same worktree or in one of its own (runResumeNew).  The browser's   *)
(* side is the ledger of pending asks of apps/web/src/lib/session-store.ts.*)
(*                                                                         *)
(* A daemon handles the frames of one socket one after the other and waits *)
(* for git in between, but a redial begins a new socket with a chain of    *)
(* its own; launches, follow-ups and continuations are started and not     *)
(* waited for, not even until they are decrypted.  Sessions that run       *)
(* without a repository are left out: every request on one is refused.     *)
(***************************************************************************)
EXTENDS Naturals, Sequences

CONSTANTS Session,
          Launched,  \* the sessions that are launched, the others continue one
          Users,     \* a branch of the user's own, no worktree of a session's
          MaxAsks,   \* bound: requests of all the browser's tabs
          MaxLinks   \* bound: sockets the daemon dials

ASSUME WorkspaceConstants ==
  /\ Launched \subseteq Session /\ Users \notin Session
  /\ MaxAsks \in Nat /\ MaxLinks \in Nat \ {0}

VARIABLES
  rec,      \* sessionRecords: status, worktree, repoPath known, meta.branch
  turn,     \* activeRuns: the socket the turn's message came by, 0 for no turn
  opening,  \* the socket of a session's follow-up that is being decrypted, or 0
  making,   \* a launch or a continuation under way, see Launch and ResumeNew
  link,     \* the daemon's current socket
  up,       \* it is open
  queue,    \* requests received by a socket and not handled yet
  job,      \* the request a socket's chain is waiting for git with
  head,     \* git: the branch checked out in a session's worktree
  branches, \* git: the branches there are
  asks,     \* how many requests there were, their numbers are 1 .. asks
  pending,  \* the tab's ledgers: the pending ask per kind and session, or 0
  timers,   \* the armed timeouts of asks
  down,     \* verdicts and errors on their way to the tab
  deleting, \* sessions reaped at the tab's wish, whose row is deleted next
  gone,     \* sessions whose row was deleted after a reap
  astray,   \* history: sessions set running by a gate that an ended turn left
  late,     \* history: asks that were over without a verdict of their own
  mixed,    \* history: asks settled on account of another: <<how, ask, by>>
  elsewhere \* history: the requests of other tabs

daemon  == <<rec, turn, opening, making, astray>>
wire    == <<link, up, queue>>
git     == <<head, branches>>
tab     == <<pending, timers, deleting, gone, late, mixed>>
vars    == <<daemon, wire, git, tab, job, asks, down, elsewhere>>

Kind   == {"switch", "push", "reap"}
Branch == Session \cup {Users}   \* a session's own branch is named by it
None   == "none"
Link   == 1 .. MaxLinks
NoRec  == [status |-> None, tree |-> None, repo |-> FALSE, branch |-> None]
NoJob  == [kind |-> None]
Ended  == {"done", "error"}      \* SESSION_END_STATUSES; turn_limit is as done here
Unmade == [at |-> "no", own |-> TRUE, parent |-> [NoRec EXCEPT !.repo = TRUE]]
Made   == [Unmade EXCEPT !.at = "made"]
Failed == [Unmade EXCEPT !.at = "failed"]

Init ==
  /\ rec       = [s \in Session |-> NoRec]
  /\ turn      = [s \in Session |-> 0]
  /\ opening   = [s \in Session |-> 0]
  /\ making    = [s \in Session |-> Unmade]
  /\ astray    = {}
  /\ link      = 1
  /\ up        = TRUE
  /\ queue     = [l \in Link |-> <<>>]
  /\ job       = [l \in Link |-> NoJob]
  /\ head      = [s \in Session |-> None]
  /\ branches  = {Users}
  /\ asks      = 0
  /\ pending   = [k \in Kind |-> [s \in Session |-> 0]]
  /\ timers    = {}
  /\ down      = {}
  /\ deleting  = {}
  /\ gone      = {}
  /\ late      = {}
  /\ mixed     = {}
  /\ elsewhere = {}

Runs(s) == turn[s] # 0
HasRow(s) == making[s].at \in {"made", "failed"}

-----------------------------------------------------------------------------
(* Launches, turns and continuations. *)

\* runSession: the worktree is cut first, off the user's repository.
Launch(s) ==
  /\ up /\ job[link] = NoJob
  /\ s \in Launched /\ making[s].at = "no"
  /\ making' = [making EXCEPT ![s].at = "cut"]
  /\ UNCHANGED <<rec, turn, opening, astray, wire, git, tab, job, asks, down, elsewhere>>

\* runResumeNew, of a request that some chain took earlier and that is opened now: an
\* ended session's, or an unknown one's, continuation is registered with the relay.
\* Unless it wants a worktree of its own it inherits its parent's; either way by the
\* parent's record as it is now.
ResumeNew(p, c) ==
  /\ c \notin Launched /\ HasRow(p) /\ making[c].at = "no"
  /\ rec[p].status \in Ended \cup {None}
  /\ \E own \in BOOLEAN :
       making' = [making EXCEPT ![c] =
         [at |-> "mint", own |-> own, parent |-> rec[p]]]
  /\ UNCHANGED <<rec, turn, opening, astray, wire, git, tab, job, asks, down, elsewhere>>

\* mintChainedChild: the relay's answer is here.  In an inherited worktree the turn
\* begins at once (runResumedTurn).
Minted(c) ==
  LET m == making[c]
      inherited == [m.parent EXCEPT !.status = "running", !.repo = FALSE]
  IN  /\ m.at = "mint"
      /\ making' = [making EXCEPT ![c] = IF m.own THEN [m EXCEPT !.at = "cut"] ELSE Made]
      /\ rec'    = [rec EXCEPT ![c] = IF m.own THEN [NoRec EXCEPT !.status = "running"]
                                               ELSE inherited]
      /\ turn'   = [turn EXCEPT ![c] = IF m.own THEN 0 ELSE link]
      /\ UNCHANGED <<opening, astray, wire, git, tab, job, asks, down, elsewhere>>

\* registerChained times out: nothing was made.
MintFails(c) ==
  /\ making[c].at = "mint"
  /\ making' = [making EXCEPT ![c] = Unmade]
  /\ UNCHANGED <<rec, turn, opening, astray, wire, git, tab, job, asks, down, elsewhere>>

\* ensureWorktree cuts a new branch, the session's own or one the user named, which
\* there must not be yet.
Cuttable(s, b) == b \in {s, Users} /\ b \notin branches
CutOnto(s, b) ==
  /\ Cuttable(s, b)
  /\ head'     = [head EXCEPT ![s] = b]
  /\ branches' = branches \cup {b}

\* prepareWorkspace and recordForkWorktree book the worktree; the turn begins.
CutTree(s) ==
  /\ making[s].at = "cut"
  /\ making[s].parent.repo
  /\ \E b \in Branch :
       /\ CutOnto(s, b)
       /\ rec' = [rec EXCEPT ![s] = [status |-> "running", tree |-> s, repo |-> TRUE,
                                     branch |-> b]]
  /\ turn'   = [turn EXCEPT ![s] = link]
  /\ making' = [making EXCEPT ![s] = Made]
  /\ UNCHANGED <<opening, astray, wire, tab, job, asks, down, elsewhere>>

\* Mutant: a session without a workspace is left at running.
CutFailsSilently(s) ==
  /\ making[s].at = "cut"
  /\ making' = [making EXCEPT ![s] = Failed]
  /\ UNCHANGED <<rec, turn, opening, astray, wire, git, tab, job, asks, down, elsewhere>>

\* There is no repository, no base, such a branch already, or git fails: the launch or
\* the continuation ends with an error.
CutFails(s) ==
  /\ making[s].at = "cut"
  /\ rec'    = [rec EXCEPT ![s].status = "error"]
  /\ making' = [making EXCEPT ![s] = Failed]
  /\ UNCHANGED <<turn, opening, astray, wire, git, tab, job, asks, down, elsewhere>>

\* handleFrame: a chain takes any tab's user.message and goes on while it is decrypted.
\* The bound is one such message a session.
TakeMessage(s, l) ==
  /\ l <= link /\ job[l] = NoJob
  /\ HasRow(s) /\ opening[s] = 0
  /\ opening' = [opening EXCEPT ![s] = l]
  /\ UNCHANGED <<rec, turn, making, astray, wire, git, tab, job, asks, down, elsewhere>>

\* The rest of runFollowUp, of a session in a worktree: it is set running whatever its
\* status, and its turn begins unless it has one.
FollowUp(s) ==
  /\ opening[s] # 0 /\ rec[s].tree # None
  /\ opening' = [opening EXCEPT ![s] = 0]
  /\ rec'     = [rec EXCEPT ![s].status = "running"]
  /\ turn'    = [turn EXCEPT ![s] = IF Runs(s) THEN @ ELSE opening[s]]
  /\ astray'  = astray \ {s}
  /\ UNCHANGED <<making, wire, git, tab, job, asks, down, elsewhere>>

\* ... or it is dropped, of a session that was ended, or there is no conversation to resume
\* (handleUnresumableFollowUp; needs_restart is as error here).
FollowUpRefused(s) ==
  /\ opening[s] # 0
  /\ opening' = [opening EXCEPT ![s] = 0]
  /\ \/ UNCHANGED <<rec, astray>>
     \/ /\ rec[s] # NoRec
        /\ rec'    = [rec EXCEPT ![s].status = "error"]
        /\ astray' = astray \ {s}
  /\ UNCHANGED <<turn, making, wire, git, tab, job, asks, down, elsewhere>>

\* runTurn is over.
TurnEnds(s) ==
  /\ Runs(s)
  /\ turn' = [turn EXCEPT ![s] = 0]
  /\ \E st \in Ended : rec' = [rec EXCEPT ![s].status = st]
  /\ UNCHANGED <<opening, making, astray, wire, git, tab, job, asks, down, elsewhere>>

\* requestPermission, settlePermissionEntry and their likes for questions: a gate that a
\* turn left as it ended is registered or settled only now (see SessionGate).  The status
\* is set regardless, of a session that was forgotten too; running stands for
\* awaiting_input.
LateGate(s) ==
  /\ making[s].at = "made" /\ ~Runs(s)
  /\ rec'    = [rec EXCEPT ![s].status = "running"]
  /\ astray' = astray \cup {s}
  /\ UNCHANGED <<turn, opening, making, wire, git, tab, job, asks, down, elsewhere>>

-----------------------------------------------------------------------------
(* Requests: the daemon's side. *)

\* Mutant: a worktree is touched in the middle of a turn.
MayTouchMidTurn(q) == rec[q.of].repo /\ (q.kind = "reap" => rec[q.of].status # None)

\* branchSwitchOutcome, pushOutcome, reapOutcome: what they refuse before git.
MayTouch(q) ==
  LET r == rec[q.of]
  IN  /\ r.repo /\ ~Runs(q.of)
      /\ q.kind = "switch" => r.status = "done"
      /\ q.kind = "reap"   => r.status \in Ended

\* sendForSession, replyToBrowser: on the socket of the moment, if it is open.  A reap's
\* verdict is sealed for the tab that asked, the others reach every tab.
Reply(q, ok) ==
  down' = IF up /\ ~(q.kind = "reap" /\ q.n \in elsewhere)
          THEN down \cup {[kind |-> q.kind, of |-> q.of, n |-> q.n,
                           how |-> IF ok THEN "ok" ELSE "refused"]}
          ELSE down

Take(l) ==
  /\ job[l] = NoJob /\ queue[l] # <<>>
  /\ queue' = [queue EXCEPT ![l] = Tail(@)]

Refuse(l) ==
  /\ Take(l)
  /\ ~MayTouch(Head(queue[l]))
  /\ Reply(Head(queue[l]), FALSE)
  /\ UNCHANGED <<daemon, link, up, git, tab, job, asks, elsewhere>>

\* The request is taken to git: the worktree and its branch are read now.  opens: a
\* follow-up of the session that this chain took before is still being decrypted.
Begin(l) ==
  LET q == Head(queue[l])
  IN  /\ Take(l)
      /\ MayTouch(q)
      /\ job' = [job EXCEPT ![l] =
           [kind |-> q.kind, of |-> q.of, to |-> q.to, n |-> q.n, at |-> "git",
            tree |-> rec[q.of].tree, branch |-> rec[q.of].branch,
            opens |-> opening[q.of] = l]]
      /\ UNCHANGED <<daemon, link, up, git, tab, asks, down, elsewhere>>

Finishes(l, kind, at) ==
  /\ job[l].kind = kind
  /\ job[l].at = at
  /\ job' = [job EXCEPT ![l] = NoJob]

CheckedOut(b) == b \in {head[t] : t \in Session}

\* createGitBranchSwitcher; a switch that succeeded is booked as meta.branch.
Switched(l) ==
  LET j == job[l]
  IN  /\ Finishes(l, "switch", "git")
      /\ head[j.tree] # None
      /\ j.to \in branches /\ ~CheckedOut(j.to)
      /\ head' = [head EXCEPT ![j.tree] = j.to]
      /\ rec'  = [rec EXCEPT ![j.of].branch = j.to]
      /\ Reply(j, TRUE)
      /\ UNCHANGED <<turn, opening, making, astray, wire, branches, tab, asks, elsewhere>>

\* createGitBranchPusher changes nothing here.
Pushed(l) ==
  /\ Finishes(l, "push", "git")
  /\ Reply(job[l], TRUE)
  /\ UNCHANGED <<daemon, wire, git, tab, asks, elsewhere>>

\* createGitWorkspaceReaper: the worktree is removed, or found removed and pruned.
TreeRemoved(l) ==
  LET j == job[l]
  IN  /\ j.kind = "reap" /\ j.at = "git"
      /\ head' = [head EXCEPT ![j.tree] = None]
      /\ job'  = [job EXCEPT ![l].at = "branch"]
      /\ UNCHANGED <<daemon, wire, branches, tab, asks, down, elsewhere>>

\* ... then git branch -D, and the daemon forgets the session.
Reaped(l) ==
  LET j == job[l]
  IN  /\ Finishes(l, "reap", "branch")
      /\ j.branch \in branches /\ ~CheckedOut(j.branch)
      /\ branches' = branches \ {j.branch}
      /\ rec' = [rec EXCEPT ![j.of] = NoRec]
      /\ astray' = astray \ {j.of}
      /\ Reply(j, TRUE)
      /\ UNCHANGED <<turn, opening, making, wire, head, tab, asks, elsewhere>>

\* git fails, or refuses: a dirty worktree, a branch that is gone or checked out.
GitFails(l) ==
  /\ job[l] # NoJob
  /\ job' = [job EXCEPT ![l] = NoJob]
  /\ Reply(job[l], FALSE)
  /\ UNCHANGED <<daemon, wire, git, tab, asks, elsewhere>>

-----------------------------------------------------------------------------
(* The link. *)

\* A frame that is lost with the socket is one its reader never takes; what the daemon
\* received it handles yet.
LinkDrops ==
  /\ up
  /\ up' = FALSE
  /\ UNCHANGED <<daemon, link, queue, git, tab, job, asks, down, elsewhere>>

Redial ==
  /\ ~up /\ link < MaxLinks
  /\ up' = TRUE /\ link' = link + 1
  /\ UNCHANGED <<daemon, queue, git, tab, job, asks, down, elsewhere>>

-----------------------------------------------------------------------------
(* Requests: the browser's side. *)

Request(k, s, b) == [kind |-> k, of |-> s, to |-> b, n |-> asks + 1]

\* BranchSwitcher offers the branches the worktree is not on.
Choices(k, s) == IF k = "switch" THEN branches \ {rec[s].branch} ELSE {None}

\* The relay routes a request, or answers that the device is offline.  A request lost
\* with the tab's socket is one whose chain never takes it.
Sent(q) ==
  \/ up /\ queue' = [queue EXCEPT ![link] = Append(@, q)] /\ UNCHANGED down
  \/ /\ ~up
     /\ down' = down \cup {[kind |-> q.kind, of |-> q.of, n |-> q.n, how |-> "offline"]}
     /\ UNCHANGED queue

\* Mutant: a settled ask leaves its timer armed.
NotCleared(k, s) == timers

Cleared(k, s) == {t \in timers : t.n # pending[k][s]}

\* createPendingAsks.settle, on account of request n: it settles whatever ask of the
\* session is pending.
Settle(k, s, how, n) ==
  /\ mixed'   = IF pending[k][s] \in {0, n} THEN mixed
                ELSE mixed \cup {<<how, pending[k][s], n>>}
  /\ late'    = late \cup ({pending[k][s]} \ IF how = "timeout" THEN {0} ELSE {0, n})
  /\ pending' = [pending EXCEPT ![k][s] = 0]
  /\ timers'  = Cleared(k, s)

\* createPendingAsks.start: a second ask supersedes the first.
Start(k, s, n) ==
  /\ late'    = late \cup ({pending[k][s]} \ {0})
  /\ pending' = [pending EXCEPT ![k][s] = n]
  /\ timers'  = Cleared(k, s) \cup {[kind |-> k, of |-> s, n |-> n]}

\* switchSessionBranch, pushSessionBranch, reapWorkspace.
Ask(k, s) ==
  /\ asks < MaxAsks
  /\ HasRow(s) /\ s \notin gone
  /\ \E b \in Choices(k, s) : Sent(Request(k, s, b))
  /\ Start(k, s, asks + 1)
  /\ asks' = asks + 1
  /\ UNCHANGED <<daemon, link, up, git, job, deleting, gone, mixed, elsewhere>>

\* The same of another tab: its request only passes here.
AskElsewhere(k, s) ==
  /\ asks < MaxAsks
  /\ HasRow(s) /\ up
  /\ \E b \in Choices(k, s) :
       queue' = [queue EXCEPT ![link] = Append(@, Request(k, s, b))]
  /\ asks' = asks + 1
  /\ elsewhere' = elsewhere \cup {asks + 1}
  /\ UNCHANGED <<daemon, link, up, git, job, down, tab>>

\* Mutant: a refused reap does not stop the delete.
GoesOnRegardless(f) == f.kind = "reap" /\ pending[f.kind][f.of] # 0

\* onDeleteConfirm goes on to delete the row only after a reap that went well.
GoesOn(f) == f.kind = "reap" /\ pending[f.kind][f.of] # 0 /\ f.how = "ok"

\* settleVerdictFrame, onWorkspaceReap, settleOfflineDeviceAsk: the ask is found by its
\* session.
TakeVerdict ==
  \E f \in down :
    /\ down' = down \ {f}
    /\ Settle(f.kind, f.of, f.how, f.n)
    /\ deleting' = IF GoesOn(f) THEN deleting \cup {f.of} ELSE deleting
    /\ UNCHANGED <<daemon, wire, git, job, asks, gone, elsewhere>>

\* An ask's timer fires.
TimesOut ==
  \E t \in timers :
    /\ Settle(t.kind, t.of, "timeout", t.n)
    /\ UNCHANGED <<daemon, wire, git, job, asks, down, deleting, gone, elsewhere>>

\* deleteSessionForever: the relay deletes the row of an ended session, or refuses.
DeleteRow(s) ==
  /\ s \in deleting
  /\ deleting' = deleting \ {s}
  /\ gone' \in {gone, gone \cup {s}}
  /\ UNCHANGED <<daemon, wire, git, job, asks, down, pending, timers, late, mixed, elsewhere>>

-----------------------------------------------------------------------------
Making == \E s \in Session :
  \/ Launch(s) \/ Minted(s) \/ MintFails(s) \/ CutTree(s) \/ CutFails(s)
  \/ \E c \in Session : ResumeNew(s, c)
Turns == \E s \in Session :
  \/ FollowUp(s) \/ FollowUpRefused(s) \/ TurnEnds(s) \/ LateGate(s)
  \/ \E l \in Link : TakeMessage(s, l)
Chain == \E l \in Link :
  \/ Refuse(l) \/ Begin(l) \/ Switched(l) \/ Pushed(l)
  \/ TreeRemoved(l) \/ Reaped(l) \/ GitFails(l)
Browser ==
  \/ \E k \in Kind, s \in Session : Ask(k, s) \/ AskElsewhere(k, s)
  \/ TakeVerdict \/ TimesOut
  \/ \E s \in Session : DeleteRow(s)

Next == Making \/ Turns \/ Chain \/ LinkDrops \/ Redial \/ Browser

Spec == Init /\ [][Next]_vars

-----------------------------------------------------------------------------
(* Properties *)

Rec == [status : {None, "running"} \cup Ended, tree : Session \cup {None},
        repo : BOOLEAN, branch : Branch \cup {None}]
Asked == [kind : Kind, of : Session, to : Branch \cup {None}, n : Nat]
Job == [kind : Kind, of : Session, to : Branch \cup {None}, n : Nat,
        at : {"git", "branch"}, tree : Session \cup {None}, branch : Branch \cup {None},
        opens : BOOLEAN]
How == {"ok", "refused", "offline"}
Plan == [at : {"no", "mint", "cut", "made", "failed"}, own : BOOLEAN, parent : Rec]
Timer == [kind : Kind, of : Session, n : Nat]
Verdict == [kind : Kind, of : Session, n : Nat, how : How]

DaemonOK == /\ rec \in [Session -> Rec]
            /\ turn \in [Session -> Nat]
            /\ opening \in [Session -> Nat]
            /\ making \in [Session -> Plan]
            /\ astray \subseteq Session
WireOK   == /\ link \in Link /\ up \in BOOLEAN
            /\ queue \in [Link -> Seq(Asked)]
JobOK    == job \in [Link -> {NoJob} \cup Job]
GitOK    == head \in [Session -> Branch \cup {None}] /\ branches \subseteq Branch
AsksOK   == asks \in Nat /\ elsewhere \subseteq Nat /\ down \subseteq Verdict
TabOK    == /\ pending \in [Kind -> [Session -> Nat]]
            /\ timers \subseteq Timer
            /\ deleting \subseteq Session /\ gone \subseteq Session
            /\ late \subseteq Nat
            /\ \A m \in mixed : m[1] \in How \cup {"timeout"} /\ m[2] \in Nat /\ m[3] \in Nat

\* Every variable stays in its domain.
TypeOK == DaemonOK /\ WireOK /\ JobOK /\ GitOK /\ AsksOK /\ TabOK

\* A session's worktree is pushed, moved or removed between its own turns, unless the
\* turn's message came by another socket than the request, or was taken before it and was
\* still being decrypted when the request looked.
MovesBetweenTurns ==
  \A l \in Link : job[l] # NoJob /\ Runs(job[l].of) =>
    turn[job[l].of] # l \/ job[l].opens

\* A session deleted together with its worktree leaves no worktree behind that nothing
\* points to any more.
DeleteStrandsNothing == \A s \in gone : head[s] = None

\* A tab's ask ends by its own verdict, timeout or error; the verdict of another request
\* on the same session ends it only if that request's ask was over before its verdict
\* came, or was another tab's.
AskGetsItsOwnEnd ==
  \A m \in mixed : m[1] # "timeout" /\ m[3] \in late \cup elsewhere

\* A session reads as running only while a turn runs, its worktree is being cut, or after
\* a gate that an ended turn left behind set it so: one that was announced before it had a
\* workspace never stays so without one.
RunningIsAttended ==
  \A s \in Session : rec[s].status = "running" =>
    Runs(s) \/ making[s].at = "cut" \/ s \in astray

\* What packages/daemon/src/daemon.ts:2618 says of a push, and 2509 of a switch: never while
\* the agent of the session is at work.
NeverMidTurn ==
  \A l \in Link : job[l].kind \in {"push", "switch"} => ~Runs(job[l].of)

\* What packages/daemon/src/sessions/workspace-reaper.ts:14 says of the branch a reap
\* deletes: it is the session's own.
OnlyItsOwnBranchIsDeleted == Users \in branches
=============================================================================
