---------------------------- MODULE SessionStore ----------------------------
(***************************************************************************)
(* How a daemon's session records reach its disk, are reaped from it and   *)
(* come back after a restart: persistSession, handleWorkspaceReap and      *)
(* restorePersistedSessions of packages/daemon/src/daemon.ts over the      *)
(* coalescing file store of packages/daemon/src/sessions/session-store.ts. *)
(*                                                                         *)
(* A record is abstracted to its version.  What interleaves: the awaits of *)
(* the key export, of the directory and file writes, of a reap's git       *)
(* commands and of its unlink; the process may die between any two.        *)
(***************************************************************************)
EXTENDS Naturals

CONSTANTS Session,
          MaxVersion, \* bound: versions of a session's record
          MaxExports  \* bound: persistSession calls awaiting the key, per record

ASSUME StoreConstants == MaxVersion \in Nat \ {0} /\ MaxExports \in Nat \ {0}

VARIABLES
  rec,       \* version of the session's record in sessionRecords, 0 for none
  made,      \* how many versions of its record there were
  run,       \* activeRuns
  exporting, \* persistSession calls awaiting the key: of the held record, ...
  dropped,   \* ... and of a record a reap forgot since, with its last version
  latest,    \* the store's queued snapshot, 0 for none
  flush,     \* the store's flush of a session, see Flush
  disk,      \* the file
  reap,      \* workspace.reap: idle, git (runs git), unlink (removes the file)
  up,        \* the process runs
  saved,     \* history: the newest snapshot of a held record handed to the store
  reaped,    \* history: sessions whose reap was answered with ok
  raced,     \* history: those whose reap met a run, an export or a write
  stuck      \* history: those whose file could not be removed

memory  == <<rec, run, exporting, dropped, latest, flush, reap>>
history == <<saved, reaped, raced, stuck>>
vars    == <<memory, made, disk, up, history>>

Version == 1 .. MaxVersion
Absent  == 0               \* no file
Torn    == MaxVersion + 1  \* a file truncated, or written in part

\* idle; mkdir: the directory is made; open: the file is about to be opened for a
\* snapshot; write: it is truncated and being written.
Step(at, snapshot) == [at |-> at, of |-> snapshot]
FlushIdle == Step("idle", 0)

Init ==
  /\ rec       = [s \in Session |-> 0]
  /\ made      = [s \in Session |-> 0]
  /\ run       = {}
  /\ exporting = [s \in Session |-> 0]
  /\ dropped   = [s \in Session |-> {}]
  /\ latest    = [s \in Session |-> 0]
  /\ flush     = [s \in Session |-> FlushIdle]
  /\ disk      = [s \in Session |-> Absent]
  /\ reap      = [s \in Session |-> "idle"]
  /\ up        = TRUE
  /\ saved     = [s \in Session |-> 0]
  /\ reaped    = {}
  /\ raced     = {}
  /\ stuck     = {}

-----------------------------------------------------------------------------
(* Turns.  A launched session is persisted when a turn settles. *)

\* The record has a new version (bounded).
Changes(s) ==
  /\ made[s] < MaxVersion
  /\ made' = [made EXCEPT ![s] = @ + 1]
  /\ rec'  = [rec EXCEPT ![s] = made[s] + 1]

\* A launch, or a follow-up on a session the daemon holds.
TurnBegins(s) ==
  /\ up
  /\ s \notin run
  /\ made[s] = 0 \/ rec[s] # 0
  /\ Changes(s)
  /\ run' = run \cup {s}
  /\ UNCHANGED <<exporting, dropped, latest, flush, disk, reap, up, history>>

\* A turn settles: setStatus makes the record of a session that has none, and
\* persistSession goes to await the content key.
TurnSettles(s) ==
  /\ s \in run
  /\ exporting[s] < MaxExports
  /\ Changes(s)
  /\ run'       = run \ {s}
  /\ exporting' = [exporting EXCEPT ![s] = @ + 1]
  /\ UNCHANGED <<dropped, latest, flush, disk, reap, up, history>>

-----------------------------------------------------------------------------
(* The store. *)

\* save: the newest snapshot replaces a queued one; a flush is started unless one runs.
Save(s, v) ==
  /\ latest' = [latest EXCEPT ![s] = v]
  /\ flush'  = [flush EXCEPT ![s] = IF @ = FlushIdle THEN Step("mkdir", 0) ELSE @]

\* The key is exported: the record is serialised as it is now.
Exported(s) ==
  /\ exporting[s] > 0
  /\ exporting' = [exporting EXCEPT ![s] = @ - 1]
  /\ Save(s, rec[s])
  /\ saved' = [saved EXCEPT ![s] = rec[s]]
  /\ UNCHANGED <<rec, made, run, dropped, disk, reap, up, reaped, raced, stuck>>

\* The same for a record that a reap took out of sessionRecords meanwhile.
ExportedDropped(s) ==
  /\ \E v \in dropped[s] : /\ dropped' = [dropped EXCEPT ![s] = @ \ {v}]
                           /\ Save(s, v)
  /\ UNCHANGED <<rec, made, run, exporting, disk, reap, up, history>>

\* flush between two awaits: on with the queued snapshot, or done.
NextWrite(s, queued) ==
  flush' = [flush EXCEPT ![s] = IF queued = 0 THEN FlushIdle ELSE Step("open", queued)]

DirMade(s) ==
  /\ flush[s].at = "mkdir"
  /\ NextWrite(s, latest[s])
  /\ UNCHANGED <<rec, made, run, exporting, dropped, latest, disk, reap, up, history>>

\* writeFile opens the file: whatever it held is gone.
Truncated(s) ==
  /\ flush[s].at = "open"
  /\ disk'  = [disk EXCEPT ![s] = Torn]
  /\ flush' = [flush EXCEPT ![s].at = "write"]
  /\ UNCHANGED <<rec, made, run, exporting, dropped, latest, reap, up, history>>

\* Mutant: the queue is emptied whatever it holds.
WrittenClearing(s) ==
  /\ flush[s].at = "write"
  /\ disk'   = [disk EXCEPT ![s] = IF @ = Absent THEN Absent ELSE flush[s].of]
  /\ latest' = [latest EXCEPT ![s] = 0]
  /\ NextWrite(s, 0)
  /\ UNCHANGED <<rec, made, run, exporting, dropped, reap, up, history>>

\* The write completes, into nothing if the file was unlinked meanwhile.  The
\* snapshot leaves the queue unless a newer one took its place, which is next.
Written(s) ==
  /\ flush[s].at = "write"
  /\ disk'   = [disk EXCEPT ![s] = IF @ = Absent THEN Absent ELSE flush[s].of]
  /\ latest' = [latest EXCEPT ![s] = IF @ = flush[s].of THEN 0 ELSE @]
  /\ NextWrite(s, latest'[s])
  /\ UNCHANGED <<rec, made, run, exporting, dropped, reap, up, history>>

\* mkdir or writeFile throws: the flush ends, its snapshot stays queued until the
\* session's next save.
WriteFails(s) ==
  /\ flush[s] # FlushIdle
  /\ flush' = [flush EXCEPT ![s] = FlushIdle]
  /\ UNCHANGED <<rec, made, run, exporting, dropped, latest, disk, reap, up, history>>

-----------------------------------------------------------------------------
(* workspace.reap. *)

\* reapOutcome checks that the session is held and settled, then awaits git.
ReapAsked(s) ==
  /\ up
  /\ rec[s] # 0 /\ s \notin run
  /\ reap[s] = "idle"
  /\ reap' = [reap EXCEPT ![s] = "git"]
  /\ UNCHANGED <<rec, made, run, exporting, dropped, latest, flush, disk, up, history>>

\* The worktree is dirty, or git failed: nothing happened.
GitRefuses(s) ==
  /\ reap[s] = "git"
  /\ reap' = [reap EXCEPT ![s] = "idle"]
  /\ UNCHANGED <<rec, made, run, exporting, dropped, latest, flush, disk, up, history>>

\* What a reap that forgets the session does to the store, and whom it races.
Forget(s) ==
  /\ dropped'   = [dropped EXCEPT ![s] = IF exporting[s] > 0 THEN @ \cup {rec[s]} ELSE @]
  /\ exporting' = [exporting EXCEPT ![s] = 0]
  /\ latest'    = [latest EXCEPT ![s] = 0]
  /\ saved'     = [saved EXCEPT ![s] = 0]
  /\ reap'      = [reap EXCEPT ![s] = "unlink"]
  /\ raced'     = IF s \in run \/ exporting[s] > 0 \/ dropped[s] # {} \/ flush[s] # FlushIdle
                  THEN raced \cup {s} ELSE raced

\* Mutant: the session stays in sessionRecords.
GitRemovesKeepingRecord(s) ==
  /\ reap[s] = "git"
  /\ Forget(s)
  /\ UNCHANGED <<rec, made, run, flush, disk, up, reaped, stuck>>

\* The worktree and branch are gone: the daemon forgets the session, the store its
\* queued snapshot, and unlink is awaited.  Nothing is checked again.
GitRemoves(s) ==
  /\ reap[s] = "git"
  /\ rec' = [rec EXCEPT ![s] = 0]
  /\ Forget(s)
  /\ UNCHANGED <<made, run, flush, disk, up, reaped, stuck>>

\* unlink returns: a missing file is fine, any other failure is only logged.
Unlinked(s) ==
  /\ reap[s] = "unlink"
  /\ \/ disk' = [disk EXCEPT ![s] = Absent] /\ UNCHANGED stuck
     \/ stuck' = stuck \cup {s} /\ UNCHANGED disk
  /\ reap'   = [reap EXCEPT ![s] = "idle"]
  /\ reaped' = reaped \cup {s}
  /\ saved'  = [saved EXCEPT ![s] = 0]
  /\ UNCHANGED <<rec, made, run, exporting, dropped, latest, flush, up, raced>>

-----------------------------------------------------------------------------
(* The process. *)

\* It dies, or exits on a signal without waiting for anything.
Dies ==
  /\ up
  /\ up'        = FALSE
  /\ rec'       = [s \in Session |-> 0]
  /\ run'       = {}
  /\ exporting' = [s \in Session |-> 0]
  /\ dropped'   = [s \in Session |-> {}]
  /\ latest'    = [s \in Session |-> 0]
  /\ flush'     = [s \in Session |-> FlushIdle]
  /\ reap'      = [s \in Session |-> "idle"]
  /\ saved'     = [s \in Session |-> 0]
  /\ UNCHANGED <<made, disk, reaped, raced, stuck>>

\* restorePersistedSessions: every file that parses becomes a record, a torn one is
\* skipped.  It is awaited before the daemon dials or listens.
Restarts ==
  /\ ~up
  /\ up'  = TRUE
  /\ rec' = [s \in Session |-> IF disk[s] \in Version THEN disk[s] ELSE 0]
  /\ UNCHANGED <<made, run, exporting, dropped, latest, flush, reap, disk, history>>

-----------------------------------------------------------------------------
Next ==
  \/ \E s \in Session :
       \/ TurnBegins(s) \/ TurnSettles(s)
       \/ Exported(s) \/ ExportedDropped(s)
       \/ DirMade(s) \/ Truncated(s) \/ Written(s) \/ WriteFails(s)
       \/ ReapAsked(s) \/ GitRefuses(s) \/ GitRemoves(s) \/ Unlinked(s)
  \/ Dies \/ Restarts

Spec == Init /\ [][Next]_vars

-----------------------------------------------------------------------------
(* Properties. *)

\* Every variable stays in its domain.
TypeOK ==
  /\ rec \in [Session -> 0 .. MaxVersion]
  /\ made \in [Session -> 0 .. MaxVersion]
  /\ run \subseteq Session
  /\ exporting \in [Session -> 0 .. MaxExports]
  /\ dropped \in [Session -> SUBSET Version]
  /\ latest \in [Session -> 0 .. MaxVersion]
  /\ flush \in [Session -> [at : {"idle", "mkdir", "open", "write"}, of : 0 .. MaxVersion]]
  /\ disk \in [Session -> 0 .. Torn]
  /\ reap \in [Session -> {"idle", "git", "unlink"}]
  /\ up \in BOOLEAN
  /\ saved \in [Session -> 0 .. MaxVersion]
  /\ reaped \subseteq Session
  /\ raced \subseteq Session
  /\ stuck \subseteq Session

\* However saves, writes and failures overlap, the newest snapshot of a session is
\* in its file or still queued, unless a reap raced them: coalescing drops only older ones.
NewestSurvives ==
  \A s \in Session \ raced : saved[s] # 0 => saved[s] \in {disk[s], latest[s]}

\* A session whose reap succeeded has neither file nor record, whatever restarts
\* follow, unless the reap met a run, an export or a write, or could not unlink.
OnlyARacedReapLeavesATrace ==
  \A s \in reaped \ (raced \cup stuck) : disk[s] = Absent /\ rec[s] = 0
=============================================================================
