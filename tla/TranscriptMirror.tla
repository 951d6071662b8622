-------------------------- MODULE TranscriptMirror --------------------------
(***************************************************************************)
(* How the daemon tails the JSONL log of an adopted Claude Code session    *)
(* into the session's transcript: sync of                                  *)
(* packages/daemon/src/adopt/transcript-mirror.ts, called through          *)
(* mirrorTranscript (packages/daemon/src/daemon.ts) by every hook event.   *)
(*                                                                         *)
(* The hook socket handles its connections concurrently, so several syncs  *)
(* of one mirror can be under way; Claude Code appends meanwhile, and a    *)
(* restarted daemon makes a new mirror for a transcript it restored.       *)
(***************************************************************************)
EXTENDS Naturals, Sequences, FiniteSetsExt

CONSTANTS Caller,      \* hook events whose handling can overlap
          LineEnd,     \* of each line Claude Code writes: the byte at which its newline is
          MaxReturns   \* bound: restarts of the daemon

ASSUME MirrorConstants ==
  /\ Caller # {} /\ MaxReturns \in Nat
  /\ LineEnd \in Seq(Nat \ {0})
  /\ \A i, j \in DOMAIN LineEnd : i < j => LineEnd[i] < LineEnd[j]

VARIABLES
  size,       \* bytes of the log written so far; 0 while there is no file
  offset,     \* bytes this mirror has consumed
  sync,       \* per hook event: where its sync is, see Syncing
  transcript, \* SessionRecord.transcript: the lines it shows, in order
  kept,       \* the transcript in the session store
  base,       \* history: the transcript this process restored
  overlapped, \* history: two syncs of this mirror were under way at once
  returns

mirrorVars == <<size, offset, sync, transcript, kept, base, overlapped, returns>>

Lines == DOMAIN LineEnd

\* The byte after which line i + 1 starts.
EndOf(i) == IF i = 0 THEN 0 ELSE LineEnd[i]
Total    == EndOf(Len(LineEnd))

\* idle; open: the file is being opened; read: the bytes between from and to are being
\* read; close: the file is being closed, then the lines are recorded.
Syncing(at, from, to, lines) == [at |-> at, from |-> from, to |-> to, lines |-> lines]
NoSync == Syncing("idle", 0, 0, <<>>)

MirrorInit ==
  /\ size       = 0
  /\ offset     = 0
  /\ sync       = [h \in Caller |-> NoSync]
  /\ transcript = <<>>
  /\ kept       = <<>>
  /\ base       = <<>>
  /\ overlapped = FALSE
  /\ returns    = 0

-----------------------------------------------------------------------------
\* Claude Code appends some bytes, possibly a part of a line.
Appends(n) ==
  /\ size + n <= Total
  /\ size' = size + n
  /\ UNCHANGED <<offset, sync, transcript, kept, base, overlapped, returns>>

\* A hook event calls mirrorTranscript; sync awaits open.
Opens(h) ==
  /\ sync[h] = NoSync
  /\ sync' = [sync EXCEPT ![h] = Syncing("open", 0, 0, <<>>)]
  /\ overlapped' = (overlapped \/ \E g \in Caller : sync[g] # NoSync)
  /\ UNCHANGED <<size, offset, transcript, kept, base, returns>>

\* The file is missing, or nothing was appended: no lines.
FindsNothing(h) ==
  /\ sync[h].at = "open"
  /\ size <= offset
  /\ sync' = [sync EXCEPT ![h] = IF size = 0 THEN NoSync ELSE Syncing("close", 0, 0, <<>>)]
  /\ UNCHANGED <<size, offset, transcript, kept, base, overlapped, returns>>

\* Open and stat returned: everything behind the offset is read.
Sizes(h) ==
  /\ sync[h].at = "open"
  /\ size > offset
  /\ sync' = [sync EXCEPT ![h] = Syncing("read", offset, size, <<>>)]
  /\ UNCHANGED <<size, offset, transcript, kept, base, overlapped, returns>>

\* The newlines among the bytes between from and to.
LineEnds(from, to) == {EndOf(i) : i \in Lines} \cap (from + 1 .. to)

\* How many lines have ended by byte b, and how many have begun before it.
EndedBy(b)     == Max({0} \cup {i \in Lines : EndOf(i) <= b})
BegunBefore(b) == Min({i \in 0 .. Len(LineEnd) : b <= EndOf(i)})

\* The lines that lie between from and to; a line whose head is missing does not parse.
LinesIn(from, to) == SubSeq([i \in Lines |-> i], BegunBefore(from) + 1, EndedBy(to))

\* Mutant: a partial line is consumed with the complete ones.
ReadsAll(h) ==
  /\ sync[h].at = "read"
  /\ LET lines == LinesIn(sync[h].from, sync[h].to) IN
       /\ offset'  = offset + (sync[h].to - sync[h].from)
       /\ sync'    = [sync EXCEPT ![h] = Syncing("close", sync[h].from, sync[h].to, lines)]
  /\ UNCHANGED <<size, transcript, kept, base, overlapped, returns>>

\* Mutant: the first newline is looked for, not the last.
ReadsToFirst(h) ==
  /\ sync[h].at = "read"
  /\ LET from  == sync[h].from
         ends  == LineEnds(from, sync[h].to)
         upTo  == IF ends = {} THEN from ELSE Min(ends)
         lines == LinesIn(from, upTo)
     IN /\ offset'  = offset + (upTo - from)
        /\ sync'    = [sync EXCEPT ![h] = Syncing("close", from, sync[h].to, lines)]
  /\ UNCHANGED <<size, transcript, kept, base, overlapped, returns>>

\* The read returned: the offset moves on by the complete lines it brought, wherever
\* it is by now.
Reads(h) ==
  /\ sync[h].at = "read"
  /\ LET from  == sync[h].from
         ends  == LineEnds(from, sync[h].to)
         upTo  == IF ends = {} THEN from ELSE Max(ends)
         lines == LinesIn(from, upTo)
     IN /\ offset'  = offset + (upTo - from)
        /\ sync'    = [sync EXCEPT ![h] = Syncing("close", from, sync[h].to, lines)]
  /\ UNCHANGED <<size, transcript, kept, base, overlapped, returns>>

\* The file is closed, sync returns, its lines join the transcript.  On a Stop the
\* transcript is persisted right after.
Records(h) ==
  /\ sync[h].at = "close"
  /\ transcript' = transcript \o sync[h].lines
  /\ sync'       = [sync EXCEPT ![h] = NoSync]
  /\ kept' \in {kept, transcript'}
  /\ UNCHANGED <<size, offset, base, overlapped, returns>>

\* The daemon returns: the transcript as it was kept, and no mirror yet.
Returns ==
  /\ returns < MaxReturns
  /\ returns'   = returns + 1
  /\ transcript' = kept
  /\ base'       = kept
  /\ offset'     = 0
  /\ sync'       = [h \in Caller |-> NoSync]
  /\ overlapped' = FALSE
  /\ UNCHANGED <<size, kept>>

MirrorNext ==
  \/ \E n \in 1 .. Total : Appends(n)
  \/ \E h \in Caller : Opens(h) \/ FindsNothing(h) \/ Sizes(h) \/ Reads(h) \/ Records(h)
  \/ Returns

MirrorSpec == MirrorInit /\ [][MirrorNext]_mirrorVars

-----------------------------------------------------------------------------
(* Properties. *)

\* Every variable stays in its domain.
MirrorTypeOK ==
  /\ size \in 0 .. Total /\ offset \in Nat
  /\ sync \in [Caller -> [at : {"idle", "open", "read", "close"}, from : Nat, to : Nat,
                         lines : Seq(Lines)]]
  /\ transcript \in Seq(Lines) /\ kept \in Seq(Lines) /\ base \in Seq(Lines)
  /\ overlapped \in BOOLEAN /\ returns \in 0 .. MaxReturns

\* As long as no two syncs of a process overlapped, it has added the log up to the
\* offset to the transcript it started with, line for line and in order, however the
\* writes of Claude Code cut its lines (but for the lines that the one sync under way has
\* read and not recorded); and a sync that read leaves no complete line of what it sized
\* for a later event, which may never come.
MirrorsTheLog ==
  ~overlapped =>
    \E h \in Caller :
      /\ \A g \in Caller \ {h} : sync[g] = NoSync
      /\ transcript \o sync[h].lines = base \o LinesIn(0, offset)
      /\ sync[h].at = "close" => LineEnds(offset, sync[h].to) = {}
=============================================================================
