-------------------------- MODULE DaemonLocalProofs -------------------------
(***************************************************************************)
(* What holds of four parts of a daemon that work beside each other, for   *)
(* every set of sessions, hook events, lines and connections and every     *)
(* bound. SessionStore: coalescing and failing writes lose no newest       *)
(* snapshot; a reap that raced nothing leaves nothing behind. Adoption: an *)
(* event goes on with its own session's card, and cards are not made twice *)
(* without an excuse. TranscriptMirror: the transcript is the log, as long *)
(* as syncs do not overlap. LinkHealth: a link that works is only taken    *)
(* down when answers are slow round after round. Types: of all four.       *)
(***************************************************************************)
EXTENDS SessionStore, Adoption, TranscriptMirror, LinkHealth, FiniteSetTheorems,
        SequenceTheorems, WellFoundedInduction, TLAPS

\* There is nothing of a session that never had a record.
Fresh ==
  \A s \in Session : made[s] = 0 =>
    /\ rec[s] = 0 /\ latest[s] = 0 /\ disk[s] = Absent /\ flush[s] = FlushIdle
    /\ reap[s] = "idle" /\ exporting[s] = 0 /\ dropped[s] = {} /\ s \notin reaped

\* An export awaits the key for a held record; a process that is down has nothing under way.
Held ==
  \A s \in Session :
    /\ exporting[s] # 0 => rec[s] # 0
    /\ ~up => /\ rec[s] = 0 /\ s \notin run /\ exporting[s] = 0 /\ dropped[s] = {}
              /\ latest[s] = 0 /\ flush[s] = FlushIdle /\ reap[s] = "idle"

\* A flush that has opened the file, or is about to, has its snapshot or a newer one still
\* queued, and what is queued is the newest.
Queued ==
  \A s \in Session \ raced :
    /\ dropped[s] = {}
    /\ saved[s] # 0 /\ latest[s] # 0 => saved[s] = latest[s]
    /\ flush[s].at \in {"open", "write"} => latest[s] # 0
    /\ flush[s].at = "write" => disk[s] = Torn

\* A session that a reap forgot without a race never moves again.
Still(s) ==
  /\ rec[s] = 0 /\ made[s] # 0 /\ s \notin run /\ exporting[s] = 0
  /\ latest[s] = 0 /\ flush[s] = FlushIdle
Forgotten ==
  /\ \A s \in Session \ raced : reap[s] = "unlink" => Still(s)
  /\ \A s \in reaped \ (raced \cup stuck) : Still(s) /\ disk[s] = Absent /\ reap[s] = "idle"

IInv == TypeOK /\ Held /\ Fresh /\ Queued /\ Forgotten /\ NewestSurvives

USE StoreConstants

LEMMA InitIInv == Init => IInv
<1> SUFFICES ASSUME Init PROVE IInv
  OBVIOUS
<1>1. TypeOK
  BY DEF Init, TypeOK, FlushIdle, Step, Absent, Torn
<1>2. Held /\ Fresh /\ Queued /\ Forgotten /\ NewestSurvives
  BY DEF Init, Held, Fresh, Queued, Forgotten, NewestSurvives, FlushIdle, Step
<1>3. QED
  BY <1>1, <1>2 DEF IInv

LEMMA TypeStep == TypeOK /\ Held /\ [Next]_vars => TypeOK'
<1> SUFFICES ASSUME TypeOK /\ Held, [Next]_vars PROVE TypeOK'
  OBVIOUS
<1>1. ASSUME NEW s \in Session, TurnBegins(s)
      PROVE  TypeOK'
  BY <1>1 DEF TurnBegins, Changes, history, TypeOK
<1>2. ASSUME NEW s \in Session, TurnSettles(s)
      PROVE  TypeOK'
  BY <1>2 DEF TurnSettles, Changes, history, TypeOK
<1>3. ASSUME NEW s \in Session, Exported(s)
      PROVE  TypeOK'
  BY <1>3 DEF Exported, Save, Step, TypeOK
<1>4. ASSUME NEW s \in Session, ExportedDropped(s)
      PROVE  TypeOK'
  BY <1>4 DEF ExportedDropped, Save, history, Step, Version, TypeOK
<1>5. ASSUME NEW s \in Session, DirMade(s)
      PROVE  TypeOK'
  BY <1>5 DEF DirMade, NextWrite, history, FlushIdle, Step, TypeOK
<1>6. ASSUME NEW s \in Session, Truncated(s)
      PROVE  TypeOK'
  BY <1>6 DEF Truncated, history, FlushIdle, Step, Torn, TypeOK
<1>7. ASSUME NEW s \in Session, Written(s)
      PROVE  TypeOK'
  BY <1>7 DEF Written, NextWrite, history, FlushIdle, Step, Torn, TypeOK
<1>8. ASSUME NEW s \in Session, WriteFails(s)
      PROVE  TypeOK'
  BY <1>8 DEF WriteFails, history, FlushIdle, Step, TypeOK
<1>9. ASSUME NEW s \in Session, ReapAsked(s)
      PROVE  TypeOK'
  BY <1>9 DEF ReapAsked, history, TypeOK
<1>10. ASSUME NEW s \in Session, GitRefuses(s)
       PROVE  TypeOK'
  BY <1>10 DEF GitRefuses, history, TypeOK
<1>11. ASSUME NEW s \in Session, GitRemoves(s)
       PROVE  TypeOK'
  <2>1. rec' \in [Session -> 0 .. MaxVersion] /\ made' \in [Session -> 0 .. MaxVersion]
    BY <1>11 DEF GitRemoves, TypeOK
  <2>2. run' \subseteq Session /\ up' \in BOOLEAN
    BY <1>11 DEF GitRemoves, TypeOK
  <2>3. exporting' \in [Session -> 0 .. MaxExports]
    BY <1>11 DEF GitRemoves, Forget, TypeOK
  <2>4. dropped' \in [Session -> SUBSET Version]
    BY <1>11 DEF GitRemoves, Forget, Version, TypeOK, Held
  <2>5. latest' \in [Session -> 0 .. MaxVersion] /\ saved' \in [Session -> 0 .. MaxVersion]
    BY <1>11 DEF GitRemoves, Forget, TypeOK
  <2>6. flush' \in [Session -> [at : {"idle", "mkdir", "open", "write"}, of : 0 .. MaxVersion]]
    BY <1>11 DEF GitRemoves, TypeOK
  <2>7. disk' \in [Session -> 0 .. Torn]
    BY <1>11 DEF GitRemoves, TypeOK
  <2>8. reap' \in [Session -> {"idle", "git", "unlink"}]
    BY <1>11 DEF GitRemoves, Forget, TypeOK
  <2>9. reaped' \subseteq Session /\ raced' \subseteq Session /\ stuck' \subseteq Session
    BY <1>11 DEF GitRemoves, Forget, TypeOK
  <2>10. QED
    BY <2>1, <2>2, <2>3, <2>4, <2>5, <2>6, <2>7, <2>8, <2>9 DEF TypeOK
<1>12. ASSUME NEW s \in Session, Unlinked(s)
       PROVE  TypeOK'
  BY <1>12 DEF Unlinked, Absent, Torn, TypeOK
<1>13. CASE Dies
  <2>1. rec' \in [Session -> 0 .. MaxVersion] /\ made' \in [Session -> 0 .. MaxVersion]
    BY <1>13 DEF Dies, TypeOK
  <2>2. run' \subseteq Session /\ up' \in BOOLEAN
    BY <1>13 DEF Dies
  <2>3. exporting' \in [Session -> 0 .. MaxExports]
    BY <1>13 DEF Dies
  <2>4. dropped' \in [Session -> SUBSET Version]
    BY <1>13 DEF Dies
  <2>5. latest' \in [Session -> 0 .. MaxVersion] /\ saved' \in [Session -> 0 .. MaxVersion]
    BY <1>13 DEF Dies
  <2>6. flush' \in [Session -> [at : {"idle", "mkdir", "open", "write"}, of : 0 .. MaxVersion]]
    BY <1>13 DEF Dies, FlushIdle, Step
  <2>7. disk' \in [Session -> 0 .. Torn]
    BY <1>13 DEF Dies, TypeOK
  <2>8. reap' \in [Session -> {"idle", "git", "unlink"}]
    BY <1>13 DEF Dies
  <2>9. reaped' \subseteq Session /\ raced' \subseteq Session /\ stuck' \subseteq Session
    BY <1>13 DEF Dies, TypeOK
  <2>10. QED
    BY <2>1, <2>2, <2>3, <2>4, <2>5, <2>6, <2>7, <2>8, <2>9 DEF TypeOK
<1>14. CASE Restarts
  BY <1>14 DEF Restarts, history, Version, TypeOK
<1>15. CASE UNCHANGED vars
  BY <1>15 DEF vars, memory, history, TypeOK
<1>16. QED
  BY <1>1, <1>2, <1>3, <1>4, <1>5, <1>6, <1>7, <1>8, <1>9, <1>10, <1>11,
     <1>12, <1>13, <1>14, <1>15 DEF Next

LEMMA HeldStep == TypeOK /\ Held /\ [Next]_vars => Held'
<1> SUFFICES ASSUME TypeOK /\ Held, [Next]_vars PROVE Held'
  OBVIOUS
<1>1. ASSUME NEW s \in Session, TurnBegins(s)
      PROVE  Held'
  BY <1>1 DEF TurnBegins, Changes, TypeOK, Held
<1>2. ASSUME NEW s \in Session, TurnSettles(s)
      PROVE  Held'
  BY <1>2 DEF TurnSettles, Changes, TypeOK, Held
<1>3. ASSUME NEW s \in Session, Exported(s)
      PROVE  Held'
  BY <1>3 DEF Exported, Held
<1>4. ASSUME NEW s \in Session, ExportedDropped(s)
      PROVE  Held'
  BY <1>4 DEF ExportedDropped, Held
<1>5. ASSUME NEW s \in Session, DirMade(s)
      PROVE  Held'
  BY <1>5 DEF DirMade, FlushIdle, Step, Held
<1>6. ASSUME NEW s \in Session, Truncated(s)
      PROVE  Held'
  BY <1>6 DEF Truncated, FlushIdle, Step, Held
<1>7. ASSUME NEW s \in Session, Written(s)
      PROVE  Held'
  BY <1>7 DEF Written, FlushIdle, Step, Held
<1>8. ASSUME NEW s \in Session, WriteFails(s)
      PROVE  Held'
  BY <1>8 DEF WriteFails, Held
<1>9. ASSUME NEW s \in Session, ReapAsked(s)
      PROVE  Held'
  BY <1>9 DEF ReapAsked, Held
<1>10. ASSUME NEW s \in Session, GitRefuses(s)
       PROVE  Held'
  BY <1>10 DEF GitRefuses, Held
<1>11. ASSUME NEW s \in Session, GitRemoves(s)
       PROVE  Held'
  BY <1>11 DEF GitRemoves, Forget, TypeOK, Held
<1>12. ASSUME NEW s \in Session, Unlinked(s)
       PROVE  Held'
  BY <1>12 DEF Unlinked, Held
<1>13. CASE Dies
  BY <1>13 DEF Dies, Held
<1>14. CASE Restarts
  BY <1>14 DEF Restarts, Held
<1>15. CASE UNCHANGED vars
  BY <1>15 DEF vars, memory, Held
<1>16. QED
  BY <1>1, <1>2, <1>3, <1>4, <1>5, <1>6, <1>7, <1>8, <1>9, <1>10, <1>11,
     <1>12, <1>13, <1>14, <1>15 DEF Next

LEMMA FreshStep == TypeOK /\ Fresh /\ [Next]_vars => Fresh'
<1> SUFFICES ASSUME TypeOK /\ Fresh, [Next]_vars PROVE Fresh'
  OBVIOUS
<1>1. ASSUME NEW s \in Session, TurnBegins(s)
      PROVE  Fresh'
  BY <1>1 DEF TurnBegins, Changes, history, TypeOK, Fresh
<1>2. ASSUME NEW s \in Session, TurnSettles(s)
      PROVE  Fresh'
  BY <1>2 DEF TurnSettles, Changes, history, TypeOK, Fresh
<1>3. ASSUME NEW s \in Session, Exported(s)
      PROVE  Fresh'
  BY <1>3 DEF Exported, Save, Fresh
<1>4. ASSUME NEW s \in Session, ExportedDropped(s)
      PROVE  Fresh'
  BY <1>4 DEF ExportedDropped, Save, history, Fresh
<1>5. ASSUME NEW s \in Session, DirMade(s)
      PROVE  Fresh'
  BY <1>5 DEF DirMade, NextWrite, history, Fresh
<1>6. ASSUME NEW s \in Session, Truncated(s)
      PROVE  Fresh'
  BY <1>6 DEF Truncated, history, FlushIdle, Step, Fresh
<1>7. ASSUME NEW s \in Session, Written(s)
      PROVE  Fresh'
  BY <1>7 DEF Written, NextWrite, history, Fresh
<1>8. ASSUME NEW s \in Session, WriteFails(s)
      PROVE  Fresh'
  BY <1>8 DEF WriteFails, history, Fresh
<1>9. ASSUME NEW s \in Session, ReapAsked(s)
      PROVE  Fresh'
  BY <1>9 DEF ReapAsked, history, Fresh
<1>10. ASSUME NEW s \in Session, GitRefuses(s)
       PROVE  Fresh'
  BY <1>10 DEF GitRefuses, history, Fresh
<1>11. ASSUME NEW s \in Session, GitRemoves(s)
       PROVE  Fresh'
  BY <1>11 DEF GitRemoves, Forget, Fresh
<1>12. ASSUME NEW s \in Session, Unlinked(s)
       PROVE  Fresh'
  BY <1>12 DEF Unlinked, TypeOK, Fresh
<1>13. CASE Dies
  BY <1>13 DEF Dies, Fresh
<1>14. CASE Restarts
  BY <1>14 DEF Restarts, history, Absent, Fresh
<1>15. CASE UNCHANGED vars
  BY <1>15 DEF vars, memory, history, Fresh
<1>16. QED
  BY <1>1, <1>2, <1>3, <1>4, <1>5, <1>6, <1>7, <1>8, <1>9, <1>10, <1>11,
     <1>12, <1>13, <1>14, <1>15 DEF Next

LEMMA QueuedStep == IInv /\ [Next]_vars => Queued'
<1> SUFFICES ASSUME IInv, [Next]_vars PROVE Queued'
  OBVIOUS
<1>1. ASSUME NEW s \in Session, TurnBegins(s)
      PROVE  Queued'
  BY <1>1 DEF TurnBegins, history, IInv, Queued
<1>2. ASSUME NEW s \in Session, TurnSettles(s)
      PROVE  Queued'
  BY <1>2 DEF TurnSettles, history, IInv, Queued
<1>3. ASSUME NEW s \in Session, Exported(s)
      PROVE  Queued'
  BY <1>3 DEF Exported, Save, Step, TypeOK, IInv, Held, Queued
<1>4. ASSUME NEW s \in Session, ExportedDropped(s)
      PROVE  Queued'
  BY <1>4 DEF ExportedDropped, Save, history, IInv, Queued
<1>5. ASSUME NEW s \in Session, DirMade(s)
      PROVE  Queued'
  BY <1>5 DEF DirMade, NextWrite, history, FlushIdle, Step, IInv, Queued
<1>6. ASSUME NEW s \in Session, Truncated(s)
      PROVE  Queued'
  BY <1>6 DEF Truncated, history, TypeOK, IInv, Queued
<1>7. ASSUME NEW s \in Session, Written(s)
      PROVE  Queued'
  BY <1>7 DEF Written, NextWrite, history, FlushIdle, Step, TypeOK, IInv, Queued
<1>8. ASSUME NEW s \in Session, WriteFails(s)
      PROVE  Queued'
  BY <1>8 DEF WriteFails, history, FlushIdle, Step, IInv, Queued
<1>9. ASSUME NEW s \in Session, ReapAsked(s)
      PROVE  Queued'
  BY <1>9 DEF ReapAsked, history, IInv, Queued
<1>10. ASSUME NEW s \in Session, GitRefuses(s)
       PROVE  Queued'
  BY <1>10 DEF GitRefuses, history, IInv, Queued
<1>11. ASSUME NEW s \in Session, GitRemoves(s)
       PROVE  Queued'
  BY <1>11 DEF GitRemoves, Forget, FlushIdle, Step, IInv, Queued
<1>12. ASSUME NEW s \in Session, Unlinked(s)
       PROVE  Queued'
  BY <1>12 DEF Unlinked, TypeOK, IInv, Queued, Forgotten, Still
<1>13. CASE Dies
  BY <1>13 DEF Dies, FlushIdle, Step, Queued
<1>14. CASE Restarts
  BY <1>14 DEF Restarts, FlushIdle, Step, IInv, Held, Queued
<1>15. CASE UNCHANGED vars
  BY <1>15 DEF vars, memory, history, IInv, Queued
<1>16. QED
  BY <1>1, <1>2, <1>3, <1>4, <1>5, <1>6, <1>7, <1>8, <1>9, <1>10, <1>11,
     <1>12, <1>13, <1>14, <1>15 DEF Next

LEMMA ForgottenStep == IInv /\ [Next]_vars => Forgotten'
<1> SUFFICES ASSUME IInv, [Next]_vars PROVE Forgotten'
  OBVIOUS
<1>1. ASSUME NEW s \in Session, TurnBegins(s)
      PROVE  Forgotten'
  BY <1>1 DEF TurnBegins, Changes, history, IInv, Forgotten, Still
<1>2. ASSUME NEW s \in Session, TurnSettles(s)
      PROVE  Forgotten'
  BY <1>2 DEF TurnSettles, Changes, history, IInv, Forgotten, Still
<1>3. ASSUME NEW s \in Session, Exported(s)
      PROVE  Forgotten'
  BY <1>3 DEF Exported, Save, IInv, Forgotten, Still
<1>4. ASSUME NEW s \in Session, ExportedDropped(s)
      PROVE  Forgotten'
  BY <1>4 DEF ExportedDropped, Save, history, IInv, Queued, Forgotten, Still
<1>5. ASSUME NEW s \in Session, DirMade(s)
      PROVE  Forgotten'
  BY <1>5 DEF DirMade, NextWrite, history, IInv, Forgotten, Still
<1>6. ASSUME NEW s \in Session, Truncated(s)
      PROVE  Forgotten'
  BY <1>6 DEF Truncated, history, IInv, Queued, Forgotten, Still
<1>7. ASSUME NEW s \in Session, Written(s)
      PROVE  Forgotten'
  BY <1>7 DEF Written, NextWrite, history, IInv, Forgotten, Still
<1>8. ASSUME NEW s \in Session, WriteFails(s)
      PROVE  Forgotten'
  BY <1>8 DEF WriteFails, history, IInv, Forgotten, Still
<1>9. ASSUME NEW s \in Session, ReapAsked(s)
      PROVE  Forgotten'
  BY <1>9 DEF ReapAsked, history, IInv, Forgotten, Still
<1>10. ASSUME NEW s \in Session, GitRefuses(s)
       PROVE  Forgotten'
  BY <1>10 DEF GitRefuses, history, IInv, Forgotten, Still
<1>11. ASSUME NEW s \in Session, GitRemoves(s)
       PROVE  Forgotten'
  BY <1>11 DEF GitRemoves, Forget, TypeOK, IInv, Fresh, Forgotten, Still
<1>12. ASSUME NEW s \in Session, Unlinked(s)
       PROVE  Forgotten'
  BY <1>12 DEF Unlinked, TypeOK, IInv, Forgotten, Still
<1>13. CASE Dies
  BY <1>13 DEF Dies, TypeOK, IInv, Forgotten, Still
<1>14. CASE Restarts
  BY <1>14 DEF Restarts, history, Absent, TypeOK, IInv, Held, Forgotten, Still
<1>15. CASE UNCHANGED vars
  BY <1>15 DEF vars, memory, history, IInv, Forgotten, Still
<1>16. QED
  BY <1>1, <1>2, <1>3, <1>4, <1>5, <1>6, <1>7, <1>8, <1>9, <1>10, <1>11,
     <1>12, <1>13, <1>14, <1>15 DEF Next

LEMMA NewestStep == IInv /\ [Next]_vars => NewestSurvives'
<1> SUFFICES ASSUME IInv, [Next]_vars PROVE NewestSurvives'
  OBVIOUS
<1>1. ASSUME NEW s \in Session, TurnBegins(s)
      PROVE  NewestSurvives'
  BY <1>1 DEF TurnBegins, history, IInv, NewestSurvives
<1>2. ASSUME NEW s \in Session, TurnSettles(s)
      PROVE  NewestSurvives'
  BY <1>2 DEF TurnSettles, history, IInv, NewestSurvives
<1>3. ASSUME NEW s \in Session, Exported(s)
      PROVE  NewestSurvives'
  BY <1>3 DEF Exported, Save, TypeOK, IInv, NewestSurvives
<1>4. ASSUME NEW s \in Session, ExportedDropped(s)
      PROVE  NewestSurvives'
  BY <1>4 DEF ExportedDropped, Save, history, IInv, Queued, NewestSurvives
<1>5. ASSUME NEW s \in Session, DirMade(s)
      PROVE  NewestSurvives'
  BY <1>5 DEF DirMade, history, IInv, NewestSurvives
<1>6. ASSUME NEW s \in Session, Truncated(s)
      PROVE  NewestSurvives'
  BY <1>6 DEF Truncated, history, IInv, Queued, NewestSurvives
<1>7. ASSUME NEW s \in Session, Written(s)
      PROVE  NewestSurvives'
  BY <1>7 DEF Written, history, Absent, Torn, TypeOK, IInv, Queued, NewestSurvives
<1>8. ASSUME NEW s \in Session, WriteFails(s)
      PROVE  NewestSurvives'
  BY <1>8 DEF WriteFails, history, IInv, NewestSurvives
<1>9. ASSUME NEW s \in Session, ReapAsked(s)
      PROVE  NewestSurvives'
  BY <1>9 DEF ReapAsked, history, IInv, NewestSurvives
<1>10. ASSUME NEW s \in Session, GitRefuses(s)
       PROVE  NewestSurvives'
  BY <1>10 DEF GitRefuses, history, IInv, NewestSurvives
<1>11. ASSUME NEW s \in Session, GitRemoves(s)
       PROVE  NewestSurvives'
  BY <1>11 DEF GitRemoves, Forget, TypeOK, IInv, NewestSurvives
<1>12. ASSUME NEW s \in Session, Unlinked(s)
       PROVE  NewestSurvives'
  BY <1>12 DEF Unlinked, TypeOK, IInv, NewestSurvives
<1>13. CASE Dies
  BY <1>13 DEF Dies, NewestSurvives
<1>14. CASE Restarts
  BY <1>14 DEF Restarts, history, IInv, NewestSurvives
<1>15. CASE UNCHANGED vars
  BY <1>15 DEF vars, memory, history, IInv, NewestSurvives
<1>16. QED
  BY <1>1, <1>2, <1>3, <1>4, <1>5, <1>6, <1>7, <1>8, <1>9, <1>10, <1>11,
     <1>12, <1>13, <1>14, <1>15 DEF Next

LEMMA Invariant == Spec => []IInv
<1>1. IInv /\ [Next]_vars => IInv'
  BY TypeStep, HeldStep, FreshStep, QueuedStep, ForgottenStep, NewestStep DEF IInv
<1>2. QED
  BY InitIInv, <1>1, PTL DEF Spec

-----------------------------------------------------------------------------
\* Every variable stays in its domain.
THEOREM TypeCorrect == Spec => []TypeOK
<1>1. IInv => TypeOK
  BY DEF IInv
<1>2. QED
  BY Invariant, <1>1, PTL

\* save, flush and its failures, for however many overlapping saves: the newest snapshot
\* is in the file or queued (session-store.ts).
THEOREM NewestKept == Spec => []NewestSurvives
<1>1. IInv => NewestSurvives
  BY DEF IInv
<1>2. QED
  BY Invariant, <1>1, PTL

\* A reap that meets no run, export or write leaves neither file nor record, whatever
\* restarts follow (handleWorkspaceReap, remove).
THEOREM ReapedForGood == Spec => []OnlyARacedReapLeavesATrace
<1>1. IInv => OnlyARacedReapLeavesATrace
  BY DEF IInv, Forgotten, Still, OnlyARacedReapLeavesATrace
<1>2. QED
  BY Invariant, <1>1, PTL
-----------------------------------------------------------------------------
(* Adoption *)

CardsOf(c) == {k \in Card : of[k] = c}

\* An announce not made yet is nobody's.
Unannounced == \A k \in Card : stage[k] = "new" => of[k] = NoClaude

\* A session is bound to a card announced for it, on disk as well, and to none while an
\* announce of it is waited for.
OwnBindings ==
  \A c \in Claude :
    /\ bound[c] # NoCard => of[bound[c]] = c
    /\ filed[c] # NoCard => of[filed[c]] = c
    /\ c \in pending => bound[c] = NoCard

\* A session that may announce itself anew has an excuse for every card it has.
Excused ==
  \A c \in Claude :
    /\ Cardinality(CardsOf(c)) <= 1 + excuses[c]
    /\ bound[c] = NoCard /\ c \notin pending => Cardinality(CardsOf(c)) <= excuses[c]

CInv == AdoptionTypeOK /\ Unannounced /\ OwnBindings /\ HookHasItsCard /\ Excused

LEMMA CardsAreCounted ==
  \A c : IsFiniteSet(CardsOf(c)) /\ Cardinality(CardsOf(c)) \in Nat
<1>1. IsFiniteSet(Card)
  BY FS_Interval, AdoptionConstants DEF Card
<1>2. \A c : CardsOf(c) \subseteq Card
  BY DEF CardsOf
<1>3. QED
  BY <1>1, <1>2, FS_Subset, FS_CardinalityType

\* Where no card is announced.
LEMMA SameCards ==
  ASSUME CInv, UNCHANGED of,
         \A c \in Claude : /\ excuses'[c] \in Nat /\ excuses[c] <= excuses'[c]
                           /\ bound'[c] = NoCard /\ c \notin pending' =>
                                \/ bound[c] = NoCard /\ c \notin pending
                                \/ excuses[c] < excuses'[c]
  PROVE  Excused'
<1>1. \A c : CardsOf(c)' = CardsOf(c)
  BY DEF CardsOf
<1>2. ASSUME NEW c \in Claude
      PROVE  /\ Cardinality(CardsOf(c)) <= 1 + excuses'[c]
             /\ bound'[c] = NoCard /\ c \notin pending' =>
                  Cardinality(CardsOf(c)) <= excuses'[c]
  <2>1. Cardinality(CardsOf(c)) \in Nat /\ excuses[c] \in Nat
    BY CardsAreCounted DEF CInv, AdoptionTypeOK
  <2>2. /\ Cardinality(CardsOf(c)) <= 1 + excuses[c]
        /\ bound[c] = NoCard /\ c \notin pending => Cardinality(CardsOf(c)) <= excuses[c]
    BY DEF CInv, Excused
  <2>3. QED
    BY <2>1, <2>2
<1>3. QED
  BY <1>1, <1>2 DEF Excused

LEMMA AdoptionStep == CInv /\ [AdoptionNext]_adoptionVars => CInv'
<1> SUFFICES ASSUME CInv, [AdoptionNext]_adoptionVars PROVE CInv'
  OBVIOUS
<1>0. /\ AdoptionTypeOK /\ Unannounced /\ OwnBindings /\ HookHasItsCard
      /\ NoCard \notin Card /\ \A c \in Claude : excuses[c] \in Nat
  BY DEF CInv, AdoptionTypeOK, NoCard, Card
<1>1. ASSUME NEW h \in Hook, HookLeaves(h)
      PROVE  CInv'
  <2>1. /\ hook' = [hook EXCEPT ![h] = NoHook]
        /\ UNCHANGED <<bound, pending, linked, stage, of, filed, excuses, restarts>>
    BY <1>1 DEF HookLeaves
  <2>2. AdoptionTypeOK'
    BY <1>0, <2>1 DEF AdoptionTypeOK
  <2>3. Unannounced' /\ OwnBindings'
    BY <1>0, <2>1 DEF Unannounced, OwnBindings
  <2>4. HookHasItsCard'
    BY <1>0, <2>1 DEF HookHasItsCard, AdoptionTypeOK, NoHook, Answer
  <2>5. Excused'
    BY <1>0, <2>1, SameCards
  <2>6. QED
    BY <2>2, <2>3, <2>4, <2>5 DEF CInv
<1>2. ASSUME NEW h \in Hook, NEW c \in Claude, Recognises(h, c) \/ Joins(h, c)
      PROVE  CInv'
  <2>1. UNCHANGED <<bound, pending, linked, stage, of, filed, excuses, restarts>>
    BY <1>2 DEF Recognises, Joins
  <2>2. PICK a : /\ hook' = [hook EXCEPT ![h] = a]
                 /\ \/ a = Answer("adopted", c, bound[c]) /\ bound[c] # NoCard
                    \/ a = Answer("waiting", c, NoCard) /\ c \in pending
    BY <1>2 DEF Recognises, Joins
  <2>3. AdoptionTypeOK'
    BY <1>0, <2>1, <2>2 DEF AdoptionTypeOK, Answer
  <2>4. Unannounced' /\ OwnBindings'
    BY <1>0, <2>1 DEF Unannounced, OwnBindings
  <2>5. HookHasItsCard'
    BY <1>0, <2>1, <2>2 DEF HookHasItsCard, OwnBindings, AdoptionTypeOK, Answer
  <2>6. Excused'
    BY <1>0, <2>1, SameCards
  <2>7. QED
    BY <2>3, <2>4, <2>5, <2>6 DEF CInv
<1>3. ASSUME NEW h \in Hook, NEW c \in Claude, Announces(h, c)
      PROVE  CInv'
  <2>1. PICK k \in Card : /\ stage[k] = "new"
                          /\ stage' = [stage EXCEPT ![k] = IF linked THEN "wire" ELSE "over"]
                          /\ of' = [of EXCEPT ![k] = c]
    BY <1>3 DEF Announces, Announce
  <2>2. /\ bound[c] = NoCard /\ c \notin pending /\ pending' = pending \cup {c}
        /\ hook' = [hook EXCEPT ![h] = Answer("waiting", c, NoCard)]
        /\ UNCHANGED <<bound, linked, filed, excuses, restarts>>
    BY <1>3 DEF Announces, Announce
  <2>3. AdoptionTypeOK'
    BY <1>0, <2>1, <2>2 DEF AdoptionTypeOK, Answer
  <2>4. of[k] = NoClaude /\ NoClaude \notin Claude
    BY <1>0, <2>1, AdoptionConstants DEF Unannounced
  <2>5. Unannounced'
    BY <1>0, <2>1 DEF Unannounced, AdoptionTypeOK
  <2>6. OwnBindings'
    BY <1>0, <2>1, <2>2, <2>4 DEF OwnBindings, AdoptionTypeOK
  <2>7. HookHasItsCard'
    <3>1. hook'[h] = Answer("waiting", c, NoCard)
      BY <1>0, <2>2 DEF AdoptionTypeOK
    <3>2. \A g \in Hook : g # h => hook'[g] = hook[g]
      BY <1>0, <2>2 DEF AdoptionTypeOK
    <3>3. ASSUME NEW g \in Hook, hook[g].at = "adopted"
          PROVE  of'[hook[g].card] = of[hook[g].card]
      <4>1. hook[g].of \in Claude
        BY <1>0, <3>3 DEF AdoptionTypeOK, NoHook, Answer
      <4>2. hook[g].card # k
        BY <1>0, <2>4, <3>3, <4>1 DEF HookHasItsCard
      <4>3. QED
        BY <1>0, <2>1, <4>2 DEF AdoptionTypeOK
    <3>4. QED
      BY <1>0, <2>2, <3>1, <3>2, <3>3 DEF HookHasItsCard, Answer
  <2>8. /\ CardsOf(c)' = CardsOf(c) \cup {k} /\ k \notin CardsOf(c)
        /\ \A b \in Claude : b # c => CardsOf(b)' = CardsOf(b)
    BY <1>0, <2>1, <2>4 DEF CardsOf, AdoptionTypeOK
  <2>9. Cardinality(CardsOf(c)') = Cardinality(CardsOf(c)) + 1
    BY <2>8, CardsAreCounted, FS_AddElement
  <2>10. Cardinality(CardsOf(c)) <= excuses[c] /\ Cardinality(CardsOf(c)) \in Nat
    BY <2>2, CardsAreCounted DEF CInv, Excused
  <2>11. Cardinality(CardsOf(c)') <= 1 + excuses[c]
    BY <1>0, <2>9, <2>10
  <2>12. Excused'
    BY <2>2, <2>8, <2>11 DEF CInv, Excused
  <2>13. QED
    BY <2>3, <2>5, <2>6, <2>7, <2>12 DEF CInv
<1>4. ASSUME NEW c \in Claude, AckTimesOut(c)
      PROVE  CInv'
  <2>1. /\ c \in pending /\ pending' = pending \ {c}
        /\ hook' = [h \in Hook |-> IF hook[h].at = "waiting" /\ hook[h].of = c
                                     THEN Answer("local", c, NoCard) ELSE hook[h]]
        /\ excuses' = [excuses EXCEPT ![c] = @ + 1]
        /\ UNCHANGED <<bound, linked, stage, of, filed, restarts>>
    BY <1>4 DEF AckTimesOut, Releases
  <2>2. AdoptionTypeOK'
    BY <1>0, <2>1 DEF AdoptionTypeOK, Answer
  <2>3. Unannounced' /\ OwnBindings'
    BY <1>0, <2>1 DEF Unannounced, OwnBindings
  <2>4. HookHasItsCard'
    BY <1>0, <2>1 DEF HookHasItsCard, Answer
  <2>5. \A b \in Claude : excuses'[b] = IF b = c THEN excuses[b] + 1 ELSE excuses[b]
    BY <1>0, <2>1 DEF AdoptionTypeOK
  <2>6. Excused'
    BY <1>0, <2>1, <2>5, SameCards
  <2>7. QED
    BY <2>2, <2>3, <2>4, <2>6 DEF CInv
<1>5. ASSUME NEW k \in Card, ReadsAck(k)
      PROVE  CInv'
  <2>1. /\ stage[k] = "acking" /\ stage' = [stage EXCEPT ![k] = "over"]
        /\ UNCHANGED <<linked, of, filed, excuses, restarts>>
    BY <1>5 DEF ReadsAck
  <2>2. Unannounced'
    BY <1>0, <2>1 DEF Unannounced, AdoptionTypeOK
  <2>3. CASE of[k] \notin pending
    <3>1. UNCHANGED <<bound, pending, hook>>
      BY <1>5, <2>3 DEF ReadsAck
    <3>2. AdoptionTypeOK'
      BY <1>0, <2>1, <3>1 DEF AdoptionTypeOK
    <3>3. OwnBindings' /\ HookHasItsCard'
      BY <1>0, <2>1, <3>1 DEF OwnBindings, HookHasItsCard
    <3>4. Excused'
      BY <1>0, <2>1, <3>1, SameCards
    <3>5. QED
      BY <2>2, <3>2, <3>3, <3>4 DEF CInv
  <2>4. CASE of[k] \in pending
    <3> DEFINE c == of[k]
    <3>1. /\ bound' = [bound EXCEPT ![c] = k] /\ pending' = pending \ {c}
          /\ hook' = [h \in Hook |-> IF hook[h].at = "waiting" /\ hook[h].of = c
                                       THEN Answer("adopted", c, k) ELSE hook[h]]
      BY <1>5, <2>4 DEF ReadsAck, Releases
    <3>2. c \in Claude /\ bound[c] = NoCard
      BY <1>0, <2>4 DEF AdoptionTypeOK, OwnBindings
    <3>3. of'[k] = c
      BY <2>1
    <3> HIDE DEF c
    <3>4. AdoptionTypeOK'
      BY <1>0, <2>1, <3>1, <3>2 DEF AdoptionTypeOK, Answer
    <3>5. OwnBindings'
      BY <1>0, <2>1, <3>1, <3>2, <3>3 DEF AdoptionTypeOK, OwnBindings
    <3>6. HookHasItsCard'
      <4> SUFFICES ASSUME NEW h \in Hook
                   PROVE  /\ hook'[h].at = "adopted" =>
                               /\ hook'[h].card = bound'[hook'[h].of]
                               /\ of'[hook'[h].card] = hook'[h].of
                          /\ hook'[h].at = "waiting" => hook'[h].of \in pending'
        BY DEF HookHasItsCard
      <4>1. CASE hook[h].at = "waiting" /\ hook[h].of = c
        <5>1. hook'[h] = Answer("adopted", c, k)
          BY <3>1, <4>1
        <5>2. bound'[c] = k
          BY <1>0, <3>1, <3>2 DEF AdoptionTypeOK
        <5>3. QED
          BY <3>3, <5>1, <5>2 DEF Answer
      <4>2. CASE ~(hook[h].at = "waiting" /\ hook[h].of = c)
        <5>1. hook'[h] = hook[h]
          BY <3>1, <4>2
        <5>2. ASSUME hook[h].at = "adopted" PROVE bound'[hook[h].of] = bound[hook[h].of]
          <6>1. hook[h].of \in Claude /\ hook[h].card \in Card
            BY <1>0, <5>2 DEF AdoptionTypeOK, NoHook, Answer
          <6>2. hook[h].of # c
            BY <1>0, <3>2, <5>2, <6>1 DEF HookHasItsCard
          <6>3. QED
            BY <1>0, <3>1, <6>1, <6>2 DEF AdoptionTypeOK
        <5>3. QED
          BY <1>0, <2>1, <3>1, <4>2, <5>1, <5>2 DEF HookHasItsCard
      <4>3. QED
        BY <4>1, <4>2
    <3>7. \A b \in Claude : bound'[b] = NoCard /\ b \notin pending' =>
            bound[b] = NoCard /\ b \notin pending
      BY <1>0, <3>1, <3>2 DEF AdoptionTypeOK
    <3>8. Excused'
      BY <1>0, <2>1, <3>7, SameCards
    <3>9. QED
      BY <2>2, <3>4, <3>5, <3>6, <3>8 DEF CInv
  <2>5. QED
    BY <2>3, <2>4
<1>6. ASSUME NEW c \in Claude, FilesBinding(c)
      PROVE  CInv'
  <2>1. /\ bound[c] # NoCard /\ filed' = [filed EXCEPT ![c] = bound[c]]
        /\ UNCHANGED <<bound, pending, hook, linked, stage, of, excuses, restarts>>
    BY <1>6 DEF FilesBinding
  <2>2. AdoptionTypeOK'
    BY <1>0, <2>1 DEF AdoptionTypeOK
  <2>3. Unannounced' /\ OwnBindings' /\ HookHasItsCard'
    BY <1>0, <2>1 DEF Unannounced, OwnBindings, HookHasItsCard, AdoptionTypeOK
  <2>4. Excused'
    BY <1>0, <2>1, SameCards
  <2>5. QED
    BY <2>2, <2>3, <2>4 DEF CInv
\* What happens on the wire.
<1>7. ASSUME UNCHANGED <<bound, pending, hook, of, filed, excuses, restarts>>,
             linked' \in BOOLEAN,
             stage' \in [Card -> {"new", "wire", "acking", "over"}],
             \A k \in Card : stage'[k] = "new" => stage[k] = "new"
      PROVE  CInv'
  <2>1. AdoptionTypeOK'
    BY <1>0, <1>7 DEF AdoptionTypeOK
  <2>2. Unannounced' /\ OwnBindings' /\ HookHasItsCard'
    BY <1>0, <1>7 DEF Unannounced, OwnBindings, HookHasItsCard
  <2>3. Excused'
    BY <1>0, <1>7, SameCards
  <2>4. QED
    BY <2>1, <2>2, <2>3 DEF CInv
<1>8. ASSUME NEW received, Severs(received)
      PROVE  /\ linked' \in BOOLEAN
             /\ stage' \in [Card -> {"new", "wire", "acking", "over"}]
             /\ \A k \in Card : stage'[k] = "new" => stage[k] = "new"
  BY <1>0, <1>8 DEF Severs, AdoptionTypeOK
<1>9. ASSUME NEW k \in Card, Mints(k)
      PROVE  CInv'
  BY <1>0, <1>7, <1>9 DEF Mints, AdoptionTypeOK
<1>10. ASSUME NEW received, LinkDrops(received)
       PROVE  CInv'
  BY <1>7, <1>8, <1>10 DEF LinkDrops
<1>11. ASSUME LinkUp
       PROVE  CInv'
  BY <1>0, <1>7, <1>11 DEF LinkUp, AdoptionTypeOK
<1>12. ASSUME NEW received, DaemonRestarts(received)
       PROVE  CInv'
  <2>1. /\ restarts < MaxRestarts /\ restarts' = restarts + 1
        /\ bound' = filed /\ pending' = {} /\ hook' = [h \in Hook |-> NoHook]
        /\ excuses' = [c \in Claude |-> excuses[c] + (IF filed[c] = NoCard THEN 1 ELSE 0)]
        /\ UNCHANGED <<of, filed>>
    BY <1>12 DEF DaemonRestarts
  <2>2. /\ linked' \in BOOLEAN
        /\ stage' \in [Card -> {"new", "wire", "acking", "over"}]
        /\ \A k \in Card : stage'[k] = "new" => stage[k] = "new"
    BY <1>8, <1>12 DEF DaemonRestarts
  <2>3. \A c \in Claude : excuses'[c] = excuses[c] + (IF filed[c] = NoCard THEN 1 ELSE 0)
    BY <2>1
  <2>4. AdoptionTypeOK'
    BY <1>0, <2>1, <2>2, AdoptionConstants DEF AdoptionTypeOK
  <2>5. Unannounced' /\ OwnBindings' /\ HookHasItsCard'
    BY <1>0, <2>1, <2>2 DEF Unannounced, OwnBindings, HookHasItsCard, NoHook, Answer
  <2>6. Excused'
    BY <1>0, <2>1, <2>3, SameCards
  <2>7. QED
    BY <2>4, <2>5, <2>6 DEF CInv
<1>13. ASSUME UNCHANGED adoptionVars
       PROVE  CInv'
  BY <1>0, <1>7, <1>13 DEF adoptionVars, AdoptionTypeOK
<1>14. QED
  BY <1>1, <1>2, <1>3, <1>4, <1>5, <1>6, <1>9, <1>10, <1>11, <1>12, <1>13
     DEF AdoptionNext, HookArrives

LEMMA AdoptionInitially == AdoptionInit => CInv
<1> SUFFICES ASSUME AdoptionInit PROVE CInv
  OBVIOUS
<1>1. AdoptionTypeOK /\ Unannounced /\ OwnBindings /\ HookHasItsCard
  BY AdoptionConstants
     DEF AdoptionInit, AdoptionTypeOK, Unannounced, OwnBindings, HookHasItsCard, NoHook, Answer
<1>2. \A c \in Claude : CardsOf(c) = {}
  BY AdoptionConstants DEF AdoptionInit, CardsOf
<1>3. Excused
  BY <1>2, FS_EmptySet DEF AdoptionInit, Excused
<1>4. QED
  BY <1>1, <1>3 DEF CInv

LEMMA AdoptionInvariant == AdoptionSpec => []CInv
<1>1. AdoptionInit => CInv
  BY AdoptionInitially
<1>2. CInv /\ [AdoptionNext]_adoptionVars => CInv'
  BY AdoptionStep
<1>3. QED
  BY <1>1, <1>2, PTL DEF AdoptionSpec

\* Every variable of Adoption stays in its domain.
THEOREM AdoptionTypeCorrect == AdoptionSpec => []AdoptionTypeOK
<1>1. CInv => AdoptionTypeOK
  BY DEF CInv
<1>2. QED
  BY <1>1, AdoptionInvariant, PTL

\* Whatever events overlap and whatever ACKs, timeouts and restarts race, a hook event goes
\* on with the card of its own Claude session, and a second card of a session is owed to a
\* wait that timed out or to a restart before the binding was filed (ensureAdopted, settle,
\* restore).
THEOREM EachItsCard == AdoptionSpec => []OneCardEach
<1>1. CInv => OneCardEach
  BY DEF CInv, OneCardEach, DuplicatesAreExcused, Excused, CardsOf
<1>2. QED
  BY <1>1, AdoptionInvariant, PTL

-----------------------------------------------------------------------------
(* TranscriptMirror *)

\* A set of naturals has a least element, and a greatest one if it is bounded.
LEMMA LeastNumber ==
  ASSUME NEW T, T \subseteq Nat, T # {}
  PROVE  \E n \in T : \A m \in T : n <= m
<1>1. PICK n \in T : \A m \in T : ~(<<m, n>> \in OpToRel(<, Nat))
  BY NatLessThanWellFounded, WFMin
<1>2. ASSUME NEW m \in T PROVE n <= m
  <2>1. ~(m < n)
    BY <1>1, <1>2 DEF OpToRel
  <2>2. QED
    BY <2>1
<1>3. QED
  BY <1>2

LEMMA LeastOf ==
  ASSUME NEW T, T \subseteq Nat, T # {}
  PROVE  Min(T) \in T /\ \A m \in T : Min(T) <= m
  BY LeastNumber DEF Min

LEMMA GreatestOf ==
  ASSUME NEW T, NEW b \in Nat, T \subseteq 0 .. b, T # {}
  PROVE  Max(T) \in T /\ \A m \in T : Max(T) >= m
<1> DEFINE U == {b - i : i \in T}
<1>1. U \subseteq Nat /\ U # {}
  <2>1. \A i \in T : i \in 0 .. b /\ b - i \in Nat
    OBVIOUS
  <2>2. QED
    BY <2>1
<1>2. PICK n \in U : \A m \in U : n <= m
  BY <1>1, LeastNumber
<1>3. PICK k \in T : n = b - k
  BY <1>2
<1>4. ASSUME NEW m \in T PROVE k >= m
  <2>1. b - m \in U
    OBVIOUS
  <2>2. n <= b - m
    BY <1>2, <2>1
  <2>3. QED
    BY <1>3, <2>2
<1>5. QED
  BY <1>4 DEF Max

\* Lines end one after the other.
LEMMA LinesAreOrdered ==
  /\ Len(LineEnd) \in Nat /\ Lines = 1 .. Len(LineEnd) /\ Total \in Nat
  /\ \A i \in 0 .. Len(LineEnd) : EndOf(i) \in Nat /\ EndOf(i) <= Total
  /\ \A i, j \in 0 .. Len(LineEnd) : i < j => EndOf(i) < EndOf(j)
<1>1. /\ Len(LineEnd) \in Nat /\ Lines = 1 .. Len(LineEnd)
      /\ \A i \in Lines : LineEnd[i] \in Nat \ {0}
  BY MirrorConstants, LenProperties, ElementOfSeq DEF Lines
<1>2. \A i, j \in Lines : i < j => LineEnd[i] < LineEnd[j]
  BY MirrorConstants DEF Lines
<1>3. \A i \in 0 .. Len(LineEnd) : EndOf(i) \in Nat
  BY <1>1 DEF EndOf
<1>4. \A i, j \in 0 .. Len(LineEnd) : i < j => EndOf(i) < EndOf(j)
  BY <1>1, <1>2 DEF EndOf
<1>5. QED
  BY <1>1, <1>3, <1>4 DEF Total

LEMMA EndsAndBegins ==
  ASSUME NEW k \in 0 .. Len(LineEnd)
  PROVE  EndedBy(EndOf(k)) = k /\ BegunBefore(EndOf(k)) = k
<1> DEFINE n == Len(LineEnd)
           E == {0} \cup {i \in Lines : EndOf(i) <= EndOf(k)}
           B == {i \in 0 .. n : EndOf(k) <= EndOf(i)}
<1>1. /\ n \in Nat /\ k \in 0 .. n /\ Lines = 1 .. n
      /\ \A i \in 0 .. n : EndOf(i) \in Nat
      /\ \A i, j \in 0 .. n : i < j => EndOf(i) < EndOf(j)
  BY LinesAreOrdered
<1>2. \A i \in 0 .. n : (EndOf(i) <= EndOf(k) => i <= k) /\ (EndOf(k) <= EndOf(i) => k <= i)
  <2>1. ASSUME NEW i \in 0 .. n
        PROVE  (EndOf(i) <= EndOf(k) => i <= k) /\ (EndOf(k) <= EndOf(i) => k <= i)
    <3>1. /\ EndOf(i) \in Nat /\ EndOf(k) \in Nat /\ i \in Nat /\ k \in Nat
          /\ i < k => EndOf(i) < EndOf(k)
          /\ k < i => EndOf(k) < EndOf(i)
      BY <1>1
    <3>2. QED
      BY <3>1
  <2>2. QED
    BY <2>1
<1>3. k \in E /\ k \in B
  BY <1>1
<1>4. \A i \in E : i <= k
  BY <1>1, <1>2
<1>5. \A i \in B : k <= i
  BY <1>1, <1>2
<1>6. E \subseteq 0 .. n /\ B \subseteq Nat
  BY <1>1
<1>7. Max(E) = k
  <2> HIDE DEF E
  <2>1. Max(E) \in E /\ \A i \in E : Max(E) >= i
    BY <1>1, <1>3, <1>6, GreatestOf
  <2>2. Max(E) \in 0 .. n /\ Max(E) <= k /\ Max(E) >= k
    BY <1>3, <1>4, <1>6, <2>1
  <2>3. QED
    BY <1>1, <2>2
<1>8. Min(B) = k
  <2> HIDE DEF B
  <2>1. Min(B) \in B /\ \A i \in B : Min(B) <= i
    BY <1>3, <1>6, LeastOf
  <2>2. Min(B) \in Nat /\ k <= Min(B) /\ Min(B) <= k
    BY <1>3, <1>5, <1>6, <2>1
  <2>3. QED
    BY <1>1, <2>2
<1>9. QED
  BY <1>7, <1>8 DEF EndedBy, BegunBefore

\* The lines between two ends of lines, and how they join up.
LEMMA LinesJoin ==
  ASSUME NEW k \in 0 .. Len(LineEnd), NEW m \in k .. Len(LineEnd)
  PROVE  /\ LinesIn(EndOf(k), EndOf(m)) \in Seq(Lines)
         /\ LinesIn(0, EndOf(k)) \in Seq(Lines)
         /\ LinesIn(0, EndOf(k)) \o LinesIn(EndOf(k), EndOf(m)) = LinesIn(0, EndOf(m))
         /\ LinesIn(0, 0) = <<>> /\ LinesIn(EndOf(k), EndOf(k)) = <<>>
<1> DEFINE n   == Len(LineEnd)
           all == [i \in Lines |-> i]
<1>1. n \in Nat /\ Lines = 1 .. n /\ 0 \in 0 .. n /\ m \in 0 .. n /\ k \in 0 .. n /\ EndOf(0) = 0
  BY LinesAreOrdered DEF EndOf
<1>2. all \in Seq(Lines) /\ Len(all) = n
  BY <1>1
<1>3. /\ LinesIn(EndOf(k), EndOf(m)) = SubSeq(all, k + 1, m)
      /\ LinesIn(0, EndOf(k)) = SubSeq(all, 1, k)
      /\ LinesIn(0, EndOf(m)) = SubSeq(all, 1, m)
      /\ LinesIn(0, 0) = SubSeq(all, 1, 0)
      /\ LinesIn(EndOf(k), EndOf(k)) = SubSeq(all, k + 1, k)
  <2>1. /\ EndedBy(EndOf(k)) = k /\ BegunBefore(EndOf(k)) = k
        /\ EndedBy(EndOf(m)) = m /\ EndedBy(EndOf(0)) = 0 /\ BegunBefore(EndOf(0)) = 0
    BY <1>1, EndsAndBegins
  <2>2. QED
    BY <1>1, <2>1 DEF LinesIn
<1> HIDE DEF all
<1>4. SubSeq(all, 1, k) \o SubSeq(all, k + 1, m) = SubSeq(all, 1, m)
  <2>1. 1 \in 1 .. Len(all) + 1 /\ k \in 1 - 1 .. Len(all) /\ m \in k .. Len(all)
    BY <1>1, <1>2
  <2>2. QED
    BY <1>2, <2>1, ConcatAdjacentSubSeq
<1>5. SubSeq(all, k + 1, m) \in Seq(Lines) /\ SubSeq(all, 1, k) \in Seq(Lines)
  <2>1. \A i \in 1 .. n : all[i] \in Lines
    BY <1>2, ElementOfSeq
  <2>2. (\A i \in k + 1 .. m : all[i] \in Lines) /\ (\A i \in 1 .. k : all[i] \in Lines)
    BY <1>1, <2>1
  <2>3. QED
    BY <1>1, <2>2, SubSeqProperties
<1>6. SubSeq(all, 1, 0) = <<>> /\ SubSeq(all, k + 1, k) = <<>>
  BY <1>1, SubSeqEmpty
<1>7. QED
  BY <1>3, <1>4, <1>5, <1>6

\* The last newline among the bytes that were read, and what is left behind it.
LEMMA LastLineEnd ==
  ASSUME NEW k \in 0 .. Len(LineEnd), NEW to \in Nat, LineEnds(EndOf(k), to) # {}
  PROVE  \E m \in k .. Len(LineEnd) :
           /\ Max(LineEnds(EndOf(k), to)) = EndOf(m)
           /\ LineEnds(EndOf(m), to) = {}
<1> DEFINE n == Len(LineEnd)
           L == LineEnds(EndOf(k), to)
<1>1. /\ n \in Nat /\ k \in 0 .. n /\ Lines = 1 .. n
      /\ \A i \in 0 .. n : EndOf(i) \in Nat
      /\ \A i, j \in 0 .. n : i < j => EndOf(i) < EndOf(j)
  BY LinesAreOrdered
<1>2. L \subseteq 0 .. to
  BY <1>1 DEF LineEnds
<1>3. Max(L) \in L /\ \A x \in L : Max(L) >= x
  <2> HIDE DEF L
  <2>1. QED
    BY <1>2, GreatestOf DEF L
<1>4. PICK m \in Lines : Max(L) = EndOf(m) /\ EndOf(m) \in EndOf(k) + 1 .. to
  BY <1>3 DEF LineEnds
<1>5. m \in k .. n
  <2>1. /\ m \in 0 .. n /\ EndOf(k) < EndOf(m) /\ EndOf(k) \in Nat /\ EndOf(m) \in Nat
        /\ m < k => EndOf(m) < EndOf(k)
    BY <1>1, <1>4
  <2>2. QED
    BY <1>1, <2>1
<1>6. ASSUME NEW i \in Lines, EndOf(i) \in EndOf(m) + 1 .. to PROVE FALSE
  <2>1. EndOf(i) \in Nat /\ EndOf(m) \in Nat /\ EndOf(k) \in Nat
    BY <1>1, <1>4
  <2>2. EndOf(i) \in L
    BY <1>4, <1>6, <2>1 DEF LineEnds
  <2>3. QED
    BY <1>3, <1>4, <1>6, <2>1, <2>2
<1>7. LineEnds(EndOf(m), to) = {}
  BY <1>6 DEF LineEnds
<1>8. QED
  BY <1>4, <1>5, <1>7

LEMMA LinesAreLines ==
  ASSUME NEW from \in 0 .. Total, NEW to \in Nat
  PROVE  LinesIn(from, to) \in Seq(Lines)
<1> DEFINE n   == Len(LineEnd)
           all == [i \in Lines |-> i]
           E == {0} \cup {i \in Lines : EndOf(i) <= to}
           B == {i \in 0 .. n : from <= EndOf(i)}
<1>1. n \in Nat /\ Lines = 1 .. n /\ Total = EndOf(n) /\ Total \in Nat
  BY LinesAreOrdered DEF Total
<1>2. all \in Seq(Lines) /\ Len(all) = n /\ \A i \in 1 .. n : all[i] \in Lines
  BY <1>1
<1>3. Max(E) \in 0 .. n
  <2>1. E \subseteq 0 .. n /\ E # {}
    BY <1>1
  <2> HIDE DEF E
  <2>2. Max(E) \in E
    BY <1>1, <2>1, GreatestOf
  <2>3. QED
    BY <2>1, <2>2
<1>4. Min(B) \in 0 .. n
  <2>1. B \subseteq 0 .. n /\ n \in B
    BY <1>1
  <2>2. B \subseteq Nat /\ B # {}
    BY <2>1
  <2> HIDE DEF B
  <2>3. Min(B) \in B
    BY <2>2, LeastOf
  <2>4. QED
    BY <2>1, <2>3
<1> DEFINE first == Min(B) + 1
           last  == Max(E)
<1>5. LinesIn(from, to) = SubSeq(all, first, last)
  BY DEF LinesIn, BegunBefore, EndedBy
<1>6. first \in 1 .. n + 1 /\ last \in 0 .. n
  BY <1>1, <1>3, <1>4
<1> HIDE DEF all, first, last
<1>7. ASSUME NEW i \in first .. last PROVE all[i] \in Lines
  <2>1. i \in 1 .. n
    BY <1>1, <1>6
  <2>2. QED
    BY <1>2, <2>1
<1>8. SubSeq(all, first, last) \in Seq(Lines)
  BY <1>1, <1>6, <1>7, SubSeqProperties
<1>9. QED
  BY <1>5, <1>8

\* One sync at most is under way, the offset is the end of a line, and the transcript
\* together with what that sync brought is the log up to there.
FollowsTheLog(h, k) ==
  /\ \A g \in Caller \ {h} : sync[g] = NoSync
  /\ offset = EndOf(k)
  /\ transcript \o sync[h].lines = base \o LinesIn(0, offset)
  /\ sync[h].at = "idle" => sync[h] = NoSync
  /\ sync[h].at = "open" => sync[h].lines = <<>>
  /\ sync[h].at = "read" => sync[h].lines = <<>> /\ sync[h].from = offset
  /\ sync[h].at = "close" => LineEnds(offset, sync[h].to) = {}

LogInv ==
  /\ MirrorTypeOK
  /\ \A h \in Caller : sync[h].at = "read" => sync[h].from < sync[h].to /\ sync[h].to <= Total
  /\ ~overlapped => \E h \in Caller, k \in 0 .. Len(LineEnd) : FollowsTheLog(h, k)

LEMMA MirrorInitially == MirrorInit => LogInv
<1> SUFFICES ASSUME MirrorInit PROVE LogInv
  OBVIOUS
<1>1. Total \in Nat /\ EndOf(0) = 0 /\ 0 \in 0 .. Len(LineEnd)
  BY LinesAreOrdered DEF EndOf
<1>2. \A h \in Caller : sync[h] = NoSync
  BY DEF MirrorInit
<1>3. MirrorTypeOK
  <2>1. <<>> \in Seq(Lines) /\ 0 \in 0 .. MaxReturns /\ 0 \in 0 .. Total
    BY <1>1, MirrorConstants
  <2>2. NoSync \in [at : {"idle", "open", "read", "close"}, from : Nat, to : Nat,
                    lines : Seq(Lines)]
    BY <2>1 DEF NoSync, Syncing
  <2>3. QED
    BY <2>1, <2>2 DEF MirrorInit, MirrorTypeOK
<1>4. PICK h \in Caller : TRUE
  BY MirrorConstants
<1>5. LinesIn(0, 0) = <<>>
  BY <1>1, LinesJoin
<1>6. FollowsTheLog(h, 0)
  BY <1>1, <1>2, <1>5 DEF MirrorInit, FollowsTheLog, NoSync, Syncing
<1>7. QED
  BY <1>1, <1>2, <1>3, <1>6 DEF LogInv, NoSync, Syncing

SyncRecord == [at : {"idle", "open", "read", "close"}, from : Nat, to : Nat, lines : Seq(Lines)]

\* What a read brings: the bytes up to the last newline, and the lines in them.
UpTo(h) == LET ends == LineEnds(sync[h].from, sync[h].to)
           IN IF ends = {} THEN sync[h].from ELSE Max(ends)

LEMMA ReadBrings ==
  ASSUME LogInv, NEW h \in Caller, Reads(h)
  PROVE  /\ sync[h].at = "read" /\ sync[h].from \in 0 .. Total /\ sync[h].to \in Nat
         /\ UpTo(h) \in Nat /\ sync[h].from <= UpTo(h)
         /\ offset' = offset + (UpTo(h) - sync[h].from)
         /\ sync' = [sync EXCEPT ![h] = Syncing("close", sync[h].from, sync[h].to,
                                                LinesIn(sync[h].from, UpTo(h)))]
         /\ LinesIn(sync[h].from, UpTo(h)) \in Seq(Lines)
<1> DEFINE from == sync[h].from
           to   == sync[h].to
           ends == LineEnds(from, to)
<1>1. /\ sync[h].at = "read" /\ from \in Nat /\ to \in Nat /\ from < to /\ to <= Total
      /\ Total \in Nat
  BY LinesAreOrdered DEF LogInv, MirrorTypeOK, Reads
<1>2. from \in 0 .. Total
  BY <1>1
<1>3. UpTo(h) \in Nat /\ from <= UpTo(h)
  <2>1. CASE ends = {}
    BY <1>1, <2>1 DEF UpTo
  <2>2. CASE ends # {}
    <3>1. ends \subseteq 0 .. to /\ \A x \in ends : x \in Nat /\ from < x
      BY <1>1 DEF LineEnds
    <3> HIDE DEF ends
    <3>2. Max(ends) \in ends
      BY <1>1, <2>2, <3>1, GreatestOf
    <3>3. UpTo(h) = Max(ends)
      BY <2>2 DEF UpTo, ends
    <3>4. Max(ends) \in Nat /\ from < Max(ends)
      BY <3>1, <3>2
    <3>5. QED
      BY <1>1, <3>3, <3>4
  <2>3. QED
    BY <2>1, <2>2
<1>4. LinesIn(from, UpTo(h)) \in Seq(Lines)
  BY <1>2, <1>3, LinesAreLines
<1>5. /\ offset' = offset + (UpTo(h) - from)
      /\ sync' = [sync EXCEPT ![h] = Syncing("close", from, to, LinesIn(from, UpTo(h)))]
  BY DEF Reads, UpTo
<1>6. QED
  BY <1>1, <1>2, <1>3, <1>4, <1>5

\* Every variable stays in its domain, and a read lies in the log.
LEMMA MirrorStaysSound ==
  LogInv /\ [MirrorNext]_mirrorVars =>
    /\ MirrorTypeOK'
    /\ \A h \in Caller : sync'[h].at = "read" => sync'[h].from < sync'[h].to /\ sync'[h].to <= Total
<1> DEFINE Sound(g) == sync'[g].at = "read" => sync'[g].from < sync'[g].to /\ sync'[g].to <= Total
<1> SUFFICES ASSUME LogInv, [MirrorNext]_mirrorVars
             PROVE  MirrorTypeOK' /\ \A g \in Caller : Sound(g)
  OBVIOUS
<1> USE DEF MirrorTypeOK
<1>1. /\ MirrorTypeOK /\ Total \in Nat /\ MaxReturns \in Nat /\ <<>> \in Seq(Lines)
      /\ sync \in [Caller -> SyncRecord]
      /\ \A g \in Caller : sync[g].at = "read" => sync[g].from < sync[g].to /\ sync[g].to <= Total
  BY LinesAreOrdered, MirrorConstants DEF LogInv, SyncRecord
<1>2. NoSync \in SyncRecord /\ NoSync.at = "idle"
  BY <1>1 DEF NoSync, Syncing, SyncRecord
<1>3. ASSUME NEW n \in 1 .. Total, Appends(n) PROVE MirrorTypeOK' /\ \A g \in Caller : Sound(g)
  <2>1. size' \in 0 .. Total
    BY <1>1, <1>3 DEF Appends
  <2>2. QED
    BY <1>1, <1>3, <2>1 DEF Appends
<1>4. ASSUME NEW h \in Caller, Opens(h) \/ FindsNothing(h)
      PROVE  MirrorTypeOK' /\ \A g \in Caller : Sound(g)
  <2> DEFINE SomeOther == \E r \in SyncRecord : sync' = [sync EXCEPT ![h] = r] /\ r.at # "read"
             opened    == Syncing("open", 0, 0, <<>>)
             closing   == Syncing("close", 0, 0, <<>>)
  <2>1. opened \in SyncRecord /\ closing \in SyncRecord
        /\ opened.at # "read" /\ closing.at # "read"
    BY <1>1 DEF Syncing, SyncRecord
  <2>2. ASSUME Opens(h) PROVE SomeOther
    <3>1. sync' = [sync EXCEPT ![h] = opened]
      BY <2>2 DEF Opens
    <3> HIDE DEF opened
    <3>2. QED
      BY <2>1, <3>1
  <2>3. ASSUME FindsNothing(h) PROVE SomeOther
    <3>1. sync' = [sync EXCEPT ![h] = NoSync] \/ sync' = [sync EXCEPT ![h] = closing]
      BY <2>3 DEF FindsNothing
    <3> HIDE DEF closing
    <3>2. QED
      BY <1>2, <2>1, <3>1
  <2>4. PICK r \in SyncRecord : sync' = [sync EXCEPT ![h] = r] /\ r.at # "read"
    BY <1>4, <2>2, <2>3
  <2>5. sync' \in [Caller -> SyncRecord] /\ \A g \in Caller : Sound(g)
    BY <1>1, <2>4
  <2>6. overlapped' \in BOOLEAN
    BY <1>1, <1>4 DEF Opens, FindsNothing
  <2>7. QED
    BY <1>1, <1>4, <2>5, <2>6 DEF Opens, FindsNothing, SyncRecord
<1>5. ASSUME NEW h \in Caller, Sizes(h) PROVE MirrorTypeOK' /\ \A g \in Caller : Sound(g)
  <2> DEFINE r == Syncing("read", offset, size, <<>>)
  <2>1. r \in SyncRecord /\ r.from < r.to /\ r.to <= Total
    BY <1>1, <1>5 DEF Sizes, Syncing, SyncRecord
  <2>2. sync' = [sync EXCEPT ![h] = r]
    BY <1>5 DEF Sizes
  <2> HIDE DEF r
  <2>3. sync' \in [Caller -> SyncRecord] /\ \A g \in Caller : Sound(g)
    BY <1>1, <2>1, <2>2
  <2>4. QED
    BY <1>1, <1>5, <2>3 DEF Sizes, SyncRecord
<1>6. ASSUME NEW h \in Caller, Reads(h) PROVE MirrorTypeOK' /\ \A g \in Caller : Sound(g)
  <2> DEFINE r == Syncing("close", sync[h].from, sync[h].to, LinesIn(sync[h].from, UpTo(h)))
  <2>1. r \in SyncRecord /\ r.at # "read" /\ sync' = [sync EXCEPT ![h] = r]
    BY <1>1, <1>6, ReadBrings DEF Syncing, SyncRecord
  <2> HIDE DEF r
  <2>2. sync' \in [Caller -> SyncRecord] /\ \A g \in Caller : Sound(g)
    BY <1>1, <2>1
  <2>3. offset' \in Nat
    <3>1. sync[h].from \in Nat /\ UpTo(h) \in Nat /\ sync[h].from <= UpTo(h) /\ offset \in Nat
          /\ offset' = offset + (UpTo(h) - sync[h].from)
      BY <1>1, <1>6, ReadBrings
    <3>2. QED
      BY <3>1
  <2>4. QED
    BY <1>1, <1>6, <2>2, <2>3 DEF Reads, SyncRecord
<1>7. ASSUME NEW h \in Caller, Records(h) PROVE MirrorTypeOK' /\ \A g \in Caller : Sound(g)
  <2>1. sync' = [sync EXCEPT ![h] = NoSync]
    BY <1>7 DEF Records
  <2>2. sync' \in [Caller -> SyncRecord] /\ \A g \in Caller : Sound(g)
    BY <1>1, <1>2, <2>1
  <2>3. transcript' \in Seq(Lines) /\ kept' \in Seq(Lines)
    <3>1. sync[h].lines \in Seq(Lines)
      BY <1>1 DEF SyncRecord
    <3>2. transcript' \in Seq(Lines)
      BY <1>1, <1>7, <3>1, ConcatProperties DEF Records
    <3>3. QED
      BY <1>1, <1>7, <3>2 DEF Records
  <2>4. QED
    BY <1>1, <1>7, <2>2, <2>3 DEF Records, SyncRecord
<1>8. CASE Returns
  <2>1. sync' = [h \in Caller |-> NoSync] /\ returns' \in 0 .. MaxReturns
    BY <1>1, <1>8 DEF Returns
  <2>2. sync' \in [Caller -> SyncRecord] /\ \A g \in Caller : Sound(g)
    BY <1>2, <2>1
  <2>3. QED
    BY <1>1, <1>8, <2>1, <2>2 DEF Returns, SyncRecord
<1>9. CASE UNCHANGED mirrorVars
  BY <1>1, <1>9 DEF mirrorVars
<1>10. QED
  BY <1>3, <1>4, <1>5, <1>6, <1>7, <1>8, <1>9 DEF MirrorNext

\* Several syncs began and none overlapped: the one under way is the one that moves.
LEMMA TheOneSync ==
  ASSUME LogInv, NEW g \in Caller, NEW k \in 0 .. Len(LineEnd), FollowsTheLog(g, k),
         NEW h \in Caller, sync[h] # NoSync \/ sync[g] = NoSync
  PROVE  FollowsTheLog(h, k)
<1>1. CASE h = g
  BY <1>1
<1>2. CASE h # g
  <2>1. sync[h] = NoSync /\ sync[g] = NoSync
    BY <1>2 DEF FollowsTheLog
  <2>2. QED
    BY <2>1 DEF FollowsTheLog, NoSync, Syncing
<1>3. QED
  BY <1>1, <1>2

\* A read brings the lines that follow the offset, up to the last that is complete.
LEMMA ReadFollows ==
  ASSUME LogInv, NEW h \in Caller, NEW k \in 0 .. Len(LineEnd), FollowsTheLog(h, k), Reads(h)
  PROVE  \E m \in 0 .. Len(LineEnd) : FollowsTheLog(h, m)'
<1> DEFINE from == sync[h].from
           to   == sync[h].to
<1>1. /\ sync[h].at = "read" /\ to \in Nat /\ Len(LineEnd) \in Nat
      /\ sync[h].lines = <<>> /\ from = offset /\ offset = EndOf(k) /\ offset \in Nat
      /\ transcript \o <<>> = base \o LinesIn(0, offset)
  <2>1. transcript \o sync[h].lines = base \o LinesIn(0, offset)
    BY DEF FollowsTheLog
  <2>2. sync[h].at = "read"
    BY ReadBrings
  <2>3. sync[h].lines = <<>> /\ from = offset /\ offset = EndOf(k)
    BY <2>2 DEF FollowsTheLog
  <2>4. QED
    BY <2>1, <2>2, <2>3, ReadBrings, LinesAreOrdered
<1>2. PICK m \in k .. Len(LineEnd) : UpTo(h) = EndOf(m) /\ LineEnds(EndOf(m), to) = {}
  <2>1. CASE LineEnds(EndOf(k), to) = {}
    <3>1. UpTo(h) = EndOf(k) /\ k \in k .. Len(LineEnd)
      BY <1>1, <2>1 DEF UpTo
    <3>2. QED
      BY <2>1, <3>1
  <2>2. CASE LineEnds(EndOf(k), to) # {}
    <3>1. UpTo(h) = Max(LineEnds(EndOf(k), to))
      BY <1>1, <2>2 DEF UpTo
    <3>2. QED
      BY <1>1, <2>2, <3>1, LastLineEnd
  <2>3. QED
    BY <2>1, <2>2
<1>3. m \in 0 .. Len(LineEnd) /\ EndOf(m) \in Nat /\ EndOf(k) \in Nat
  <2>1. m \in 0 .. Len(LineEnd)
    BY <1>1
  <2>2. QED
    BY <2>1, LinesAreOrdered
<1> DEFINE read == LinesIn(EndOf(k), EndOf(m))
           r    == Syncing("close", from, to, read)
<1>4. offset' = EndOf(m) /\ sync' = [sync EXCEPT ![h] = r]
  <2>1. offset' = offset + (EndOf(m) - EndOf(k))
    BY <1>1, <1>2, ReadBrings
  <2>2. QED
    BY <1>1, <1>2, <1>3, <2>1, ReadBrings
<1>5. transcript' = transcript /\ base' = base
  BY DEF Reads
<1>6. transcript \o read = base \o LinesIn(0, EndOf(m))
  <2>1. /\ read \in Seq(Lines) /\ LinesIn(0, EndOf(k)) \in Seq(Lines)
        /\ LinesIn(0, EndOf(k)) \o read = LinesIn(0, EndOf(m))
    BY LinesJoin
  <2>2. transcript \in Seq(Lines) /\ base \in Seq(Lines)
    BY DEF LogInv, MirrorTypeOK
  <2>3. transcript = base \o LinesIn(0, EndOf(k))
    BY <1>1, <2>2, ConcatEmptySeq
  <2> DEFINE log == LinesIn(0, EndOf(k))
  <2>4. read \in Seq(Lines) /\ log \in Seq(Lines) /\ base \in Seq(Lines)
    BY <2>1, <2>2
  <2> HIDE DEF read, log
  <2>5. (base \o log) \o read = base \o (log \o read)
    BY ONLY <2>4, ConcatAssociative
  <2>6. QED
    BY <2>1, <2>3, <2>5 DEF log
<1>7. sync'[h] = r /\ \A g \in Caller \ {h} : sync'[g] = NoSync
  <2>1. sync \in [Caller -> SyncRecord]
    BY DEF LogInv, MirrorTypeOK, SyncRecord
  <2> HIDE DEF r
  <2>2. QED
    BY <1>4, <2>1 DEF FollowsTheLog
<1>8. FollowsTheLog(h, m)'
  <2>1. r.at = "close" /\ r.to = to /\ r.lines = read
    BY DEF Syncing
  <2> HIDE DEF r, read
  <2>2. /\ sync'[h].at = "close" /\ LineEnds(offset', sync'[h].to) = {}
        /\ transcript' \o sync'[h].lines = base' \o LinesIn(0, offset')
    BY <1>2, <1>4, <1>5, <1>6, <1>7, <2>1 DEF read
  <2>3. QED
    BY <1>4, <1>7, <2>2 DEF FollowsTheLog
<1>9. QED
  BY <1>3, <1>8

LEMMA MirrorFollows ==
  ASSUME LogInv, [MirrorNext]_mirrorVars, ~overlapped'
  PROVE  \E h \in Caller, k \in 0 .. Len(LineEnd) : FollowsTheLog(h, k)'
<1> DEFINE Follows == \E h \in Caller, k \in 0 .. Len(LineEnd) : FollowsTheLog(h, k)'
<1>1. /\ sync \in [Caller -> SyncRecord] /\ offset \in Nat /\ base \in Seq(Lines)
      /\ transcript \in Seq(Lines) /\ kept \in Seq(Lines) /\ <<>> \in Seq(Lines)
      /\ Len(LineEnd) \in Nat /\ 0 \in 0 .. Len(LineEnd) /\ EndOf(0) = 0
      /\ NoSync.at = "idle" /\ NoSync.lines = <<>>
  BY LinesAreOrdered DEF LogInv, MirrorTypeOK, SyncRecord, NoSync, Syncing, EndOf
<1>2. ASSUME ~overlapped
      PROVE  \E g \in Caller, k \in 0 .. Len(LineEnd) : FollowsTheLog(g, k)
  BY <1>2 DEF LogInv
<1>3. ASSUME NEW n \in 1 .. Total, Appends(n) PROVE Follows
  BY <1>2, <1>3 DEF Appends, FollowsTheLog
<1>4. ASSUME NEW h \in Caller, Opens(h) PROVE Follows
  <2>1. ~overlapped /\ \A g \in Caller : sync[g] = NoSync
    BY <1>4 DEF Opens
  <2>2. PICK k \in 0 .. Len(LineEnd) : FollowsTheLog(h, k)
    BY <1>2, <2>1, TheOneSync
  <2> DEFINE r == Syncing("open", 0, 0, <<>>)
  <2>3. sync' = [sync EXCEPT ![h] = r] /\ r.at = "open" /\ r.lines = <<>>
    BY <1>4 DEF Opens, Syncing
  <2> HIDE DEF r
  <2>4. sync'[h] = r /\ \A g \in Caller \ {h} : sync'[g] = NoSync
    BY <1>1, <2>1, <2>3
  <2>5. transcript' = transcript /\ base' = base /\ offset' = offset
    BY <1>4 DEF Opens
  <2>6. transcript \o <<>> = base \o LinesIn(0, offset) /\ offset = EndOf(k)
    BY <1>1, <2>1, <2>2 DEF FollowsTheLog
  <2>7. FollowsTheLog(h, k)'
    BY <2>3, <2>4, <2>5, <2>6 DEF FollowsTheLog
  <2>8. QED
    BY <2>7
<1>5. ASSUME NEW h \in Caller, FindsNothing(h) PROVE Follows
  <2>1. ~overlapped /\ sync[h].at = "open" /\ sync[h] # NoSync
    BY <1>1, <1>5 DEF FindsNothing
  <2>2. PICK k \in 0 .. Len(LineEnd) : FollowsTheLog(h, k)
    BY <1>2, <2>1, TheOneSync
  <2> DEFINE r == Syncing("close", 0, 0, <<>>)
  <2>3. /\ sync' = [sync EXCEPT ![h] = NoSync] \/ sync' = [sync EXCEPT ![h] = r]
        /\ r.at = "close" /\ r.lines = <<>> /\ r.to = 0
    BY <1>5 DEF FindsNothing, Syncing
  <2> HIDE DEF r
  <2>4. /\ sync'[h] = NoSync \/ sync'[h] = r
        /\ \A g \in Caller \ {h} : sync'[g] = NoSync
    BY <1>1, <2>2, <2>3 DEF FollowsTheLog
  <2>5. transcript' = transcript /\ base' = base /\ offset' = offset
    BY <1>5 DEF FindsNothing
  <2>6. transcript \o <<>> = base \o LinesIn(0, offset) /\ offset = EndOf(k)
    <3>1. sync[h].lines = <<>>
      BY <2>1, <2>2 DEF FollowsTheLog
    <3>2. QED
      BY <2>2, <3>1 DEF FollowsTheLog
  <2>7. LineEnds(offset, 0) = {}
    BY <1>1 DEF LineEnds
  <2>8. FollowsTheLog(h, k)'
    BY <1>1, <2>3, <2>4, <2>5, <2>6, <2>7 DEF FollowsTheLog
  <2>9. QED
    BY <2>8
<1>6. ASSUME NEW h \in Caller, Sizes(h) PROVE Follows
  <2>1. ~overlapped /\ sync[h].at = "open" /\ sync[h] # NoSync
    BY <1>1, <1>6 DEF Sizes
  <2>2. PICK k \in 0 .. Len(LineEnd) : FollowsTheLog(h, k)
    BY <1>2, <2>1, TheOneSync
  <2> DEFINE r == Syncing("read", offset, size, <<>>)
  <2>3. sync' = [sync EXCEPT ![h] = r] /\ r.at = "read" /\ r.lines = <<>> /\ r.from = offset
    BY <1>6 DEF Sizes, Syncing
  <2> HIDE DEF r
  <2>4. sync'[h] = r /\ \A g \in Caller \ {h} : sync'[g] = NoSync
    BY <1>1, <2>2, <2>3 DEF FollowsTheLog
  <2>5. transcript' = transcript /\ base' = base /\ offset' = offset
    BY <1>6 DEF Sizes
  <2>6. transcript \o <<>> = base \o LinesIn(0, offset) /\ offset = EndOf(k)
    <3>1. sync[h].lines = <<>>
      BY <2>1, <2>2 DEF FollowsTheLog
    <3>2. QED
      BY <2>2, <3>1 DEF FollowsTheLog
  <2>7. FollowsTheLog(h, k)'
    BY <2>3, <2>4, <2>5, <2>6 DEF FollowsTheLog
  <2>8. QED
    BY <2>7
<1>7. ASSUME NEW h \in Caller, Reads(h) PROVE Follows
  <2>1. ~overlapped /\ sync[h] # NoSync
    BY <1>1, <1>7 DEF Reads
  <2>2. PICK k \in 0 .. Len(LineEnd) : FollowsTheLog(h, k)
    BY <1>2, <2>1, TheOneSync
  <2>3. QED
    BY <1>7, <2>2, ReadFollows
<1>8. ASSUME NEW h \in Caller, Records(h) PROVE Follows
  <2>1. ~overlapped /\ sync[h] # NoSync
    BY <1>1, <1>8 DEF Records
  <2>2. PICK k \in 0 .. Len(LineEnd) : FollowsTheLog(h, k)
    BY <1>2, <2>1, TheOneSync
  <2>3. sync' = [sync EXCEPT ![h] = NoSync] /\ base' = base /\ offset' = offset
    BY <1>8 DEF Records
  <2>4. sync'[h] = NoSync /\ \A g \in Caller \ {h} : sync'[g] = NoSync
    BY <1>1, <2>2, <2>3 DEF FollowsTheLog
  <2>5. transcript' = base \o LinesIn(0, offset) /\ offset = EndOf(k)
    BY <1>8, <2>2 DEF Records, FollowsTheLog
  <2>6. transcript' \in Seq(Lines)
    <3>1. sync[h].lines \in Seq(Lines)
      BY <1>1 DEF SyncRecord
    <3>2. QED
      BY <1>1, <1>8, <3>1, ConcatProperties DEF Records
  <2>7. transcript' \o <<>> = base' \o LinesIn(0, offset')
    BY <2>3, <2>5, <2>6, ConcatEmptySeq
  <2>8. FollowsTheLog(h, k)'
    BY <1>1, <2>3, <2>4, <2>5, <2>7 DEF FollowsTheLog
  <2>9. QED
    BY <2>8
<1>9. ASSUME Returns PROVE Follows
  <2>1. PICK h \in Caller : TRUE
    BY MirrorConstants
  <2>2. /\ \A g \in Caller : sync'[g] = NoSync
        /\ transcript' = kept /\ base' = kept /\ offset' = 0
    BY <1>9 DEF Returns
  <2>3. kept \o <<>> = kept \o LinesIn(0, 0)
    BY <1>1, LinesJoin
  <2>4. FollowsTheLog(h, 0)'
    BY <1>1, <2>2, <2>3 DEF FollowsTheLog
  <2>5. QED
    BY <1>1, <2>4
<1>10. ASSUME UNCHANGED mirrorVars PROVE Follows
  BY <1>2, <1>10 DEF mirrorVars, FollowsTheLog
<1>11. QED
  BY <1>3, <1>4, <1>5, <1>6, <1>7, <1>8, <1>9, <1>10 DEF MirrorNext

LEMMA MirrorInductive == MirrorSpec => []LogInv
<1>1. LogInv /\ [MirrorNext]_mirrorVars => LogInv'
  BY MirrorStaysSound, MirrorFollows DEF LogInv
<1>2. QED
  BY <1>1, MirrorInitially, PTL DEF MirrorSpec

\* Every variable of the transcript mirror stays in its domain.
THEOREM MirrorTypeCorrect == MirrorSpec => []MirrorTypeOK
<1>1. LogInv => MirrorTypeOK
  BY DEF LogInv
<1>2. QED
  BY <1>1, MirrorInductive, PTL

\* As long as no two syncs overlapped, the transcript is the log, line for line and in
\* order, up to what the mirror consumed, however Claude Code's writes cut its lines.
THEOREM LogIsMirrored == MirrorSpec => []MirrorsTheLog
<1>1. LogInv => MirrorsTheLog
  BY DEF LogInv, MirrorsTheLog, FollowsTheLog
<1>2. QED
  BY <1>1, MirrorInductive, PTL

-----------------------------------------------------------------------------
(* LinkHealth *)

\* The client's connection works as far as anyone could tell.
Healthy == socket \in whole /\ near[socket] = "open" /\ far[socket] # "closed"

\* One connection of the client at a time, and none while it waits to dial or stopped; one
\* that is being dialed is not counted yet and carries nothing.
OneNear ==
  /\ \A s \in Socket : near[s] # "closed" => s = socket
  /\ redial \/ over => \A s \in Socket : near[s] = "closed"
  /\ \A s \in Socket : near[s] = "dialing" => far[s] = "closed" /\ flight[s] = {}

\* The rounds counted, and who counts when.
Rounds ==
  /\ \A s \in Socket : far[s] # "closed" => quiet[s] < MaxSilent
  /\ silent < MaxSilent
  /\ late <= faults /\ lag <= faults
  /\ probing /\ client = "tab" => socket \in Socket /\ near[socket] = "open"
  /\ probing /\ socket \in Socket /\ near[socket] = "dialing" => silent <= late

\* Until its ack something of the handshake is under way.
Shaking ==
  Healthy =>
    /\ "ack" \in flight[socket] => "presence" \in flight[socket]
    /\ far[socket] = "open" => "hello" \in flight[socket] \/ "lookup" \in flight[socket]
    /\ ~probing => flight[socket] \cap Handshake # {}

\* A client that heard nothing since its last round waits for an answer, and every round
\* without one was late.
Answering == Healthy /\ probing => saw \/ (silent <= late /\ flight[socket] # {})

\* The rounds in which the relay heard nothing were late, but for the last while a probe is
\* under way.
Hearing ==
  Healthy /\ ~heard[socket] =>
    LET due == quiet[socket] + (IF next = "relay" THEN 1 ELSE 0)
    IN  due <= lag \/ ("ping" \in flight[socket] /\ due <= lag + 1)

LinkInv == LinkTypeOK /\ OneNear /\ Rounds /\ Shaking /\ Answering /\ Hearing

\* A close at the relay takes what was under way with it.
LEMMA Dropped ==
  ASSUME NEW gone \in SUBSET Socket, Drops(gone), LinkTypeOK
  PROVE  /\ flight' \in [Socket -> SUBSET Frame]
         /\ far' \in [Socket -> {"closed", "open", "registered"}]
         /\ \A r \in Socket : /\ flight'[r] = IF r \in gone THEN {} ELSE flight[r]
                              /\ far'[r] = IF r \in gone THEN "closed" ELSE far[r]
  BY DEF Drops, LinkTypeOK

\* Every action of the client, the relay and the network keeps the invariant.
LEMMA AfterDials ==
  ASSUME LinkInv, NEW s \in Socket, Dials(s)
  PROVE  LinkInv'
<1>1. /\ socket' = s /\ near' \in [Socket -> {"closed", "dialing", "open"}]
      /\ whole' \subseteq Socket /\ refusal' \subseteq Socket
      /\ flight' \in [Socket -> SUBSET Frame]
  BY DEF LinkInv, LinkTypeOK, Dials
<1>2. /\ saw' \in BOOLEAN /\ silent' \in 0 .. MaxSilent
      /\ late' \in 0 .. MaxFaults /\ lag' \in 0 .. MaxFaults
  BY LinkConstants DEF LinkInv, LinkTypeOK, Dials
<1>3. LinkTypeOK'
  BY <1>2 DEF LinkInv, Dials, LinkTypeOK
<1>4. OneNear'
  BY <1>1 DEF LinkInv, Dials, OneNear, Free
<1>5. Rounds'
  BY LinkConstants DEF LinkInv, Dials, LinkTypeOK, Rounds, OneNear
<1>6. Shaking'
  BY <1>1 DEF Dials, Shaking, Healthy
<1>7. Answering'
  BY <1>1 DEF Dials, Answering, Healthy
<1>8. Hearing'
  BY <1>1 DEF Dials, Hearing, Healthy
<1>9. QED
  BY <1>3, <1>4, <1>5, <1>6, <1>7, <1>8 DEF LinkInv

LEMMA AfterDialFails ==
  ASSUME LinkInv, NEW s \in Socket, DialFails(s)
  PROVE  LinkInv'
<1>1. LinkTypeOK'
  BY LinkConstants DEF LinkInv, DialFails, LinkTypeOK, Fault, GivesUp
<1>2. OneNear'
  BY DEF LinkInv, DialFails, LinkTypeOK, OneNear
<1>3. Rounds'
  BY DEF LinkInv, DialFails, LinkTypeOK, Rounds, Fault
<1>4. Shaking'
  BY DEF LinkInv, DialFails, Shaking, Healthy
<1>5. Answering'
  BY DEF LinkInv, DialFails, Answering, Healthy
<1>6. Hearing'
  BY DEF LinkInv, DialFails, Hearing, Healthy
<1>7. QED
  BY <1>1, <1>2, <1>3, <1>4, <1>5, <1>6 DEF LinkInv

LEMMA AfterConnects ==
  ASSUME LinkInv, NEW s \in Socket, Connects(s)
  PROVE  LinkInv'
<1>1. /\ flight \in [Socket -> SUBSET Frame] /\ socket = s
      /\ near[s] = "dialing" /\ far[s] = "closed"
  BY DEF LinkInv, LinkTypeOK, OneNear, Connects
<1>2. \/ UNCHANGED <<flight, far, heard, quiet>>
      \/ /\ flight' = [flight EXCEPT ![s] = flight[s] \cup (IF s \in whole THEN {"hello"} ELSE {})]
         /\ far' = [far EXCEPT ![s] = "open"]
         /\ heard' = [heard EXCEPT ![s] = TRUE] /\ quiet' = [quiet EXCEPT ![s] = 0]
  BY <1>1 DEF Connects, farVars, Carries
<1>3. /\ flight' \in [Socket -> SUBSET Frame]
      /\ far'[s] # "closed" /\ s \in whole => "hello" \in flight'[s]
  BY <1>1, <1>2 DEF Frame, Handshake
<1>4. /\ near' = [near EXCEPT ![s] = "open"]
      /\ UNCHANGED <<client, socket, redial, probing, hadAck, over, saw, silent, late, lag,
                     whole, refusal, next, faults>>
  BY DEF Connects, nearVars
<1>5. LinkTypeOK'
  <2>1. near' \in [Socket -> {"closed", "dialing", "open"}]
    BY <1>4 DEF LinkInv, LinkTypeOK
  <2>2. /\ far' \in [Socket -> {"closed", "open", "registered"}]
        /\ heard' \in [Socket -> BOOLEAN] /\ quiet' \in [Socket -> 0 .. MaxSilent]
    <3>1. far' \in [Socket -> {"closed", "open", "registered"}]
      BY <1>2 DEF LinkInv, LinkTypeOK
    <3>2. heard' \in [Socket -> BOOLEAN]
      BY <1>2 DEF LinkInv, LinkTypeOK
    <3>3. quiet' \in [Socket -> 0 .. MaxSilent]
      <4>1. 0 \in 0 .. MaxSilent
        BY LinkConstants
      <4>2. QED
        BY <1>2, <4>1 DEF LinkInv, LinkTypeOK
    <3>4. QED
      BY <3>1, <3>2, <3>3
  <2>3. flight' \in [Socket -> SUBSET Frame]
    BY <1>3
  <2>4. QED
    BY <1>4, <2>1, <2>2, <2>3 DEF LinkInv, LinkTypeOK
<1>6. OneNear'
  BY <1>1, <1>4 DEF LinkInv, LinkTypeOK, OneNear
<1>7. Rounds'
  BY <1>2, <1>4, LinkConstants DEF LinkInv, LinkTypeOK, Rounds
<1>8. Shaking'
  <2>1. flight[s] = {} /\ far[s] = "closed"
    BY <1>1 DEF LinkInv, OneNear
  <2>2. far'[s] # "closed" => flight'[s] \subseteq {"hello"}
    BY <1>1, <1>2, <2>1
  <2>3. QED
    BY <1>1, <1>3, <1>4, <2>2 DEF Shaking, Healthy, Handshake
<1>9. Answering'
  BY <1>1, <1>2, <1>4 DEF LinkInv, Answering, Rounds, Healthy
<1>10. Hearing'
  BY <1>1, <1>2, <1>4 DEF LinkInv, LinkTypeOK, Hearing, Healthy
<1>11. QED
  BY <1>5, <1>6, <1>7, <1>8, <1>9, <1>10 DEF LinkInv

LEMMA AfterMintFails ==
  ASSUME LinkInv, NEW s \in Socket, MintFails(s)
  PROVE  LinkInv'
<1>1. flight' = [flight EXCEPT ![s] = flight[s] \ {"hello"}]
  BY DEF LinkInv, LinkTypeOK, MintFails, Carries
<1>2. flight' \in [Socket -> SUBSET Frame]
  BY <1>1 DEF LinkInv, LinkTypeOK
<1>3. near' \in [Socket -> {"closed", "dialing", "open"}]
  BY DEF LinkInv, LinkTypeOK, MintFails, Loses
<1>4. LinkTypeOK'
  BY <1>1, LinkConstants DEF LinkInv, MintFails, LinkTypeOK, Fault, Loses, farVars
<1>5. OneNear'
  BY <1>3 DEF LinkInv, MintFails, OneNear, Loses
<1>6. Rounds'
  BY DEF LinkInv, MintFails, LinkTypeOK, Rounds, Fault, Loses, farVars, OneNear
<1>7. Shaking'
  BY <1>3 DEF LinkInv, MintFails, Shaking, Loses, OneNear, Healthy
<1>8. Answering'
  BY DEF MintFails, Answering, Loses
<1>9. Hearing'
  BY <1>1 DEF LinkInv, MintFails, Hearing, Loses, farVars, Healthy
<1>10. QED
  BY <1>4, <1>5, <1>6, <1>7, <1>8, <1>9 DEF LinkInv

LEMMA AfterClientHears ==
  ASSUME LinkInv, NEW s \in Socket, ClientHears(s)
  PROVE  LinkInv'
<1>1. LinkTypeOK'
  BY DEF LinkInv, ClientHears, LinkTypeOK, Loses
<1>2. OneNear'
  BY DEF LinkInv, ClientHears, LinkTypeOK, OneNear, Loses
<1>3. Rounds'
  BY DEF LinkInv, ClientHears, LinkTypeOK, Rounds, Loses, OneNear
<1>4. Shaking'
  BY DEF LinkInv, ClientHears, Shaking, OneNear, Healthy
<1>5. Answering'
  BY DEF LinkInv, ClientHears, LinkTypeOK, Answering, Loses, Healthy
<1>6. Hearing'
  BY DEF LinkInv, ClientHears, Hearing, Loses, Healthy
<1>7. QED
  BY <1>1, <1>2, <1>3, <1>4, <1>5, <1>6 DEF LinkInv

LEMMA AfterClientReads ==
  ASSUME LinkInv, NEW s \in Socket, NEW f \in Frame, ClientReads(s, f)
  PROVE  LinkInv'
<1>1. /\ flight \in [Socket -> SUBSET Frame] /\ socket = s /\ near[s] = "open"
  BY DEF LinkInv, LinkTypeOK, OneNear, ClientReads
<1>2. flight' = [flight EXCEPT ![s] = flight[s] \ {f}]
  BY <1>1 DEF ClientReads, Carries
<1>3. flight' \in [Socket -> SUBSET Frame] /\ flight'[s] = flight[s] \ {f}
  BY <1>1, <1>2
<1>4. LinkTypeOK'
  BY <1>2, LinkConstants DEF LinkInv, ClientReads, LinkTypeOK, farVars
<1>5. OneNear'
  BY DEF LinkInv, ClientReads, OneNear
<1>6. Rounds'
  BY <1>1, LinkConstants DEF LinkInv, ClientReads, LinkTypeOK, Rounds, farVars
<1>7. Shaking'
  <2>1. /\ f \in {"ack", "presence", "pong"} /\ f \in flight[s]
        /\ f # "ack" => "ack" \notin flight[s]
        /\ probing' = (probing \/ f = "ack")
        /\ socket' = socket /\ near' = near /\ whole' = whole /\ far' = far
    BY DEF ClientReads, farVars
  <2>2. Healthy' => Healthy
    BY <2>1 DEF Healthy
  <2>3. QED
    BY <1>1, <1>3, <2>1, <2>2 DEF LinkInv, Shaking, Handshake
<1>8. Answering'
  BY <1>1, <1>2 DEF LinkInv, ClientReads, LinkTypeOK, Answering, farVars, Shaking, Healthy
<1>9. Hearing'
  BY <1>2 DEF LinkInv, ClientReads, Hearing, farVars, Healthy
<1>10. QED
  BY <1>4, <1>5, <1>6, <1>7, <1>8, <1>9 DEF LinkInv

LEMMA AfterRelayReads ==
  ASSUME LinkInv, NEW s \in Socket, NEW f \in Frame, RelayReads(s, f)
  PROVE  LinkInv'
<1>1. flight \in [Socket -> SUBSET Frame]
  BY DEF LinkInv, LinkTypeOK
<1>2. f \in {"hello", "ping"} /\ f \in flight[s]
  BY DEF RelayReads
<1>3. \/ f = "hello" /\ Carries(s, {"hello"}, {"lookup"})
      \/ /\ f = "ping" /\ "hello" \notin flight[s] /\ "lookup" \notin flight[s]
         /\ Carries(s, {"ping"}, IF far[s] = "registered" THEN {"pong"} ELSE {})
  BY <1>2 DEF RelayReads
<1>4. \/ /\ f = "hello"
         /\ flight' = [flight EXCEPT ![s] =
              (flight[s] \ {"hello"}) \cup (IF s \in whole THEN {"lookup"} ELSE {})]
      \/ /\ f = "ping" /\ "hello" \notin flight[s] /\ "lookup" \notin flight[s]
         /\ flight' = [flight EXCEPT ![s] = (flight[s] \ {"ping"}) \cup
              (IF s \in whole THEN (IF far[s] = "registered" THEN {"pong"} ELSE {}) ELSE {})]
  BY <1>1, <1>3 DEF Carries
<1>5. flight' \in [Socket -> SUBSET Frame]
  BY <1>1, <1>4 DEF Frame, Handshake
<1>6. LinkTypeOK'
  BY <1>4, <1>5, LinkConstants DEF LinkInv, RelayReads, LinkTypeOK
<1>7. OneNear'
  BY <1>1, <1>4 DEF LinkInv, RelayReads, OneNear
<1>8. Rounds'
  BY DEF LinkInv, RelayReads, LinkTypeOK, Rounds
<1>9. Shaking'
  BY <1>4 DEF LinkInv, RelayReads, LinkTypeOK, Shaking, Healthy, Handshake
<1>10. Answering'
  BY <1>4 DEF LinkInv, RelayReads, LinkTypeOK, Answering, Shaking, Healthy
<1>11. Hearing'
  BY <1>4 DEF LinkInv, RelayReads, LinkTypeOK, Hearing, Healthy
<1>12. QED
  BY <1>6, <1>7, <1>8, <1>9, <1>10, <1>11 DEF LinkInv

LEMMA AfterAccepts ==
  ASSUME LinkInv, NEW s \in Socket, Accepts(s)
  PROVE  LinkInv'
<1>1. flight \in [Socket -> SUBSET Frame]
  BY DEF LinkInv, LinkTypeOK
<1>2. flight' = [flight EXCEPT ![s] = (flight[s] \ {"lookup"}) \cup
           (IF s \in whole THEN {"ack", "presence"} ELSE {})]
  BY <1>1 DEF Accepts, Carries
<1>3. flight' \in [Socket -> SUBSET Frame]
  BY <1>1, <1>2 DEF Frame, Handshake
<1>4. LinkTypeOK'
  BY <1>3 DEF LinkInv, Accepts, LinkTypeOK, nearVars
<1>5. OneNear'
  BY <1>2 DEF LinkInv, Accepts, OneNear, nearVars
<1>6. Rounds'
  BY DEF LinkInv, Accepts, Rounds, nearVars
<1>7. Shaking'
  BY <1>2 DEF LinkInv, Accepts, LinkTypeOK, Shaking, nearVars, Healthy, Handshake
<1>8. Answering'
  BY <1>2 DEF LinkInv, Accepts, Answering, nearVars, Healthy
<1>9. Hearing'
  BY <1>2 DEF LinkInv, Accepts, Hearing, nearVars, Healthy
<1>10. QED
  BY <1>4, <1>5, <1>6, <1>7, <1>8, <1>9 DEF LinkInv

LEMMA AfterRefuses ==
  ASSUME LinkInv, NEW s \in Socket, Refuses(s)
  PROVE  LinkInv'
<1>1. LinkTypeOK'
  BY LinkConstants, Dropped DEF LinkInv, Refuses, LinkTypeOK, nearVars, Fault
<1>2. OneNear'
  BY Dropped DEF LinkInv, Refuses, OneNear, nearVars
<1>3. Rounds'
  BY Dropped DEF LinkInv, Refuses, LinkTypeOK, Rounds, nearVars, Fault
<1>4. Shaking'
  BY Dropped DEF LinkInv, Refuses, LinkTypeOK, Shaking, nearVars, Healthy
<1>5. Answering'
  BY Dropped DEF LinkInv, Refuses, LinkTypeOK, Answering, nearVars, Healthy
<1>6. Hearing'
  BY Dropped DEF LinkInv, Refuses, LinkTypeOK, Hearing, nearVars, Healthy
<1>7. QED
  BY <1>1, <1>2, <1>3, <1>4, <1>5, <1>6 DEF LinkInv

LEMMA AfterPongs ==
  ASSUME LinkInv, NEW s \in Socket, Pongs(s)
  PROVE  LinkInv'
<1>1. LinkTypeOK'
  BY LinkConstants DEF LinkInv, Pongs, LinkTypeOK
<1>2. OneNear'
  BY DEF LinkInv, Pongs, OneNear
<1>3. Rounds'
  BY DEF LinkInv, Pongs, LinkTypeOK, Rounds
<1>4. Shaking'
  BY DEF LinkInv, Pongs, Shaking, Healthy
<1>5. Answering'
  BY DEF LinkInv, Pongs, Answering, Healthy
<1>6. Hearing'
  BY DEF LinkInv, Pongs, LinkTypeOK, Hearing, OneNear
<1>7. QED
  BY <1>1, <1>2, <1>3, <1>4, <1>5, <1>6 DEF LinkInv

LEMMA AfterAges ==
  ASSUME LinkInv, NEW s \in Socket, Ages(s)
  PROVE  LinkInv'
<1>1. LinkTypeOK'
  BY Dropped DEF LinkInv, Ages, LinkTypeOK, nearVars
<1>2. OneNear'
  BY Dropped DEF LinkInv, Ages, OneNear, nearVars
<1>3. Rounds'
  BY Dropped DEF LinkInv, Ages, Rounds, nearVars
<1>4. Shaking'
  BY Dropped DEF LinkInv, Ages, LinkTypeOK, Shaking, nearVars, Healthy
<1>5. Answering'
  BY Dropped DEF LinkInv, Ages, LinkTypeOK, Answering, nearVars, Healthy
<1>6. Hearing'
  BY Dropped DEF LinkInv, Ages, LinkTypeOK, Hearing, nearVars, Healthy
<1>7. QED
  BY <1>1, <1>2, <1>3, <1>4, <1>5, <1>6 DEF LinkInv

LEMMA AfterRelayHears ==
  ASSUME LinkInv, NEW s \in Socket, RelayHears(s)
  PROVE  LinkInv'
<1>1. LinkTypeOK'
  BY Dropped DEF LinkInv, RelayHears, LinkTypeOK, nearVars
<1>2. OneNear'
  BY Dropped DEF LinkInv, RelayHears, OneNear, nearVars
<1>3. Rounds'
  BY Dropped DEF LinkInv, RelayHears, Rounds, nearVars
<1>4. Shaking'
  BY Dropped DEF LinkInv, RelayHears, LinkTypeOK, Shaking, nearVars, Healthy
<1>5. Answering'
  BY Dropped DEF LinkInv, RelayHears, LinkTypeOK, Answering, nearVars, Healthy
<1>6. Hearing'
  BY Dropped DEF LinkInv, RelayHears, LinkTypeOK, Hearing, nearVars, Healthy
<1>7. QED
  BY <1>1, <1>2, <1>3, <1>4, <1>5, <1>6 DEF LinkInv

LEMMA AfterPathDies ==
  ASSUME LinkInv, NEW s \in Socket, PathDies(s)
  PROVE  LinkInv'
<1>1. LinkTypeOK'
  BY LinkConstants DEF LinkInv, PathDies, LinkTypeOK, nearVars, farVars, Fault
<1>2. OneNear'
  BY DEF LinkInv, PathDies, OneNear, nearVars
<1>3. Rounds'
  BY DEF LinkInv, PathDies, LinkTypeOK, Rounds, nearVars, farVars, Fault
<1>4. Shaking'
  BY DEF LinkInv, PathDies, Shaking, nearVars, farVars, Healthy
<1>5. Answering'
  BY DEF LinkInv, PathDies, Answering, nearVars, farVars, Healthy
<1>6. Hearing'
  BY DEF LinkInv, PathDies, Hearing, nearVars, farVars, Healthy
<1>7. QED
  BY <1>1, <1>2, <1>3, <1>4, <1>5, <1>6 DEF LinkInv

LEMMA AfterProbes ==
  ASSUME LinkInv, Probes
  PROVE  LinkInv'
<1>1. LinkTypeOK'
  <2>1. /\ faults' \in 0 .. MaxFaults /\ late' \in 0 .. MaxFaults /\ lag' \in 0 .. MaxFaults
    BY LinkConstants DEF LinkInv, LinkTypeOK, Rounds, Probes, Fault
  <2>2. /\ near' \in [Socket -> {"closed", "dialing", "open"}]
        /\ redial' \in BOOLEAN /\ probing' \in BOOLEAN /\ over' \in BOOLEAN /\ saw' \in BOOLEAN
    BY DEF LinkInv, LinkTypeOK, Probes, Loses
  <2>3. silent' \in 0 .. MaxSilent
    BY LinkConstants DEF LinkInv, LinkTypeOK, Probes
  <2>4. flight' \in [Socket -> SUBSET Frame]
    BY DEF LinkInv, LinkTypeOK, Probes, Carries, Frame
  <2>5. QED
    BY <2>1, <2>2, <2>3, <2>4 DEF LinkInv, LinkTypeOK, Probes
<1>2. OneNear'
  BY DEF LinkInv, Probes, LinkTypeOK, OneNear, Loses
<1>3. Rounds'
  BY LinkConstants DEF LinkInv, Probes, LinkTypeOK, Rounds, Fault, Loses
<1>4. Shaking'
  BY DEF LinkInv, Probes, LinkTypeOK, Shaking, Loses, Carries, Healthy
<1>5. Answering'
  <2> SUFFICES ASSUME Healthy', probing' PROVE saw' \/ (silent' <= late' /\ flight'[socket'] # {})
    BY DEF Answering
  <2>1. UNCHANGED <<socket, whole, far>>
    BY DEF Probes
  <2>2. Healthy /\ probing /\ socket \in Socket /\ near[socket] = "open" /\ ~over
    BY <2>1 DEF LinkInv, LinkTypeOK, OneNear, Healthy, Probes, Loses
  <2> DEFINE silence == IF saw THEN 0 ELSE silent + 1
  <2>3. silence < MaxSilent /\ silent' = silence /\ Carries(socket, {}, {"ping"})
    <3>1. socket # NoSocket
      BY <2>2, LinkConstants
    <3>2. silence \in Nat /\ MaxSilent \in Nat
      BY LinkConstants DEF LinkInv, LinkTypeOK
    <3>3. ~(silence >= MaxSilent)
      <4>1. silence >= MaxSilent => near'[socket] = "closed"
        BY <2>2, <3>1 DEF LinkInv, LinkTypeOK, Probes, Loses
      <4>2. near'[socket] = "open"
        BY <2>1 DEF Healthy
      <4>3. QED
        BY <4>1, <4>2
    <3>4. QED
      BY <2>2, <3>1, <3>2, <3>3 DEF Probes
  <2>4. "ping" \in flight'[socket]
    BY <2>2, <2>3 DEF LinkInv, LinkTypeOK, Healthy, Carries
  <2>5. silence <= late'
    <3>1. CASE saw
      BY <3>1 DEF LinkInv, LinkTypeOK, Probes
    <3>2. CASE ~saw
      <4>1. silent <= late /\ Awaits(socket)
        BY <2>2, <3>2 DEF LinkInv, Answering, Healthy, Awaits
      <4>2. late' = late + 1
        BY <2>2, <4>1, LinkConstants DEF LinkInv, LinkTypeOK, Probes
      <4>3. QED
        BY <3>2, <4>1, <4>2 DEF LinkInv, LinkTypeOK
    <3>3. QED
      BY <3>1, <3>2
  <2>6. QED
    BY <2>1, <2>3, <2>4, <2>5
<1>6. Hearing'
  BY LinkConstants DEF LinkInv, Probes, LinkTypeOK, Hearing, Awaits, Loses, Carries,
       OneNear, Shaking, Healthy
<1>7. QED
  BY <1>1, <1>2, <1>3, <1>4, <1>5, <1>6 DEF LinkInv

LEMMA AfterSweeps ==
  ASSUME LinkInv, Sweeps
  PROVE  LinkInv'
<1>1. LinkTypeOK'
  <2>1. quiet' \in [Socket -> 0 .. MaxSilent]
    <3>1. ASSUME NEW s \in Socket
          PROVE  (IF far[s] = "closed" \/ heard[s] THEN 0 ELSE quiet[s] + 1) \in 0 .. MaxSilent
      BY LinkConstants DEF LinkInv, LinkTypeOK, Rounds
    <3>2. QED
      BY <3>1 DEF Sweeps
  <2>2. /\ flight' \in [Socket -> SUBSET Frame]
        /\ far' \in [Socket -> {"closed", "open", "registered"}]
    BY Dropped DEF LinkInv, Sweeps
  <2>3. heard' \in [Socket -> BOOLEAN] /\ next' \in {"client", "relay"}
    BY DEF Sweeps
  <2>4. QED
    BY <2>1, <2>2, <2>3 DEF LinkInv, LinkTypeOK, Sweeps, nearVars
<1>2. OneNear'
  BY Dropped DEF LinkInv, Sweeps, OneNear, nearVars
<1>3. Rounds'
  <2>1. ASSUME NEW s \in Socket, far'[s] # "closed" PROVE quiet'[s] < MaxSilent
    <3>1. Drops({r \in Socket : far[r] # "closed" /\ quiet'[r] >= MaxSilent})
      BY DEF Sweeps
    <3>2. far[s] # "closed" /\ ~(quiet'[s] >= MaxSilent)
      BY <2>1, <3>1 DEF Drops
    <3>3. quiet'[s] \in Nat /\ MaxSilent \in Nat
      BY <1>1, LinkConstants DEF LinkTypeOK
    <3>4. QED
      BY <3>2, <3>3
  <2>2. QED
    BY <2>1 DEF LinkInv, Rounds, Sweeps, nearVars
<1>4. Shaking'
  BY Dropped DEF LinkInv, Sweeps, LinkTypeOK, Shaking, nearVars, Healthy
<1>5. Answering'
  BY Dropped DEF LinkInv, Sweeps, LinkTypeOK, Answering, nearVars, Healthy
<1>6. Hearing'
  BY LinkConstants, Dropped DEF LinkInv, Sweeps, LinkTypeOK, Hearing, nearVars, Rounds, Healthy
<1>7. QED
  BY <1>1, <1>2, <1>3, <1>4, <1>5, <1>6 DEF LinkInv

LEMMA LinkInitially == LinkInit => LinkInv
<1> SUFFICES ASSUME LinkInit PROVE LinkInv
  OBVIOUS
<1>1. LinkTypeOK
  <2>1. 0 \in 0 .. MaxSilent /\ 0 \in 0 .. MaxFaults /\ {} \in SUBSET Frame
    BY LinkConstants
  <2>2. QED
    BY <2>1 DEF LinkInit, LinkTypeOK
<1>2. OneNear /\ Rounds
  BY LinkConstants DEF LinkInit, OneNear, Rounds
<1>3. ~Healthy
  BY LinkConstants DEF LinkInit, Healthy
<1>4. QED
  BY <1>1, <1>2, <1>3 DEF LinkInv, Shaking, Answering, Hearing

LEMMA LinkInductive == LinkSpec => []LinkInv
<1>1. ASSUME LinkInv, UNCHANGED linkVars PROVE LinkInv'
  BY <1>1 DEF linkVars, LinkInv, LinkTypeOK, OneNear, Rounds, Shaking, Answering, Hearing, Healthy
<1>2. ASSUME LinkInv, LinkNext PROVE LinkInv'
  <2>1. CASE Probes \/ Sweeps
    BY <1>2, <2>1, AfterProbes, AfterSweeps
  <2>2. ASSUME NEW s \in Socket,
               \/ Dials(s) \/ DialFails(s) \/ Connects(s) \/ MintFails(s)
               \/ ClientHears(s) \/ RelayHears(s)
               \/ Accepts(s) \/ Refuses(s) \/ Pongs(s) \/ Ages(s) \/ PathDies(s)
        PROVE  LinkInv'
    BY <1>2, <2>2, AfterDials, AfterDialFails, AfterConnects, AfterMintFails, AfterClientHears,
       AfterRelayHears, AfterAccepts, AfterRefuses, AfterPongs, AfterAges, AfterPathDies
  <2>3. ASSUME NEW s \in Socket, NEW f \in Frame, ClientReads(s, f) \/ RelayReads(s, f)
        PROVE  LinkInv'
    BY <1>2, <2>3, AfterClientReads, AfterRelayReads
  <2>4. QED
    BY <1>2, <2>1, <2>2, <2>3 DEF LinkNext
<1>3. QED
  BY <1>1, <1>2, LinkInitially, PTL DEF LinkSpec

\* Every variable of the link stays in its domain.
THEOREM LinkTypeCorrect == LinkSpec => []LinkTypeOK
<1>1. LinkInv => LinkTypeOK
  BY DEF LinkInv
<1>2. QED
  BY <1>1, LinkInductive, PTL

\* A link whose path works is torn down by silence only when the network made MaxSilent
\* rounds of the client in a row miss an answer, MaxSilent - 1 for the relay's own sweep.
THEOREM LinkOutlivesSlowAnswers == LinkSpec => HealthyLinkStays
<1>1. ASSUME LinkInv, Probes, socket \in whole, far[socket] # "closed",
             near'[socket] # near[socket]
      PROVE  late' >= MaxSilent
  <2>1. /\ Healthy /\ probing /\ socket # NoSocket
        /\ (IF saw THEN 0 ELSE silent + 1) >= MaxSilent
    BY <1>1, LinkConstants DEF LinkInv, LinkTypeOK, Healthy, Probes
  <2>2. ~saw /\ silent + 1 >= MaxSilent
    BY <2>1, LinkConstants
  <2>3. silent <= late /\ Awaits(socket)
    BY <1>1, <2>1, <2>2 DEF LinkInv, Answering, Healthy, Awaits
  <2>4. late' = late + 1
    BY <1>1, <2>1, <2>3 DEF Probes, Healthy
  <2>5. QED
    BY <1>1, <2>2, <2>3, <2>4, LinkConstants DEF LinkInv, LinkTypeOK
<1>2. ASSUME LinkInv, Sweeps, Linked, far'[socket] = "closed"
      PROVE  lag >= MaxSilent - 1
  <2>1. Healthy /\ socket \in Socket /\ far[socket] # "closed" /\ next = "relay"
    BY <1>2 DEF LinkInv, LinkTypeOK, Linked, Healthy, Sweeps
  <2>2. ~heard[socket] /\ quiet[socket] + 1 >= MaxSilent
    <3>1. quiet'[socket] >= MaxSilent
      BY <1>2, <2>1 DEF Sweeps, Drops
    <3>2. quiet'[socket] = IF heard[socket] THEN 0 ELSE quiet[socket] + 1
      BY <1>2, <2>1 DEF Sweeps
    <3>3. QED
      BY <3>1, <3>2, LinkConstants
  <2>3. quiet[socket] + 1 <= lag + 1
    BY <1>2, <2>1, <2>2 DEF LinkInv, LinkTypeOK, Hearing
  <2>4. QED
    BY <1>2, <2>1, <2>2, <2>3, LinkConstants DEF LinkInv, LinkTypeOK
<1>3. LinkInv =>
        [/\ (Probes /\ socket \in whole /\ far[socket] # "closed" /\ near'[socket] # near[socket])
              => late' >= MaxSilent
         /\ (Sweeps /\ Linked /\ probing /\ far'[socket] = "closed")
              => lag >= MaxSilent - 1]_linkVars
  BY <1>1, <1>2
<1>4. QED
  BY <1>3, LinkInductive, PTL DEF HealthyLinkStays
=============================================================================
