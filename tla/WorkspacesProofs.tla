-------------------------- MODULE WorkspacesProofs --------------------------
(***************************************************************************)
(* What holds of Workspaces for every set of sessions, any number of       *)
(* sockets and of requests: its types; a session that reads as running is  *)
(* attended; a worktree is touched between turns unless two sockets meet   *)
(* or a follow-up was being decrypted; a delete with a reap strands no     *)
(* worktree.                                                               *)
(***************************************************************************)
EXTENDS Workspaces, TLAPS

\* Git is only ever asked about a session that was made and has its own worktree.
OwnTrees ==
  /\ \A s \in Session : rec[s].repo => making[s].at = "made" /\ rec[s].tree = s
  /\ \A l \in Link : job[l] # NoJob =>
       making[job[l].of].at = "made" /\ job[l].tree = job[l].of

\* Whatever a reap answers with ok, and what is deleted after it, has lost its worktree
\* for good.
Treeless(s) == making[s].at = "made" /\ head[s] = None
ReapedAreTreeless ==
  /\ \A l \in Link : job[l] # NoJob /\ job[l].at = "branch" => Treeless(job[l].of)
  /\ \A f \in down : f.kind = "reap" /\ f.how = "ok" => Treeless(f.of)
  /\ \A s \in deleting \cup gone : Treeless(s)

\* A request that git is asked for knows of a follow-up still to be opened by its chain.
OpeningIsSeen ==
  \A l \in Link : job[l] # NoJob /\ opening[job[l].of] = l => job[l].opens

IInv ==
  /\ TypeOK /\ OwnTrees /\ ReapedAreTreeless /\ RunningIsAttended
  /\ OpeningIsSeen /\ MovesBetweenTurns
USE WorkspaceConstants

\* The records the actions build are of their types.
LEMMA Records ==
  /\ NoRec \in Rec /\ Unmade \in Plan /\ Made \in Plan /\ Failed \in Plan
  /\ \A m \in Plan, a \in {"no", "mint", "cut", "made", "failed"} : [m EXCEPT !.at = a] \in Plan
  /\ \A r \in Rec, st \in {None, "running"} \cup Ended : [r EXCEPT !.status = st] \in Rec
  /\ \A r \in Rec : [r EXCEPT !.status = "running", !.repo = FALSE] \in Rec
  BY DEF Rec, Plan, NoRec, Unmade, Made, Failed, Ended

\* What an action leaves alone keeps its type.
LEMMA Kept ==
  TypeOK =>
    /\ UNCHANGED daemon => DaemonOK'
    /\ UNCHANGED wire => WireOK'
    /\ UNCHANGED job => JobOK'
    /\ UNCHANGED git => GitOK'
    /\ UNCHANGED <<asks, down, elsewhere>> => AsksOK'
    /\ UNCHANGED tab => TabOK'
<1> SUFFICES ASSUME TypeOK PROVE
      /\ UNCHANGED daemon => DaemonOK'
      /\ UNCHANGED wire => WireOK'
      /\ UNCHANGED job => JobOK'
      /\ UNCHANGED git => GitOK'
      /\ UNCHANGED <<asks, down, elsewhere>> => AsksOK'
      /\ UNCHANGED tab => TabOK'
  OBVIOUS
<1> USE DEF TypeOK
<1>1. UNCHANGED daemon => DaemonOK'  BY DEF daemon, DaemonOK
<1>2. UNCHANGED wire => WireOK'  BY DEF wire, WireOK
<1>3. UNCHANGED job => JobOK'  BY DEF JobOK
<1>4. UNCHANGED git => GitOK'  BY DEF git, GitOK
<1>5. UNCHANGED <<asks, down, elsewhere>> => AsksOK'  BY DEF AsksOK
<1>6. UNCHANGED tab => TabOK'  BY DEF tab, TabOK
<1>7. QED  BY <1>1, <1>2, <1>3, <1>4, <1>5, <1>6

LEMMA InitIInv == Init => IInv
<1> SUFFICES ASSUME Init PROVE IInv
  OBVIOUS
<1> USE DEF Init
<1>1. DaemonOK  BY Records DEF DaemonOK
<1>2. WireOK /\ JobOK  BY DEF WireOK, JobOK, Link
<1>3. GitOK  BY DEF GitOK, Branch
<1>4. AsksOK /\ TabOK  BY DEF AsksOK, TabOK
<1>5. /\ OwnTrees /\ ReapedAreTreeless /\ RunningIsAttended
      /\ OpeningIsSeen /\ MovesBetweenTurns
  BY DEF OwnTrees, ReapedAreTreeless, RunningIsAttended, OpeningIsSeen, MovesBetweenTurns,
     NoRec, None
<1>6. QED
  BY <1>1, <1>2, <1>3, <1>4, <1>5 DEF IInv, TypeOK

\* A verdict is sealed or sent to every tab, or lost.
LEMMA ReplyOK ==
  ASSUME TypeOK, NEW q, q.kind \in Kind, q.of \in Session, q.n \in Nat,
         NEW ok \in BOOLEAN, Reply(q, ok), UNCHANGED <<asks, elsewhere>>
  PROVE  AsksOK'
  BY DEF TypeOK, AsksOK, Reply, Verdict, How

\* Settling an ask keeps the ledger's types.
LEMMA SettleOK ==
  ASSUME TypeOK, NEW k \in Kind, NEW s \in Session, NEW how \in How \cup {"timeout"},
         NEW n \in Nat, Settle(k, s, how, n)
  PROVE  /\ pending' \in [Kind -> [Session -> Nat]]
         /\ timers' \subseteq Timer
         /\ \A m \in mixed' : m[1] \in How \cup {"timeout"} /\ m[2] \in Nat /\ m[3] \in Nat
         /\ late' \subseteq Nat
<1>1. pending[k][s] \in Nat  BY DEF TypeOK, TabOK
<1>2. pending' \in [Kind -> [Session -> Nat]] /\ timers' \subseteq Timer
  BY DEF TypeOK, TabOK, Settle, Cleared
<1>3. \A m \in mixed' : m[1] \in How \cup {"timeout"} /\ m[2] \in Nat /\ m[3] \in Nat
  BY <1>1 DEF TypeOK, TabOK, Settle
<1>4. late' \subseteq Nat  BY <1>1 DEF TypeOK, TabOK, Settle
<1>5. QED  BY <1>2, <1>3, <1>4

LEMMA StartOK ==
  ASSUME TypeOK, NEW k \in Kind, NEW s \in Session, NEW n \in Nat, Start(k, s, n)
  PROVE  /\ pending' \in [Kind -> [Session -> Nat]]
         /\ timers' \subseteq Timer
         /\ late' \subseteq Nat
<1>1. pending[k][s] \in Nat  BY DEF TypeOK, TabOK
<1>2. pending' \in [Kind -> [Session -> Nat]]  BY DEF TypeOK, TabOK, Start
<1>3. timers' \subseteq Timer  BY DEF TypeOK, TabOK, Start, Cleared, Timer
<1>4. late' \subseteq Nat  BY <1>1 DEF TypeOK, TabOK, Start
<1>5. QED  BY <1>2, <1>3, <1>4

LEMMA TypeStep == TypeOK /\ [Next]_vars => TypeOK'
<1> SUFFICES ASSUME TypeOK, [Next]_vars PROVE TypeOK'
  OBVIOUS
<1>1. ASSUME NEW s \in Session, Launch(s)
      PROVE  TypeOK'
  <2>1. DaemonOK'  BY <1>1, Records DEF Launch, TypeOK, DaemonOK
  <2>2. QED  BY Kept, <1>1, <2>1 DEF Launch, TypeOK
<1>2. ASSUME NEW p \in Session, NEW c \in Session, ResumeNew(p, c)
      PROVE  TypeOK'
  <2>1. DaemonOK'  BY <1>2 DEF ResumeNew, TypeOK, DaemonOK, Plan
  <2>2. QED  BY Kept, <1>2, <2>1 DEF ResumeNew, TypeOK
<1>3. ASSUME NEW s \in Session, Minted(s)
      PROVE  TypeOK'
  <2>1. making[s] \in Plan /\ making[s].parent \in Rec /\ link \in Nat
    BY DEF TypeOK, DaemonOK, WireOK, Link, Plan
  <2>2. rec' \in [Session -> Rec]
    BY <1>3, <2>1, Records DEF Minted, TypeOK, DaemonOK
  <2>3. making' \in [Session -> Plan]
    BY <1>3, <2>1, Records DEF Minted, TypeOK, DaemonOK
  <2>4. turn' \in [Session -> Nat]
    BY <1>3, <2>1 DEF Minted, TypeOK, DaemonOK
  <2>5. QED  BY Kept, <1>3, <2>2, <2>3, <2>4 DEF Minted, TypeOK, DaemonOK
<1>4. ASSUME NEW s \in Session, MintFails(s)
      PROVE  TypeOK'
  <2>1. DaemonOK'  BY <1>4, Records DEF MintFails, TypeOK, DaemonOK
  <2>2. QED  BY Kept, <1>4, <2>1 DEF MintFails, TypeOK
<1>5. ASSUME NEW s \in Session, CutTree(s)
      PROVE  TypeOK'
  <2>1. PICK b \in Branch :
          /\ CutOnto(s, b)
          /\ rec' = [rec EXCEPT ![s] = [status |-> "running", tree |-> s, repo |-> TRUE,
                                        branch |-> b]]
    BY <1>5 DEF CutTree
  <2>2. rec' \in [Session -> Rec]  BY <2>1 DEF TypeOK, DaemonOK, Rec
  <2>3. making' \in [Session -> Plan]  BY <1>5, Records DEF CutTree, TypeOK, DaemonOK
  <2>4. turn' \in [Session -> Nat]  BY <1>5 DEF CutTree, TypeOK, DaemonOK, WireOK, Link
  <2>5. GitOK'  BY <2>1 DEF CutOnto, TypeOK, GitOK
  <2>6. QED  BY Kept, <1>5, <2>2, <2>3, <2>4, <2>5 DEF CutTree, TypeOK, DaemonOK
<1>6. ASSUME NEW s \in Session, CutFails(s)
      PROVE  TypeOK'
  <2>1. DaemonOK'  BY <1>6, Records DEF CutFails, TypeOK, DaemonOK, Ended
  <2>2. QED  BY Kept, <1>6, <2>1 DEF CutFails, TypeOK
<1>7. ASSUME NEW s \in Session, FollowUp(s)
      PROVE  TypeOK'
  <2>1. rec' \in [Session -> Rec]  BY <1>7, Records DEF FollowUp, TypeOK, DaemonOK
  <2>2. turn' \in [Session -> Nat]  BY <1>7 DEF FollowUp, TypeOK, DaemonOK, Link
  <2>3. opening' \in [Session -> Nat] /\ astray' \subseteq Session
    BY <1>7 DEF FollowUp, TypeOK, DaemonOK
  <2>4. DaemonOK'  BY <1>7, <2>1, <2>2, <2>3 DEF FollowUp, TypeOK, DaemonOK
  <2>5. QED  BY Kept, <1>7, <2>4 DEF FollowUp, TypeOK
<1>7a. ASSUME NEW s \in Session, FollowUpRefused(s)
       PROVE  TypeOK'
  <2>1. rec' \in [Session -> Rec] /\ astray' \subseteq Session
    <3>1. CASE UNCHANGED <<rec, astray>>
      BY <3>1 DEF TypeOK, DaemonOK
    <3>2. CASE rec' = [rec EXCEPT ![s].status = "error"] /\ astray' = astray \ {s}
      BY <3>2, Records DEF TypeOK, DaemonOK, Ended
    <3>3. QED  BY <1>7a, <3>1, <3>2 DEF FollowUpRefused
  <2>2. DaemonOK'  BY <1>7a, <2>1 DEF FollowUpRefused, TypeOK, DaemonOK
  <2>3. QED  BY Kept, <1>7a, <2>2 DEF FollowUpRefused, TypeOK
<1>7b. ASSUME NEW s \in Session, NEW l \in Link, TakeMessage(s, l)
       PROVE  TypeOK'
  <2>1. DaemonOK'  BY <1>7b DEF TakeMessage, TypeOK, DaemonOK, Link
  <2>2. QED  BY Kept, <1>7b, <2>1 DEF TakeMessage, TypeOK
<1>8. ASSUME NEW s \in Session, TurnEnds(s)
      PROVE  TypeOK'
  <2>1. rec' \in [Session -> Rec]
    <3>1. PICK st \in Ended : rec' = [rec EXCEPT ![s].status = st]
      BY <1>8 DEF TurnEnds
    <3>2. QED
      BY <3>1, Records DEF TypeOK, DaemonOK
  <2>2. turn' \in [Session -> Nat]  BY <1>8 DEF TurnEnds, TypeOK, DaemonOK
  <2>3. DaemonOK'  BY <1>8, <2>1, <2>2 DEF TurnEnds, TypeOK, DaemonOK
  <2>4. QED  BY Kept, <1>8, <2>3 DEF TurnEnds, TypeOK
<1>8a. ASSUME NEW s \in Session, LateGate(s)
       PROVE  TypeOK'
  <2>1. DaemonOK'  BY <1>8a, Records DEF LateGate, TypeOK, DaemonOK
  <2>2. QED  BY Kept, <1>8a, <2>1 DEF LateGate, TypeOK
<1>9. ASSUME NEW l \in Link, Refuse(l)
      PROVE  TypeOK'
  <2>1. Head(queue[l]) \in Asked  BY <1>9 DEF Refuse, Take, TypeOK, WireOK
  <2>2. WireOK'  BY <1>9 DEF Refuse, Take, TypeOK, WireOK
  <2>3. AsksOK'  BY <1>9, <2>1, ReplyOK DEF Refuse, Asked
  <2>4. QED  BY Kept, <1>9, <2>2, <2>3 DEF Refuse, TypeOK
<1>10. ASSUME NEW l \in Link, Begin(l)
       PROVE  TypeOK'
  <2>1. Head(queue[l]) \in Asked  BY <1>10 DEF Begin, Take, TypeOK, WireOK
  <2>2. rec[Head(queue[l]).of] \in Rec  BY <2>1 DEF Asked, TypeOK, DaemonOK
  <2>3. WireOK'  BY <1>10 DEF Begin, Take, TypeOK, WireOK
  <2>4. JobOK'  BY <1>10, <2>1, <2>2 DEF Begin, TypeOK, JobOK, Job, Asked, Rec
  <2>5. QED  BY Kept, <1>10, <2>3, <2>4 DEF Begin, TypeOK
<1>11. ASSUME NEW l \in Link, Switched(l)
       PROVE  TypeOK'
  <2>1. job[l] \in Job  BY <1>11 DEF Switched, Finishes, TypeOK, JobOK, NoJob, None
  <2>2. DaemonOK'  BY <1>11, <2>1 DEF Switched, TypeOK, DaemonOK, Job, Rec
  <2>3. GitOK'  BY <1>11, <2>1 DEF Switched, TypeOK, GitOK
  <2>4. JobOK'  BY <1>11 DEF Switched, Finishes, TypeOK, JobOK
  <2>5. AsksOK'  BY <1>11, <2>1, ReplyOK DEF Switched, Job
  <2>6. QED  BY Kept, <1>11, <2>2, <2>3, <2>4, <2>5 DEF Switched, TypeOK
<1>12. ASSUME NEW l \in Link, Pushed(l)
       PROVE  TypeOK'
  <2>1. job[l] \in Job  BY <1>12 DEF Pushed, Finishes, TypeOK, JobOK, NoJob, None
  <2>2. JobOK'  BY <1>12 DEF Pushed, Finishes, TypeOK, JobOK
  <2>3. AsksOK'  BY <1>12, <2>1, ReplyOK DEF Pushed, Job
  <2>4. QED  BY Kept, <1>12, <2>2, <2>3 DEF Pushed, TypeOK
<1>13. ASSUME NEW l \in Link, TreeRemoved(l)
       PROVE  TypeOK'
  <2>1. job[l] \in Job  BY <1>13 DEF TreeRemoved, TypeOK, JobOK, NoJob, None
  <2>2. JobOK'  BY <1>13, <2>1 DEF TreeRemoved, TypeOK, JobOK, Job
  <2>3. GitOK'  BY <1>13 DEF TreeRemoved, TypeOK, GitOK
  <2>4. QED  BY Kept, <1>13, <2>2, <2>3 DEF TreeRemoved, TypeOK
<1>14. ASSUME NEW l \in Link, Reaped(l)
       PROVE  TypeOK'
  <2>1. job[l] \in Job  BY <1>14 DEF Reaped, Finishes, TypeOK, JobOK, NoJob, None
  <2>2. DaemonOK'  BY <1>14, Records DEF Reaped, TypeOK, DaemonOK
  <2>3. JobOK'  BY <1>14 DEF Reaped, Finishes, TypeOK, JobOK
  <2>4. GitOK'  BY <1>14 DEF Reaped, TypeOK, GitOK
  <2>5. AsksOK'  BY <1>14, <2>1, ReplyOK DEF Reaped, Job
  <2>6. QED  BY Kept, <1>14, <2>2, <2>3, <2>4, <2>5 DEF Reaped, TypeOK
<1>15. ASSUME NEW l \in Link, GitFails(l)
       PROVE  TypeOK'
  <2>1. job[l] \in Job  BY <1>15 DEF GitFails, TypeOK, JobOK
  <2>2. JobOK'  BY <1>15 DEF GitFails, TypeOK, JobOK
  <2>3. AsksOK'  BY <1>15, <2>1, ReplyOK DEF GitFails, Job
  <2>4. QED  BY Kept, <1>15, <2>2, <2>3 DEF GitFails, TypeOK
<1>16. CASE LinkDrops
  <2>1. WireOK'  BY <1>16 DEF LinkDrops, TypeOK, WireOK
  <2>2. QED  BY Kept, <1>16, <2>1 DEF LinkDrops, TypeOK
<1>17. CASE Redial
  <2>1. WireOK'  BY <1>17 DEF Redial, TypeOK, WireOK, Link
  <2>2. QED  BY Kept, <1>17, <2>1 DEF Redial, TypeOK
<1>18. ASSUME NEW k \in Kind, NEW s \in Session, Ask(k, s)
       PROVE  TypeOK'
  <2>1. PICK b \in Choices(k, s) : Sent(Request(k, s, b))
    BY <1>18 DEF Ask
  <2>2. Request(k, s, b) \in Asked
    BY DEF Request, Asked, Choices, TypeOK, GitOK, AsksOK
  <2>3. queue' \in [Link -> Seq(Asked)]
    <3>1. CASE queue' = [queue EXCEPT ![link] = Append(@, Request(k, s, b))]
      BY <3>1, <2>2 DEF TypeOK, WireOK
    <3>2. CASE queue' = queue
      BY <3>2 DEF TypeOK, WireOK
    <3>3. QED
      BY <2>1, <3>1, <3>2 DEF Sent
  <2>4. WireOK'  BY <1>18, <2>3 DEF Ask, TypeOK, WireOK
  <2>5. AsksOK'
    BY <1>18, <2>1, <2>2 DEF Ask, Sent, Asked, TypeOK, AsksOK, Verdict, How
  <2>6. TabOK'  BY <1>18, StartOK DEF Ask, TypeOK, TabOK, AsksOK
  <2>7. QED  BY Kept, <1>18, <2>4, <2>5, <2>6 DEF Ask, TypeOK
<1>19. ASSUME NEW k \in Kind, NEW s \in Session, AskElsewhere(k, s)
       PROVE  TypeOK'
  <2>1. PICK b \in Choices(k, s) :
          queue' = [queue EXCEPT ![link] = Append(@, Request(k, s, b))]
    BY <1>19 DEF AskElsewhere
  <2>2. Request(k, s, b) \in Asked
    BY DEF Request, Asked, Choices, TypeOK, GitOK, AsksOK
  <2>3. WireOK'  BY <1>19, <2>1, <2>2 DEF AskElsewhere, TypeOK, WireOK
  <2>4. AsksOK'  BY <1>19 DEF AskElsewhere, TypeOK, AsksOK
  <2>5. QED  BY Kept, <1>19, <2>3, <2>4 DEF AskElsewhere, TypeOK
<1>20. CASE TakeVerdict
  <2>1. PICK f \in down :
          /\ down' = down \ {f}
          /\ Settle(f.kind, f.of, f.how, f.n)
          /\ deleting' = IF GoesOn(f) THEN deleting \cup {f.of} ELSE deleting
    BY <1>20 DEF TakeVerdict
  <2>2. f.kind \in Kind /\ f.of \in Session /\ f.how \in How /\ f.n \in Nat
    BY DEF TypeOK, AsksOK, Verdict
  <2>3. AsksOK'  BY <1>20, <2>1 DEF TakeVerdict, TypeOK, AsksOK
  <2>4. TabOK'  BY <1>20, <2>1, <2>2, SettleOK DEF TakeVerdict, TypeOK, TabOK
  <2>5. QED  BY Kept, <1>20, <2>3, <2>4 DEF TakeVerdict, TypeOK
<1>21. CASE TimesOut
  <2>1. PICK t \in timers : Settle(t.kind, t.of, "timeout", t.n)
    BY <1>21 DEF TimesOut
  <2>2. t.kind \in Kind /\ t.of \in Session /\ t.n \in Nat
    BY DEF TypeOK, TabOK, Timer
  <2>3. TabOK'  BY <1>21, <2>1, <2>2, SettleOK DEF TimesOut, TypeOK, TabOK
  <2>4. QED  BY Kept, <1>21, <2>3 DEF TimesOut, TypeOK
<1>22. ASSUME NEW s \in Session, DeleteRow(s)
       PROVE  TypeOK'
  <2>1. TabOK'  BY <1>22 DEF DeleteRow, TypeOK, TabOK
  <2>2. QED  BY Kept, <1>22, <2>1 DEF DeleteRow, TypeOK
<1>23. CASE UNCHANGED vars
  BY Kept, <1>23 DEF vars, TypeOK
<1>24. QED
  BY <1>1, <1>2, <1>3, <1>4, <1>5, <1>6, <1>7, <1>7a, <1>7b, <1>8, <1>8a, <1>9,
     <1>10, <1>11, <1>12, <1>13,
     <1>14, <1>15, <1>16, <1>17, <1>18, <1>19, <1>20, <1>21, <1>22, <1>23
     DEF Next, Making, Turns, Chain, Browser

\* What neither the daemon nor git has a part in.
LEMMA QuietSteps ==
  Browser \/ LinkDrops \/ Redial \/ UNCHANGED vars => UNCHANGED <<daemon, job>> /\ UNCHANGED git
  BY DEF Browser, Ask, AskElsewhere, TakeVerdict, TimesOut, DeleteRow, LinkDrops, Redial, vars

LEMMA OwnTreesStep == TypeOK /\ OwnTrees /\ [Next]_vars => OwnTrees'
<1> SUFFICES ASSUME TypeOK /\ OwnTrees, [Next]_vars PROVE OwnTrees'
  OBVIOUS
<1>1. ASSUME NEW s \in Session, Launch(s)
      PROVE  OwnTrees'
  BY <1>1 DEF Launch, OwnTrees
<1>2. ASSUME NEW p \in Session, NEW c \in Session, ResumeNew(p, c)
      PROVE  OwnTrees'
  BY <1>2 DEF ResumeNew, OwnTrees
<1>3. ASSUME NEW s \in Session, Minted(s)
      PROVE  OwnTrees'
  BY <1>3 DEF Minted, NoRec, OwnTrees
<1>4. ASSUME NEW s \in Session, MintFails(s)
      PROVE  OwnTrees'
  BY <1>4 DEF MintFails, OwnTrees
<1>5. ASSUME NEW s \in Session, CutTree(s)
      PROVE  OwnTrees'
  BY <1>5 DEF CutTree, Made, OwnTrees, TypeOK, DaemonOK
<1>6. ASSUME NEW s \in Session, CutFails(s)
      PROVE  OwnTrees'
  BY <1>6 DEF CutFails, Failed, OwnTrees, TypeOK, DaemonOK, Rec
<1>7. ASSUME NEW s \in Session, FollowUp(s)
      PROVE  OwnTrees'
  BY <1>7 DEF FollowUp, OwnTrees
<1>7a. ASSUME NEW s \in Session, FollowUpRefused(s)
       PROVE  OwnTrees'
  BY <1>7a DEF FollowUpRefused, OwnTrees, TypeOK, DaemonOK, Rec
<1>7b. ASSUME NEW s \in Session, NEW l \in Link, TakeMessage(s, l)
       PROVE  OwnTrees'
  BY <1>7b DEF TakeMessage, OwnTrees
<1>8. ASSUME NEW s \in Session, TurnEnds(s)
      PROVE  OwnTrees'
  BY <1>8 DEF TurnEnds, OwnTrees
<1>8a. ASSUME NEW s \in Session, LateGate(s)
       PROVE  OwnTrees'
  BY <1>8a DEF LateGate, OwnTrees, TypeOK, DaemonOK, Rec
<1>9. ASSUME NEW l \in Link, Refuse(l)
      PROVE  OwnTrees'
  BY <1>9 DEF Refuse, daemon, OwnTrees
<1>10. ASSUME NEW l \in Link, Begin(l)
       PROVE  OwnTrees'
  <2>1. Head(queue[l]) \in Asked /\ rec[Head(queue[l]).of].repo
    BY <1>10 DEF Begin, Take, MayTouch, TypeOK, WireOK
  <2>2. ASSUME NEW k \in Link, job'[k] # NoJob
        PROVE  making'[job'[k].of].at = "made" /\ job'[k].tree = job'[k].of
    <3>1. CASE k = l
      BY <1>10, <2>1, <3>1 DEF Begin, OwnTrees, daemon, TypeOK, JobOK, Asked
    <3>2. CASE k # l
      BY <1>10, <2>2, <3>2 DEF Begin, OwnTrees, daemon
    <3>3. QED
      BY <3>1, <3>2
  <2>3. QED
    BY <1>10, <2>2 DEF Begin, OwnTrees, daemon
<1>11. ASSUME NEW l \in Link, Switched(l)
       PROVE  OwnTrees'
  BY <1>11 DEF Switched, Finishes, OwnTrees
<1>12. ASSUME NEW l \in Link, Pushed(l)
       PROVE  OwnTrees'
  BY <1>12 DEF Pushed, Finishes, daemon, OwnTrees
<1>13. ASSUME NEW l \in Link, TreeRemoved(l)
       PROVE  OwnTrees'
  BY <1>13 DEF TreeRemoved, daemon, OwnTrees, NoJob
<1>14. ASSUME NEW l \in Link, Reaped(l)
       PROVE  OwnTrees'
  BY <1>14 DEF Reaped, Finishes, NoRec, OwnTrees
<1>15. ASSUME NEW l \in Link, GitFails(l)
       PROVE  OwnTrees'
  BY <1>15 DEF GitFails, daemon, OwnTrees
<1>16. CASE UNCHANGED <<daemon, job>>
  BY <1>16 DEF daemon, OwnTrees
<1>17. QED
  BY <1>1, <1>2, <1>3, <1>4, <1>5, <1>6, <1>7, <1>7a, <1>7b, <1>8, <1>8a, <1>9,
     <1>10, <1>11, <1>12, <1>13, <1>14,
     <1>15, <1>16, QuietSteps DEF Next, Making, Turns, Chain

LEMMA AttendedStep == TypeOK /\ RunningIsAttended /\ [Next]_vars => RunningIsAttended'
<1> SUFFICES ASSUME TypeOK /\ RunningIsAttended, [Next]_vars PROVE RunningIsAttended'
  OBVIOUS
<1>1. ASSUME NEW s \in Session, Launch(s)
      PROVE  RunningIsAttended'
  BY <1>1 DEF Launch, RunningIsAttended, Runs
<1>2. ASSUME NEW p \in Session, NEW c \in Session, ResumeNew(p, c)
      PROVE  RunningIsAttended'
  BY <1>2 DEF ResumeNew, RunningIsAttended, Runs
<1>3. ASSUME NEW s \in Session, Minted(s)
      PROVE  RunningIsAttended'
  BY <1>3 DEF Minted, RunningIsAttended, Runs, TypeOK, DaemonOK, WireOK, Link
<1>4. ASSUME NEW s \in Session, MintFails(s)
      PROVE  RunningIsAttended'
  BY <1>4 DEF MintFails, RunningIsAttended, Runs
<1>5. ASSUME NEW s \in Session, CutTree(s)
      PROVE  RunningIsAttended'
  BY <1>5 DEF CutTree, RunningIsAttended, Runs, TypeOK, DaemonOK, WireOK, Link
<1>6. ASSUME NEW s \in Session, CutFails(s)
      PROVE  RunningIsAttended'
  BY <1>6 DEF CutFails, RunningIsAttended, Runs, TypeOK, DaemonOK, Rec
<1>7. ASSUME NEW s \in Session, FollowUp(s)
      PROVE  RunningIsAttended'
  BY <1>7 DEF FollowUp, RunningIsAttended, Runs, TypeOK, DaemonOK, Link
<1>7a. ASSUME NEW s \in Session, FollowUpRefused(s)
       PROVE  RunningIsAttended'
  BY <1>7a DEF FollowUpRefused, RunningIsAttended, Runs, TypeOK, DaemonOK, Rec
<1>7b. ASSUME NEW s \in Session, NEW l \in Link, TakeMessage(s, l)
       PROVE  RunningIsAttended'
  BY <1>7b DEF TakeMessage, RunningIsAttended, Runs
<1>8. ASSUME NEW s \in Session, TurnEnds(s)
      PROVE  RunningIsAttended'
  BY <1>8 DEF TurnEnds, RunningIsAttended, Runs, TypeOK, DaemonOK, Ended
<1>8a. ASSUME NEW s \in Session, LateGate(s)
       PROVE  RunningIsAttended'
  BY <1>8a DEF LateGate, RunningIsAttended, Runs, TypeOK, DaemonOK, Rec
<1>9. ASSUME NEW l \in Link, Refuse(l)
      PROVE  RunningIsAttended'
  BY <1>9 DEF Refuse, daemon, RunningIsAttended, Runs
<1>10. ASSUME NEW l \in Link, Begin(l)
       PROVE  RunningIsAttended'
  BY <1>10 DEF Begin, daemon, RunningIsAttended, Runs
<1>11. ASSUME NEW l \in Link, Switched(l)
       PROVE  RunningIsAttended'
  BY <1>11 DEF Switched, RunningIsAttended, Runs
<1>12. ASSUME NEW l \in Link, Pushed(l)
       PROVE  RunningIsAttended'
  BY <1>12 DEF Pushed, daemon, RunningIsAttended, Runs
<1>13. ASSUME NEW l \in Link, TreeRemoved(l)
       PROVE  RunningIsAttended'
  BY <1>13 DEF TreeRemoved, daemon, RunningIsAttended, Runs
<1>14. ASSUME NEW l \in Link, Reaped(l)
       PROVE  RunningIsAttended'
  BY <1>14 DEF Reaped, NoRec, RunningIsAttended, Runs, None, TypeOK, DaemonOK
<1>15. ASSUME NEW l \in Link, GitFails(l)
       PROVE  RunningIsAttended'
  BY <1>15 DEF GitFails, daemon, RunningIsAttended, Runs
<1>16. CASE UNCHANGED <<daemon, job>>
  BY <1>16 DEF daemon, RunningIsAttended, Runs
<1>17. QED
  BY <1>1, <1>2, <1>3, <1>4, <1>5, <1>6, <1>7, <1>7a, <1>7b, <1>8, <1>8a, <1>9,
     <1>10, <1>11, <1>12, <1>13, <1>14,
     <1>15, <1>16, QuietSteps DEF Next, Making, Turns, Chain

LEMMA SeenStep == TypeOK /\ OpeningIsSeen /\ [Next]_vars => OpeningIsSeen'
<1> SUFFICES ASSUME TypeOK /\ OpeningIsSeen, [Next]_vars
             PROVE  OpeningIsSeen'
  OBVIOUS
<1>1. ASSUME NEW s \in Session, Launch(s)
      PROVE  OpeningIsSeen'
  BY <1>1 DEF Launch, OpeningIsSeen
<1>2. ASSUME NEW p \in Session, NEW c \in Session, ResumeNew(p, c)
      PROVE  OpeningIsSeen'
  BY <1>2 DEF ResumeNew, OpeningIsSeen
<1>3. ASSUME NEW s \in Session, Minted(s)
      PROVE  OpeningIsSeen'
  BY <1>3 DEF Minted, OpeningIsSeen
<1>4. ASSUME NEW s \in Session, MintFails(s)
      PROVE  OpeningIsSeen'
  BY <1>4 DEF MintFails, OpeningIsSeen
<1>5. ASSUME NEW s \in Session, CutTree(s)
      PROVE  OpeningIsSeen'
  BY <1>5 DEF CutTree, OpeningIsSeen
<1>6. ASSUME NEW s \in Session, CutFails(s)
      PROVE  OpeningIsSeen'
  BY <1>6 DEF CutFails, OpeningIsSeen
<1>7. ASSUME NEW s \in Session, FollowUp(s)
      PROVE  OpeningIsSeen'
  BY <1>7 DEF FollowUp, OpeningIsSeen, Link, TypeOK, DaemonOK
<1>7a. ASSUME NEW s \in Session, FollowUpRefused(s)
       PROVE  OpeningIsSeen'
  BY <1>7a DEF FollowUpRefused, OpeningIsSeen, Link, TypeOK, DaemonOK
<1>7b. ASSUME NEW s \in Session, NEW l \in Link, TakeMessage(s, l)
       PROVE  OpeningIsSeen'
  BY <1>7b DEF TakeMessage, OpeningIsSeen
<1>8. ASSUME NEW s \in Session, TurnEnds(s)
      PROVE  OpeningIsSeen'
  BY <1>8 DEF TurnEnds, OpeningIsSeen
<1>8a. ASSUME NEW s \in Session, LateGate(s)
       PROVE  OpeningIsSeen'
  BY <1>8a DEF LateGate, OpeningIsSeen
<1>9. ASSUME NEW l \in Link, Refuse(l)
      PROVE  OpeningIsSeen'
  BY <1>9 DEF Refuse, daemon, OpeningIsSeen
<1>10. ASSUME NEW l \in Link, Begin(l)
       PROVE  OpeningIsSeen'
  <2>1. Head(queue[l]) \in Asked
    BY <1>10 DEF Begin, Take, TypeOK, WireOK
  <2>2. ASSUME NEW k \in Link, job'[k] # NoJob, opening'[job'[k].of] = k
        PROVE  job'[k].opens
    <3>1. CASE k = l
      BY <1>10, <2>1, <2>2, <3>1 DEF Begin, daemon, TypeOK, JobOK, Asked
    <3>2. CASE k # l
      BY <1>10, <2>2, <3>2 DEF Begin, daemon, OpeningIsSeen, TypeOK, JobOK
    <3>3. QED  BY <3>1, <3>2
  <2>3. QED  BY <2>2 DEF OpeningIsSeen
<1>11. ASSUME NEW l \in Link, Switched(l)
       PROVE  OpeningIsSeen'
  BY <1>11 DEF Switched, Finishes, OpeningIsSeen
<1>12. ASSUME NEW l \in Link, Pushed(l)
       PROVE  OpeningIsSeen'
  BY <1>12 DEF Pushed, Finishes, daemon, OpeningIsSeen
<1>13. ASSUME NEW l \in Link, TreeRemoved(l)
       PROVE  OpeningIsSeen'
  BY <1>13 DEF TreeRemoved, daemon, OpeningIsSeen, NoJob
<1>14. ASSUME NEW l \in Link, Reaped(l)
       PROVE  OpeningIsSeen'
  BY <1>14 DEF Reaped, Finishes, OpeningIsSeen
<1>15. ASSUME NEW l \in Link, GitFails(l)
       PROVE  OpeningIsSeen'
  BY <1>15 DEF GitFails, daemon, OpeningIsSeen
<1>16. CASE UNCHANGED <<daemon, job>>
  BY <1>16 DEF daemon, OpeningIsSeen
<1>17. QED
  BY <1>1, <1>2, <1>3, <1>4, <1>5, <1>6, <1>7, <1>7a, <1>7b, <1>8, <1>8a, <1>9,
     <1>10, <1>11, <1>12, <1>13, <1>14,
     <1>15, <1>16, QuietSteps DEF Next, Making, Turns, Chain

LEMMA MovesStep ==
  TypeOK /\ OwnTrees /\ OpeningIsSeen /\ MovesBetweenTurns /\ [Next]_vars => MovesBetweenTurns'
<1> SUFFICES ASSUME TypeOK /\ OwnTrees /\ OpeningIsSeen /\ MovesBetweenTurns, [Next]_vars
             PROVE  MovesBetweenTurns'
  OBVIOUS
<1>1. ASSUME NEW s \in Session, Launch(s)
      PROVE  MovesBetweenTurns'
  BY <1>1 DEF Launch, MovesBetweenTurns, Runs
<1>2. ASSUME NEW p \in Session, NEW c \in Session, ResumeNew(p, c)
      PROVE  MovesBetweenTurns'
  BY <1>2 DEF ResumeNew, MovesBetweenTurns, Runs
<1>3. ASSUME NEW s \in Session, Minted(s)
      PROVE  MovesBetweenTurns'
  BY <1>3 DEF Minted, MovesBetweenTurns, OwnTrees, Runs
<1>4. ASSUME NEW s \in Session, MintFails(s)
      PROVE  MovesBetweenTurns'
  BY <1>4 DEF MintFails, MovesBetweenTurns, Runs
<1>5. ASSUME NEW s \in Session, CutTree(s)
      PROVE  MovesBetweenTurns'
  BY <1>5 DEF CutTree, MovesBetweenTurns, OwnTrees, Runs
<1>6. ASSUME NEW s \in Session, CutFails(s)
      PROVE  MovesBetweenTurns'
  BY <1>6 DEF CutFails, MovesBetweenTurns, Runs
<1>7. ASSUME NEW s \in Session, FollowUp(s)
      PROVE  MovesBetweenTurns'
  BY <1>7 DEF FollowUp, MovesBetweenTurns, OpeningIsSeen, OwnTrees, Runs
<1>7a. ASSUME NEW s \in Session, FollowUpRefused(s)
       PROVE  MovesBetweenTurns'
  BY <1>7a DEF FollowUpRefused, MovesBetweenTurns, Runs
<1>7b. ASSUME NEW s \in Session, NEW l \in Link, TakeMessage(s, l)
       PROVE  MovesBetweenTurns'
  BY <1>7b DEF TakeMessage, MovesBetweenTurns, Runs
<1>8. ASSUME NEW s \in Session, TurnEnds(s)
      PROVE  MovesBetweenTurns'
  BY <1>8 DEF TurnEnds, MovesBetweenTurns, Runs
<1>8a. ASSUME NEW s \in Session, LateGate(s)
       PROVE  MovesBetweenTurns'
  BY <1>8a DEF LateGate, MovesBetweenTurns, Runs
<1>9. ASSUME NEW l \in Link, Refuse(l)
      PROVE  MovesBetweenTurns'
  BY <1>9 DEF Refuse, daemon, MovesBetweenTurns, Runs
<1>10. ASSUME NEW l \in Link, Begin(l)
       PROVE  MovesBetweenTurns'
  BY <1>10 DEF Begin, Take, MayTouch, daemon, MovesBetweenTurns, Runs
<1>11. ASSUME NEW l \in Link, Switched(l)
       PROVE  MovesBetweenTurns'
  BY <1>11 DEF Switched, Finishes, MovesBetweenTurns, Runs
<1>12. ASSUME NEW l \in Link, Pushed(l)
       PROVE  MovesBetweenTurns'
  BY <1>12 DEF Pushed, Finishes, daemon, MovesBetweenTurns, Runs
<1>13. ASSUME NEW l \in Link, TreeRemoved(l)
       PROVE  MovesBetweenTurns'
  BY <1>13 DEF TreeRemoved, daemon, MovesBetweenTurns, Runs, NoJob
<1>14. ASSUME NEW l \in Link, Reaped(l)
       PROVE  MovesBetweenTurns'
  BY <1>14 DEF Reaped, Finishes, MovesBetweenTurns, Runs
<1>15. ASSUME NEW l \in Link, GitFails(l)
       PROVE  MovesBetweenTurns'
  BY <1>15 DEF GitFails, daemon, MovesBetweenTurns, Runs
<1>16. CASE UNCHANGED <<daemon, job>>
  BY <1>16 DEF daemon, MovesBetweenTurns, Runs
<1>17. QED
  BY <1>1, <1>2, <1>3, <1>4, <1>5, <1>6, <1>7, <1>7a, <1>7b, <1>8, <1>8a, <1>9,
     <1>10, <1>11, <1>12, <1>13, <1>14,
     <1>15, <1>16, QuietSteps DEF Next, Making, Turns, Chain

LEMMA TreelessStep == TypeOK /\ OwnTrees /\ ReapedAreTreeless /\ [Next]_vars => ReapedAreTreeless'
<1> SUFFICES ASSUME TypeOK /\ OwnTrees /\ ReapedAreTreeless, [Next]_vars
             PROVE  ReapedAreTreeless'
  OBVIOUS
<1>1. ASSUME NEW s \in Session, Launch(s)
      PROVE  ReapedAreTreeless'
  BY <1>1 DEF Launch, git, tab, ReapedAreTreeless, Treeless
<1>2. ASSUME NEW p \in Session, NEW c \in Session, ResumeNew(p, c)
      PROVE  ReapedAreTreeless'
  BY <1>2 DEF ResumeNew, git, tab, ReapedAreTreeless, Treeless
<1>3. ASSUME NEW s \in Session, Minted(s)
      PROVE  ReapedAreTreeless'
  BY <1>3 DEF Minted, git, tab, ReapedAreTreeless, Treeless
<1>4. ASSUME NEW s \in Session, MintFails(s)
      PROVE  ReapedAreTreeless'
  BY <1>4 DEF MintFails, git, tab, ReapedAreTreeless, Treeless
<1>5. ASSUME NEW s \in Session, CutTree(s)
      PROVE  ReapedAreTreeless'
  BY <1>5 DEF CutTree, CutOnto, tab, ReapedAreTreeless, Treeless
<1>6. ASSUME NEW s \in Session, CutFails(s)
      PROVE  ReapedAreTreeless'
  BY <1>6 DEF CutFails, Failed, git, tab, ReapedAreTreeless, Treeless, TypeOK, DaemonOK
<1>7. ASSUME NEW s \in Session, FollowUp(s)
      PROVE  ReapedAreTreeless'
  BY <1>7 DEF FollowUp, git, tab, ReapedAreTreeless, Treeless
<1>7a. ASSUME NEW s \in Session, FollowUpRefused(s)
       PROVE  ReapedAreTreeless'
  BY <1>7a DEF FollowUpRefused, git, tab, ReapedAreTreeless, Treeless
<1>7b. ASSUME NEW s \in Session, NEW l \in Link, TakeMessage(s, l)
       PROVE  ReapedAreTreeless'
  BY <1>7b DEF TakeMessage, git, tab, ReapedAreTreeless, Treeless
<1>8. ASSUME NEW s \in Session, TurnEnds(s)
      PROVE  ReapedAreTreeless'
  BY <1>8 DEF TurnEnds, git, tab, ReapedAreTreeless, Treeless
<1>8a. ASSUME NEW s \in Session, LateGate(s)
       PROVE  ReapedAreTreeless'
  BY <1>8a DEF LateGate, git, tab, ReapedAreTreeless, Treeless
<1>9. ASSUME NEW l \in Link, Refuse(l)
      PROVE  ReapedAreTreeless'
  BY <1>9 DEF Refuse, Reply, daemon, git, tab, ReapedAreTreeless, Treeless
<1>10. ASSUME NEW l \in Link, Begin(l)
       PROVE  ReapedAreTreeless'
  BY <1>10 DEF Begin, daemon, git, tab, ReapedAreTreeless, Treeless
<1>11. ASSUME NEW l \in Link, Switched(l)
       PROVE  ReapedAreTreeless'
  BY <1>11 DEF Switched, Finishes, Reply, tab, ReapedAreTreeless, Treeless
<1>12. ASSUME NEW l \in Link, Pushed(l)
       PROVE  ReapedAreTreeless'
  BY <1>12 DEF Pushed, Finishes, Reply, daemon, git, tab, ReapedAreTreeless, Treeless
<1>13. ASSUME NEW l \in Link, TreeRemoved(l)
       PROVE  ReapedAreTreeless'
  BY <1>13 DEF TreeRemoved, daemon, tab, ReapedAreTreeless, Treeless, OwnTrees, TypeOK,
     JobOK, GitOK, NoJob, Job
<1>14. ASSUME NEW l \in Link, Reaped(l)
       PROVE  ReapedAreTreeless'
  BY <1>14 DEF Reaped, Finishes, Reply, tab, ReapedAreTreeless, Treeless, NoJob, None
<1>15. ASSUME NEW l \in Link, GitFails(l)
       PROVE  ReapedAreTreeless'
  BY <1>15 DEF GitFails, Reply, daemon, git, tab, ReapedAreTreeless, Treeless
<1>16. CASE LinkDrops
  BY <1>16 DEF LinkDrops, daemon, git, tab, ReapedAreTreeless, Treeless
<1>17. CASE Redial
  BY <1>17 DEF Redial, daemon, git, tab, ReapedAreTreeless, Treeless
<1>18. ASSUME NEW k \in Kind, NEW s \in Session, Ask(k, s)
       PROVE  ReapedAreTreeless'
  BY <1>18 DEF Ask, Sent, daemon, git, ReapedAreTreeless, Treeless
<1>19. ASSUME NEW k \in Kind, NEW s \in Session, AskElsewhere(k, s)
       PROVE  ReapedAreTreeless'
  BY <1>19 DEF AskElsewhere, daemon, git, tab, ReapedAreTreeless, Treeless
<1>20. CASE TakeVerdict
  BY <1>20 DEF TakeVerdict, GoesOn, daemon, git, ReapedAreTreeless, Treeless
<1>21. CASE TimesOut
  BY <1>21 DEF TimesOut, daemon, git, ReapedAreTreeless, Treeless
<1>22. ASSUME NEW s \in Session, DeleteRow(s)
       PROVE  ReapedAreTreeless'
  BY <1>22 DEF DeleteRow, daemon, git, ReapedAreTreeless, Treeless
<1>23. CASE UNCHANGED vars
  BY <1>23 DEF vars, daemon, git, tab, ReapedAreTreeless, Treeless
<1>24. QED
  BY <1>1, <1>2, <1>3, <1>4, <1>5, <1>6, <1>7, <1>7a, <1>7b, <1>8, <1>8a, <1>9,
     <1>10, <1>11, <1>12, <1>13, <1>14,
     <1>15, <1>16, <1>17, <1>18, <1>19, <1>20, <1>21, <1>22, <1>23 DEF Next, Making, Turns,
     Chain, Browser

LEMMA Invariant == Spec => []IInv
<1>1. IInv /\ [Next]_vars => IInv'
  BY TypeStep, OwnTreesStep, TreelessStep, AttendedStep, SeenStep, MovesStep DEF IInv
<1>2. QED
  BY InitIInv, <1>1, PTL DEF Spec

-----------------------------------------------------------------------------
(* The numbers of the requests: one has one number, and is in one place at a time. *)

Elems(q)    == {q[i] : i \in 1 .. Len(q)}
Nums(q)     == {q[i].n : i \in 1 .. Len(q)}
Distinct(q) == \A i, j \in 1 .. Len(q) : q[i].n = q[j].n => i = j
Working(l)  == IF job[l] = NoJob THEN {} ELSE {job[l].n}
Told        == {f.n : f \in down}
Held(l)     == Nums(queue[l]) \cup Working(l)

\* A request waits in one queue, or is worked on by one chain, or was answered once.
Apart ==
  /\ \A l \in Link : Distinct(queue[l]) /\ Nums(queue[l]) \cap Working(l) = {}
  /\ \A l, m \in Link : l # m => Held(l) \cap Held(m) = {}
  /\ \A l \in Link : Held(l) \cap Told = {}
  /\ \A f, g \in down : f.n = g.n => f = g

Numbered == (\A l \in Link : Held(l) \subseteq 1 .. asks) /\ Told \subseteq 1 .. asks

\* A request on its way is the pending ask of its session, or is known to be over.
Owned(x) == x.n \in late \cup elsewhere \/ pending[x.kind][x.of] = x.n
Owns ==
  /\ \A l \in Link : \A x \in Elems(queue[l]) : Owned(x)
  /\ \A l \in Link : job[l] # NoJob => Owned(job[l])
  /\ \A f \in down : Owned(f)

\* The armed timers are those of the pending asks.
OneTimer == \A t \in timers : t.n # 0 /\ pending[t.kind][t.of] = t.n

AInv == Apart /\ Numbered /\ Owns /\ OneTimer /\ AskGetsItsOwnEnd

\* What a queue holds after its head is taken, and after a request came.
LEMMA Taken ==
  ASSUME NEW q \in Seq(Asked), q # <<>>
  PROVE  /\ Head(q) \in Elems(q) /\ Head(q) \in Asked /\ Head(q).n \in Nums(q)
         /\ Elems(Tail(q)) \subseteq Elems(q)
         /\ Nums(Tail(q)) \subseteq Nums(q)
         /\ Distinct(q) => Distinct(Tail(q)) /\ Head(q).n \notin Nums(Tail(q))
<1>1. Len(q) \in Nat \ {0} /\ Head(q) = q[1] /\ 1 \in 1 .. Len(q) /\ q[1] \in Asked
  OBVIOUS
<1>2. /\ Tail(q) \in Seq(Asked) /\ Len(Tail(q)) = Len(q) - 1
      /\ \A i \in 1 .. Len(q) - 1 : Tail(q)[i] = q[i + 1]
  OBVIOUS
<1>3. \A i \in 1 .. Len(q) - 1 : i + 1 \in 1 .. Len(q) /\ i + 1 # 1
  BY <1>1
<1>4. \A i, j \in 1 .. Len(q) - 1 : i + 1 = j + 1 => i = j
  BY <1>1
<1>5. Head(q) \in Elems(q) /\ Head(q) \in Asked /\ Head(q).n \in Nums(q)
  BY <1>1 DEF Elems, Nums
<1>6. Elems(Tail(q)) \subseteq Elems(q) /\ Nums(Tail(q)) \subseteq Nums(q)
  BY <1>2, <1>3 DEF Elems, Nums
<1>7. ASSUME Distinct(q)
      PROVE  Distinct(Tail(q)) /\ Head(q).n \notin Nums(Tail(q))
  <2>1. Distinct(Tail(q))
    BY <1>2, <1>3, <1>4, <1>7 DEF Distinct
  <2>2. Head(q).n \notin Nums(Tail(q))
    BY <1>1, <1>2, <1>3, <1>7 DEF Distinct, Nums
  <2>3. QED
    BY <2>1, <2>2
<1>8. QED
  BY <1>5, <1>6, <1>7

LEMMA Joined ==
  ASSUME NEW q \in Seq(Asked), NEW x \in Asked
  PROVE  /\ Elems(Append(q, x)) = Elems(q) \cup {x}
         /\ Nums(Append(q, x)) = Nums(q) \cup {x.n}
         /\ Distinct(q) /\ x.n \notin Nums(q) => Distinct(Append(q, x))
<1>1. Len(q) \in Nat
  OBVIOUS
<1>2. /\ Len(Append(q, x)) = Len(q) + 1
      /\ Append(q, x)[Len(q) + 1] = x
      /\ \A i \in 1 .. Len(q) : Append(q, x)[i] = q[i]
  OBVIOUS
<1>3. 1 .. Len(q) + 1 = (1 .. Len(q)) \cup {Len(q) + 1} /\ Len(q) + 1 \notin 1 .. Len(q)
  BY <1>1
<1>4. Elems(Append(q, x)) = Elems(q) \cup {x}
  BY <1>2, <1>3 DEF Elems
<1>5. Nums(Append(q, x)) = Nums(q) \cup {x.n}
  BY <1>2, <1>3 DEF Nums
<1>6. ASSUME Distinct(q), x.n \notin Nums(q)
      PROVE  Distinct(Append(q, x))
  BY <1>2, <1>3, <1>6 DEF Distinct, Nums
<1>7. QED
  BY <1>4, <1>5, <1>6

\* A step of one chain, or of none: requests leave its queue for its job, or are answered,
\* and the ledgers are left alone.
LEMMA ChainMoves ==
  ASSUME TypeOK, AInv, UNCHANGED <<tab, asks, elsewhere>>, NEW l \in Link,
         \A k \in Link : k # l => queue'[k] = queue[k] /\ job'[k] = job[k],
         Distinct(queue'[l]), Elems(queue'[l]) \subseteq Elems(queue[l]),
         Nums(queue'[l]) \cap Working(l)' = {}, Held(l)' \subseteq Held(l),
         job'[l] # NoJob => Owned(job'[l]),
         down \subseteq down',
         \A f \in down' : f \in down \/ (f.n \in Held(l) \ Held(l)' /\ Owned(f)),
         \A f, g \in down' \ down : f = g
  PROVE  AInv'
<1>1. \A k \in Link : k # l => Held(k)' = Held(k) /\ Working(k)' = Working(k)
  BY DEF Held, Working
<1>2. \A k \in Link : Held(k)' \subseteq Held(k)
  BY <1>1
<1>3. \A n \in Told' : n \in Told \/ n \in Held(l) \ Held(l)'
  BY DEF Told
<1>4. Apart'
  <2>1. ASSUME NEW k \in Link
        PROVE  Distinct(queue'[k]) /\ Nums(queue'[k]) \cap Working(k)' = {}
    BY <1>1 DEF AInv, Apart
  <2>2. ASSUME NEW k \in Link, NEW m \in Link, k # m
        PROVE  Held(k)' \cap Held(m)' = {}
    BY <1>2, <2>2 DEF AInv, Apart
  <2>3. ASSUME NEW k \in Link
        PROVE  Held(k)' \cap Told' = {}
    <3>1. Held(k) \cap Told = {}
      BY DEF AInv, Apart
    <3>2. CASE k = l
      BY <1>2, <1>3, <3>1, <3>2
    <3>3. CASE k # l
      <4>1. Held(k) \cap Held(l) = {}
        BY <3>3 DEF AInv, Apart
      <4>2. QED
        BY <1>2, <1>3, <3>1, <4>1
    <3>4. QED
      BY <3>2, <3>3
  <2>4. ASSUME NEW f \in down', NEW g \in down', f.n = g.n
        PROVE  f = g
    <3>1. Held(l) \cap Told = {}
      BY DEF AInv, Apart
    <3>2. CASE f \in down /\ g \in down
      BY <2>4, <3>2 DEF AInv, Apart
    <3>3. CASE f \in down /\ g \notin down
      BY <2>4, <3>1, <3>3 DEF Told
    <3>4. CASE f \notin down /\ g \in down
      BY <2>4, <3>1, <3>4 DEF Told
    <3>5. CASE f \notin down /\ g \notin down
      BY <3>5
    <3>6. QED
      BY <3>2, <3>3, <3>4, <3>5
  <2>5. QED
    BY <2>1, <2>2, <2>3, <2>4 DEF Apart
<1>5. Numbered'
  BY <1>2, <1>3 DEF AInv, Numbered
<1>6. \A x : Owned(x)' <=> Owned(x)
  BY DEF Owned, tab
<1>7. Owns'
  <2>1. ASSUME NEW k \in Link
        PROVE  /\ \A x \in Elems(queue'[k]) : Owned(x)
               /\ job'[k] # NoJob => Owned(job'[k])
    BY DEF AInv, Owns
  <2>2. \A f \in down' : Owned(f)
    BY DEF AInv, Owns
  <2>3. QED
    BY <1>6, <2>1, <2>2 DEF Owns, Owned, tab
<1>8. OneTimer' /\ AskGetsItsOwnEnd'
  BY DEF AInv, OneTimer, AskGetsItsOwnEnd, tab
<1>9. QED
  BY <1>4, <1>5, <1>7, <1>8 DEF AInv

\* Nothing of what is on its way moves.
LEMMA NothingMoves ==
  ASSUME TypeOK, AInv, UNCHANGED <<queue, job, down, tab, asks, elsewhere>>
  PROVE  AInv'
<1>1. 1 \in Link
  BY DEF Link
<1>2. Working(1)' = Working(1) /\ Held(1)' = Held(1)
  BY DEF Working, Held
<1>3. QED
  BY <1>1, <1>2, ChainMoves DEF AInv, Apart, Owns

\* A request that leaves a chain is answered at most once.
LEMMA Answers ==
  ASSUME NEW q, NEW ok \in BOOLEAN, NEW l \in Link, Reply(q, ok),
         q.n \in Held(l), q.n \notin Held(l)', Owned(q)
  PROVE  /\ down \subseteq down'
         /\ \A f \in down' : f \in down \/ (f.n \in Held(l) \ Held(l)' /\ Owned(f))
         /\ \A f, g \in down' \ down : f = g
<1> DEFINE v == [kind |-> q.kind, of |-> q.of, n |-> q.n,
                 how |-> IF ok THEN "ok" ELSE "refused"]
<1>1. v.n = q.n /\ Owned(v)
  BY DEF Owned
<1>2. down' = down \/ down' = down \cup {v}
  BY DEF Reply
<1>3. QED
  BY <1>1, <1>2

\* A chain's job is over, and answered.
LEMMA JobEnds ==
  ASSUME TypeOK, AInv, UNCHANGED <<queue, tab, asks, elsewhere>>, NEW l \in Link,
         NEW ok \in BOOLEAN, job[l] # NoJob, job' = [job EXCEPT ![l] = NoJob],
         Reply(job[l], ok)
  PROVE  AInv'
<1>1. /\ job'[l] = NoJob
      /\ \A k \in Link : k # l => queue'[k] = queue[k] /\ job'[k] = job[k]
  BY DEF TypeOK, JobOK
<1>2. Working(l) = {job[l].n} /\ Working(l)' = {} /\ Held(l)' = Nums(queue[l])
  BY <1>1 DEF Working, Held
<1>3. Distinct(queue[l]) /\ Nums(queue[l]) \cap Working(l) = {}
  BY DEF AInv, Apart
<1>4. job[l].n \in Held(l) /\ job[l].n \notin Held(l)' /\ Owned(job[l])
  BY <1>2, <1>3 DEF Held, AInv, Owns
<1>5. Held(l)' \subseteq Held(l)
  BY <1>2 DEF Held
<1>6. /\ down \subseteq down'
      /\ \A f \in down' : f \in down \/ (f.n \in Held(l) \ Held(l)' /\ Owned(f))
      /\ \A f, g \in down' \ down : f = g
  BY <1>4, Answers
<1>7. QED
  BY <1>1, <1>2, <1>3, <1>5, <1>6, ChainMoves

\* The head of a chain's queue is refused, or taken to git.
LEMMA HeadLeaves ==
  ASSUME TypeOK, AInv, NEW l \in Link, Refuse(l) \/ Begin(l)
  PROVE  AInv'
<1> DEFINE q == Head(queue[l])
<1>1. queue[l] \in Seq(Asked) /\ queue[l] # <<>> /\ job[l] = NoJob
  BY DEF Refuse, Begin, Take, TypeOK, WireOK
<1>2. /\ queue' = [queue EXCEPT ![l] = Tail(queue[l])]
      /\ UNCHANGED <<tab, asks, elsewhere>>
  BY DEF Refuse, Begin, Take
<1>3. queue'[l] = Tail(queue[l]) /\ \A k \in Link : k # l => queue'[k] = queue[k]
  BY <1>2 DEF TypeOK, WireOK
<1>4. Distinct(queue[l])
  BY DEF AInv, Apart
<1>5. /\ q \in Elems(queue[l]) /\ q \in Asked /\ q.n \in Nums(queue[l])
      /\ Elems(queue'[l]) \subseteq Elems(queue[l])
      /\ Nums(queue'[l]) \subseteq Nums(queue[l])
      /\ Distinct(queue'[l]) /\ q.n \notin Nums(queue'[l])
  BY <1>1, <1>3, <1>4, Taken
<1>6. Held(l) = Nums(queue[l]) /\ Owned(q)
  BY <1>1, <1>5 DEF Held, Working, AInv, Owns
<1>7. CASE Refuse(l)
  <2>1. job' = job /\ Working(l)' = {} /\ Held(l)' = Nums(queue'[l])
    BY <1>1, <1>7 DEF Refuse, Working, Held
  <2>2. /\ down \subseteq down'
        /\ \A f \in down' : f \in down \/ (f.n \in Held(l) \ Held(l)' /\ Owned(f))
        /\ \A f, g \in down' \ down : f = g
    BY <1>5, <1>6, <1>7, <2>1, Answers DEF Refuse
  <2>3. QED
    BY <1>1, <1>2, <1>3, <1>5, <1>6, <2>1, <2>2, ChainMoves
<1>8. CASE Begin(l)
  <2>1. /\ down' = down
        /\ job' = [job EXCEPT ![l] =
             [kind |-> q.kind, of |-> q.of, to |-> q.to, n |-> q.n, at |-> "git",
              tree |-> rec[q.of].tree, branch |-> rec[q.of].branch,
              opens |-> opening[q.of] = l]]
    BY <1>8 DEF Begin
  <2>2. /\ job'[l].n = q.n /\ job'[l].kind = q.kind /\ job'[l].of = q.of
        /\ \A k \in Link : k # l => job'[k] = job[k]
    BY <2>1 DEF TypeOK, JobOK
  <2>3. Working(l)' \subseteq {q.n}
    BY <2>2 DEF Working
  <2>4. Held(l)' \subseteq Held(l) /\ Nums(queue'[l]) \cap Working(l)' = {}
    BY <1>5, <1>6, <2>3 DEF Held
  <2>5. Owned(job'[l])
    BY <1>6, <2>2 DEF Owned
  <2>6. /\ down \subseteq down'
        /\ \A f \in down' : f \in down \/ (f.n \in Held(l) \ Held(l)' /\ Owned(f))
        /\ \A f, g \in down' \ down : f = g
    BY <2>1
  <2>7. QED
    BY <1>2, <1>3, <1>5, <2>2, <2>4, <2>5, <2>6, ChainMoves
<1>9. QED
  BY <1>7, <1>8

\* git removes a worktree before it deletes its branch: the job is the same.
LEMMA JobGoesOn ==
  ASSUME TypeOK, AInv, NEW l \in Link, TreeRemoved(l)
  PROVE  AInv'
<1>1. job[l] \in Job
  BY DEF TreeRemoved, TypeOK, JobOK, NoJob, None
<1>2. /\ job'[l] = [job[l] EXCEPT !.at = "branch"]
      /\ \A k \in Link : k # l => job'[k] = job[k]
      /\ UNCHANGED <<queue, down, tab, asks, elsewhere>>
  BY DEF TreeRemoved, wire, TypeOK, JobOK
<1>3. job'[l].n = job[l].n /\ job'[l].kind = job[l].kind /\ job'[l].of = job[l].of
  BY <1>1, <1>2 DEF Job
<1>4. job[l] # NoJob
  BY DEF TreeRemoved, NoJob, None
<1>5. Working(l)' \subseteq Working(l)
  BY <1>3, <1>4 DEF Working
<1>6. Held(l)' \subseteq Held(l) /\ Nums(queue'[l]) \cap Working(l)' = {}
  BY <1>2, <1>5 DEF Held, AInv, Apart
<1>7. Owned(job'[l])
  BY <1>3, <1>4 DEF Owned, AInv, Owns
<1>8. Distinct(queue'[l]) /\ Elems(queue'[l]) \subseteq Elems(queue[l])
  BY <1>2 DEF AInv, Apart
<1>9. /\ down \subseteq down'
      /\ \A f \in down' : f \in down \/ (f.n \in Held(l) \ Held(l)' /\ Owned(f))
      /\ \A f, g \in down' \ down : f = g
  BY <1>2
<1>10. /\ UNCHANGED <<tab, asks, elsewhere>>
       /\ \A k \in Link : k # l => queue'[k] = queue[k] /\ job'[k] = job[k]
  BY <1>2
<1>11. QED
  BY <1>6, <1>7, <1>8, <1>9, <1>10, ChainMoves

\* A new request is in no place yet.
LEMMA NewNumber ==
  ASSUME TypeOK, AInv
  PROVE  /\ asks + 1 \in Nat \ {0} /\ asks + 1 \notin Told
         /\ \A l \in Link : asks + 1 \notin Held(l)
         /\ 1 .. asks \subseteq 1 .. asks + 1 /\ asks + 1 \in 1 .. asks + 1
<1>1. asks \in Nat
  BY DEF TypeOK, AsksOK
<1>2. /\ asks + 1 \in Nat \ {0} /\ asks + 1 \notin 1 .. asks
      /\ 1 .. asks \subseteq 1 .. asks + 1 /\ asks + 1 \in 1 .. asks + 1
  BY <1>1
<1>3. QED
  BY <1>2 DEF AInv, Numbered

\* It is sent to the daemon, ...
LEMMA Queued ==
  ASSUME TypeOK, AInv, NEW x \in Asked, x.n = asks + 1, asks' = asks + 1,
         NEW k \in Link, queue' = [queue EXCEPT ![k] = Append(queue[k], x)],
         UNCHANGED <<job, down>>
  PROVE  /\ Apart' /\ Numbered'
         /\ \A l \in Link : Elems(queue'[l]) \subseteq Elems(queue[l]) \cup {x}
<1>1. queue[k] \in Seq(Asked)
  BY DEF TypeOK, WireOK
<1>2. /\ queue'[k] = Append(queue[k], x)
      /\ \A l \in Link : l # k => queue'[l] = queue[l]
  BY <1>1 DEF TypeOK, WireOK
<1>3. /\ x.n \notin Told /\ \A l \in Link : x.n \notin Held(l)
      /\ 1 .. asks \subseteq 1 .. asks' /\ x.n \in 1 .. asks'
  BY NewNumber
<1>4. Distinct(queue[k]) /\ x.n \notin Nums(queue[k])
  BY <1>1, <1>3 DEF AInv, Apart, Held
<1>5. /\ Elems(queue'[k]) = Elems(queue[k]) \cup {x}
      /\ Nums(queue'[k]) = Nums(queue[k]) \cup {x.n}
      /\ Distinct(queue'[k])
  BY <1>1, <1>2, <1>4, Joined
<1>6. Told' = Told /\ \A l \in Link : Working(l)' = Working(l)
  BY DEF Told, Working
<1>7. /\ Held(k)' = Held(k) \cup {x.n}
      /\ \A l \in Link : l # k => Held(l)' = Held(l)
  BY <1>2, <1>5, <1>6 DEF Held
<1>8. ASSUME NEW l \in Link
      PROVE  Distinct(queue'[l]) /\ Nums(queue'[l]) \cap Working(l)' = {}
  <2>1. Distinct(queue[l]) /\ Nums(queue[l]) \cap Working(l) = {} /\ x.n \notin Working(l)
    BY <1>3 DEF AInv, Apart, Held
  <2>2. QED
    BY <1>2, <1>5, <1>6, <2>1
<1>9. ASSUME NEW l \in Link, NEW m \in Link, l # m
      PROVE  Held(l)' \cap Held(m)' = {}
  <2>1. Held(l) \cap Held(m) = {}
    BY <1>9 DEF AInv, Apart
  <2>2. QED
    BY <1>3, <1>7, <1>9, <2>1
<1>10. ASSUME NEW l \in Link
       PROVE  Held(l)' \cap Told' = {} /\ Held(l)' \subseteq 1 .. asks'
  <2>1. Held(l) \cap Told = {} /\ Held(l) \subseteq 1 .. asks
    BY DEF AInv, Apart, Numbered
  <2>2. QED
    BY <1>3, <1>6, <1>7, <2>1
<1>11. Apart'
  BY <1>8, <1>9, <1>10 DEF Apart, AInv
<1>12. Numbered'
  BY <1>3, <1>6, <1>10 DEF Numbered, AInv
<1>13. QED
  BY <1>2, <1>5, <1>11, <1>12

\* ... or answered by the relay.
LEMMA Bounced ==
  ASSUME TypeOK, AInv, NEW v, v.n = asks + 1, asks' = asks + 1,
         UNCHANGED <<queue, job>>, down' = down \cup {v}
  PROVE  Apart' /\ Numbered'
<1>1. /\ v.n \notin Told /\ \A l \in Link : v.n \notin Held(l)
      /\ 1 .. asks \subseteq 1 .. asks' /\ v.n \in 1 .. asks'
  BY NewNumber
<1>2. Told' = Told \cup {v.n} /\ \A l \in Link : Held(l)' = Held(l) /\ Working(l)' = Working(l)
  BY DEF Told, Held, Working
<1>3. \A f, g \in down' : f.n = g.n => f = g
  BY <1>1 DEF Told, AInv, Apart
<1>4. Apart'
  BY <1>1, <1>2, <1>3 DEF AInv, Apart
<1>5. Numbered'
  BY <1>1, <1>2 DEF AInv, Numbered
<1>6. QED
  BY <1>4, <1>5

\* What the tab's ask n supersedes is over; the rest is owned as before.
LEMMA Started ==
  ASSUME TypeOK, AInv, NEW k \in Kind, NEW s \in Session, NEW n \in Nat \ {0},
         Start(k, s, n), UNCHANGED elsewhere
  PROVE  /\ OneTimer'
         /\ \A x : x.kind \in Kind /\ x.of \in Session /\ x.n # 0 /\ Owned(x) => Owned(x)'
         /\ \A x : x.kind = k /\ x.of = s /\ x.n = n => Owned(x)'
         /\ late \subseteq late'
<1>1. pending \in [Kind -> [Session -> Nat]]
  BY DEF TypeOK, TabOK
<1>2. /\ pending'[k][s] = n
      /\ \A l \in Kind, t \in Session : l # k \/ t # s => pending'[l][t] = pending[l][t]
  BY <1>1 DEF Start
<1>3. late' = late \cup ({pending[k][s]} \ {0})
  BY DEF Start
<1>4. OneTimer'
  <2>1. ASSUME NEW t \in timers'
        PROVE  t.n # 0 /\ pending'[t.kind][t.of] = t.n
    <3>1. CASE t = [kind |-> k, of |-> s, n |-> n]
      BY <1>2, <3>1
    <3>2. CASE t \in timers /\ t.n # pending[k][s]
      <4>1. t.n # 0 /\ pending[t.kind][t.of] = t.n /\ t.kind \in Kind /\ t.of \in Session
        BY <3>2 DEF AInv, OneTimer, TypeOK, TabOK, Timer
      <4>2. t.kind # k \/ t.of # s
        BY <3>2, <4>1
      <4>3. QED
        BY <1>2, <4>1, <4>2
    <3>3. QED
      BY <3>1, <3>2 DEF Start, Cleared
  <2>2. QED
    BY <2>1 DEF OneTimer
<1>5. ASSUME NEW x, x.kind \in Kind, x.of \in Session, x.n # 0, Owned(x)
      PROVE  Owned(x)'
  <2>1. CASE x.kind = k /\ x.of = s
    BY <1>3, <1>5, <2>1 DEF Owned
  <2>2. CASE x.kind # k \/ x.of # s
    BY <1>2, <1>3, <1>5, <2>2 DEF Owned
  <2>3. QED
    BY <2>1, <2>2
<1>6. \A x : x.kind = k /\ x.of = s /\ x.n = n => Owned(x)'
  BY <1>2 DEF Owned
<1>7. QED
  BY <1>3, <1>4, <1>5, <1>6

\* What an ask's end, on account of request n, leaves on its way is owned as before.
LEMMA Settled ==
  ASSUME TypeOK, AInv, NEW k \in Kind, NEW s \in Session, NEW how, NEW n \in Nat,
         Settle(k, s, how, n), UNCHANGED elsewhere
  PROVE  /\ OneTimer'
         /\ \A x : x.kind \in Kind /\ x.of \in Session /\ x.n # 0 /\ Owned(x)
                   /\ (how = "timeout" \/ x.n # n) => Owned(x)'
         /\ late \subseteq late'
<1>1. pending \in [Kind -> [Session -> Nat]]
  BY DEF TypeOK, TabOK
<1>2. /\ pending'[k][s] = 0
      /\ \A l \in Kind, t \in Session : l # k \/ t # s => pending'[l][t] = pending[l][t]
  BY <1>1 DEF Settle
<1>3. late' = late \cup ({pending[k][s]} \ IF how = "timeout" THEN {0} ELSE {0, n})
  BY DEF Settle
<1>4. OneTimer'
  <2>1. ASSUME NEW t \in timers'
        PROVE  t.n # 0 /\ pending'[t.kind][t.of] = t.n
    <3>1. t \in timers /\ t.n # pending[k][s]
      BY DEF Settle, Cleared
    <3>2. t.n # 0 /\ pending[t.kind][t.of] = t.n /\ t.kind \in Kind /\ t.of \in Session
      BY <3>1 DEF AInv, OneTimer, TypeOK, TabOK, Timer
    <3>3. t.kind # k \/ t.of # s
      BY <3>1, <3>2
    <3>4. QED
      BY <1>2, <3>2, <3>3
  <2>2. QED
    BY <2>1 DEF OneTimer
<1>5. ASSUME NEW x, x.kind \in Kind, x.of \in Session, x.n # 0, Owned(x),
             how = "timeout" \/ x.n # n
      PROVE  Owned(x)'
  <2>1. CASE x.kind = k /\ x.of = s
    BY <1>3, <1>5, <2>1 DEF Owned
  <2>2. CASE x.kind # k \/ x.of # s
    BY <1>2, <1>3, <1>5, <2>2 DEF Owned
  <2>3. QED
    BY <2>1, <2>2
<1>6. QED
  BY <1>3, <1>4, <1>5

\* What is on its way are requests with numbers.
LEMMA Places ==
  ASSUME TypeOK, AInv
  PROVE  /\ \A l \in Link : \A x \in Elems(queue[l]) :
              x.kind \in Kind /\ x.of \in Session /\ x.n # 0 /\ x.n \in Held(l)
         /\ \A l \in Link : job[l] # NoJob =>
              /\ job[l].kind \in Kind /\ job[l].of \in Session
              /\ job[l].n # 0 /\ job[l].n \in Held(l)
         /\ \A f \in down : f.kind \in Kind /\ f.of \in Session /\ f.n # 0
<1>1. ASSUME NEW l \in Link, NEW x \in Elems(queue[l])
      PROVE  x.kind \in Kind /\ x.of \in Session /\ x.n # 0 /\ x.n \in Held(l)
  <2>1. queue[l] \in Seq(Asked)
    BY DEF TypeOK, WireOK
  <2>2. PICK i \in 1 .. Len(queue[l]) : x = queue[l][i]
    BY DEF Elems
  <2>3. x \in Asked
    BY <2>1, <2>2
  <2>4. x.n \in Held(l)
    BY <2>2 DEF Held, Nums
  <2>5. x.n # 0
    BY <2>4 DEF AInv, Numbered, TypeOK, AsksOK
  <2>6. QED
    BY <2>3, <2>4, <2>5 DEF Asked
<1>2. ASSUME NEW l \in Link, job[l] # NoJob
      PROVE  /\ job[l].kind \in Kind /\ job[l].of \in Session
             /\ job[l].n # 0 /\ job[l].n \in Held(l)
  <2>1. job[l] \in Job
    BY <1>2 DEF TypeOK, JobOK
  <2>2. job[l].n \in Held(l)
    BY <1>2 DEF Held, Working
  <2>3. job[l].n # 0
    BY <2>2 DEF AInv, Numbered, TypeOK, AsksOK
  <2>4. QED
    BY <2>1, <2>2, <2>3 DEF Job
<1>3. ASSUME NEW f \in down
      PROVE  f.kind \in Kind /\ f.of \in Session /\ f.n # 0
  <2>1. f.n \in 1 .. asks
    BY DEF AInv, Numbered, Told
  <2>2. QED
    BY <2>1 DEF TypeOK, AsksOK, Verdict
<1>4. QED
  BY <1>1, <1>2, <1>3

\* What a tab asks for is a request, with the next number.
LEMMA RequestOK ==
  ASSUME TypeOK, NEW k \in Kind, NEW s \in Session, NEW b \in Choices(k, s)
  PROVE  /\ Request(k, s, b) \in Asked /\ Request(k, s, b).n = asks + 1
         /\ Request(k, s, b).kind = k /\ Request(k, s, b).of = s
  BY DEF Request, Asked, Choices, TypeOK, GitOK, AsksOK

LEMMA AskStep ==
  ASSUME TypeOK, AInv, NEW k \in Kind, NEW s \in Session, Ask(k, s)
  PROVE  AInv'
<1>1. PICK b \in Choices(k, s) : Sent(Request(k, s, b))
  BY DEF Ask
<1>2. PICK x \in Asked : x = Request(k, s, b) /\ x.kind = k /\ x.of = s /\ x.n = asks + 1
  BY RequestOK
<1>3. asks' = asks + 1 /\ job' = job /\ mixed' = mixed /\ elsewhere' = elsewhere
  BY DEF Ask
<1>4. asks + 1 \in Nat \ {0} /\ Start(k, s, asks + 1)
  BY NewNumber DEF Ask
<1>5. /\ OneTimer'
      /\ \A y : y.kind \in Kind /\ y.of \in Session /\ y.n # 0 /\ Owned(y) => Owned(y)'
      /\ \A y : y.kind = k /\ y.of = s /\ y.n = asks + 1 => Owned(y)'
      /\ late \subseteq late'
  BY <1>3, <1>4, Started
<1>6. AskGetsItsOwnEnd'
  BY <1>3, <1>5 DEF AInv, AskGetsItsOwnEnd
<1>7. /\ \A l \in Link : \A y \in Elems(queue[l]) : Owned(y)'
      /\ \A l \in Link : job[l] # NoJob => Owned(job[l])'
      /\ \A f \in down : Owned(f)'
  BY <1>3, <1>5, Places DEF AInv, Owns
<1>8. ASSUME queue' = [queue EXCEPT ![link] = Append(@, x)], down' = down
      PROVE  AInv'
  <2>1. link \in Link
    BY DEF TypeOK, WireOK
  <2>2. /\ Apart' /\ Numbered'
        /\ \A l \in Link : Elems(queue'[l]) \subseteq Elems(queue[l]) \cup {x}
    BY <1>2, <1>3, <1>8, <2>1, Queued
  <2>3. Owned(x)'
    BY <1>2, <1>5
  <2>4. Owns'
    BY <1>2, <1>3, <1>5, <1>7, <1>8, <2>2 DEF Owns, Owned
  <2>5. QED
    BY <1>5, <1>6, <2>2, <2>4 DEF AInv
<1>9. ASSUME queue' = queue,
             down' = down \cup {[kind |-> k, of |-> s, n |-> asks + 1, how |-> "offline"]}
      PROVE  AInv'
  <2>1. Apart' /\ Numbered'
    BY <1>3, <1>9, Bounced
  <2>2. Owns'
    BY <1>3, <1>5, <1>7, <1>9 DEF Owns, Owned
  <2>3. QED
    BY <1>5, <1>6, <2>1, <2>2 DEF AInv
<1>10. QED
  BY <1>1, <1>2, <1>8, <1>9 DEF Sent

LEMMA AskElsewhereStep ==
  ASSUME TypeOK, AInv, NEW k \in Kind, NEW s \in Session, AskElsewhere(k, s)
  PROVE  AInv'
<1>1. PICK b \in Choices(k, s) :
        queue' = [queue EXCEPT ![link] = Append(@, Request(k, s, b))]
  BY DEF AskElsewhere
<1>2. PICK x \in Asked : x = Request(k, s, b) /\ x.n = asks + 1
  BY RequestOK
<1>3. /\ asks' = asks + 1 /\ elsewhere' = elsewhere \cup {asks + 1}
      /\ UNCHANGED <<job, down, pending, timers, late, mixed>>
  BY DEF AskElsewhere, tab
<1>4. link \in Link
  BY DEF TypeOK, WireOK
<1>5. /\ Apart' /\ Numbered'
      /\ \A l \in Link : Elems(queue'[l]) \subseteq Elems(queue[l]) \cup {x}
  BY <1>1, <1>2, <1>3, <1>4, Queued
<1>6. \A y : Owned(y) \/ y.n = asks + 1 => Owned(y)'
  BY <1>3 DEF Owned
<1>7. Owns'
  BY <1>2, <1>3, <1>5, <1>6 DEF AInv, Owns, Owned
<1>8. OneTimer' /\ AskGetsItsOwnEnd'
  BY <1>3 DEF AInv, OneTimer, AskGetsItsOwnEnd
<1>9. QED
  BY <1>5, <1>7, <1>8 DEF AInv

LEMMA VerdictStep ==
  ASSUME TypeOK, AInv, TakeVerdict
  PROVE  AInv'
<1>1. PICK f \in down : down' = down \ {f} /\ Settle(f.kind, f.of, f.how, f.n)
  BY DEF TakeVerdict
<1>2. UNCHANGED <<queue, job, asks, elsewhere>>
  BY DEF TakeVerdict, wire
<1>3. f.kind \in Kind /\ f.of \in Session /\ f.how # "timeout" /\ f.n \in Nat
  BY DEF TypeOK, AsksOK, Verdict, How
<1>4. /\ OneTimer'
      /\ \A y : y.kind \in Kind /\ y.of \in Session /\ y.n # 0 /\ Owned(y) /\ y.n # f.n
                  => Owned(y)'
      /\ late \subseteq late'
  BY <1>1, <1>2, <1>3, Settled
<1>5. Told' \subseteq Told /\ \A l \in Link : Held(l)' = Held(l) /\ Working(l)' = Working(l)
  BY <1>1, <1>2 DEF Told, Held, Working
<1>6. Apart'
  BY <1>1, <1>2, <1>5 DEF AInv, Apart
<1>7. Numbered'
  BY <1>2, <1>5 DEF AInv, Numbered
<1>8. f.n \in Told /\ \A l \in Link : f.n \notin Held(l)
  BY DEF Told, AInv, Apart
<1>9. \A g \in down' : g \in down /\ g.n # f.n
  BY <1>1 DEF AInv, Apart
<1>10. /\ \A l \in Link : \A y \in Elems(queue[l]) : Owned(y)'
       /\ \A l \in Link : job[l] # NoJob => Owned(job[l])'
       /\ \A g \in down' : Owned(g)'
  BY <1>2, <1>4, <1>8, <1>9, Places DEF AInv, Owns
<1>11. Owns'
  BY <1>2, <1>10 DEF Owns, Owned
<1>12. AskGetsItsOwnEnd'
  <2>1. ASSUME pending[f.kind][f.of] \notin {0, f.n}
        PROVE  f.n \in late' \cup elsewhere'
    <3>1. Owned(f)
      BY DEF AInv, Owns
    <3>2. QED
      BY <1>2, <1>4, <2>1, <3>1 DEF Owned
  <2>2. \A m \in mixed : m[1] # "timeout" /\ m[3] \in late' \cup elsewhere'
    BY <1>2, <1>4 DEF AInv, AskGetsItsOwnEnd
  <2>3. QED
    BY <1>1, <1>3, <2>1, <2>2 DEF Settle, AskGetsItsOwnEnd
<1>13. QED
  BY <1>4, <1>6, <1>7, <1>11, <1>12 DEF AInv

LEMMA TimeoutStep ==
  ASSUME TypeOK, AInv, TimesOut
  PROVE  AInv'
<1>1. PICK t \in timers : Settle(t.kind, t.of, "timeout", t.n)
  BY DEF TimesOut
<1>2. UNCHANGED <<queue, job, down, asks, elsewhere>>
  BY DEF TimesOut, wire
<1>3. t.kind \in Kind /\ t.of \in Session /\ t.n \in Nat
  BY DEF TypeOK, TabOK, Timer
<1>4. /\ OneTimer'
      /\ \A y : y.kind \in Kind /\ y.of \in Session /\ y.n # 0 /\ Owned(y) => Owned(y)'
      /\ late \subseteq late'
  BY <1>1, <1>2, <1>3, Settled
<1>5. pending[t.kind][t.of] = t.n
  BY DEF AInv, OneTimer
<1>6. mixed' = mixed
  BY <1>1, <1>5 DEF Settle
<1>7. Told' = Told /\ \A l \in Link : Held(l)' = Held(l) /\ Working(l)' = Working(l)
  BY <1>2 DEF Told, Held, Working
<1>8. Apart' /\ Numbered'
  BY <1>2, <1>7 DEF AInv, Apart, Numbered
<1>9. /\ \A l \in Link : \A y \in Elems(queue[l]) : Owned(y)'
      /\ \A l \in Link : job[l] # NoJob => Owned(job[l])'
      /\ \A f \in down : Owned(f)'
  BY <1>2, <1>4, Places DEF AInv, Owns
<1>10. Owns'
  BY <1>2, <1>9 DEF Owns, Owned
<1>11. AskGetsItsOwnEnd'
  BY <1>2, <1>4, <1>6 DEF AInv, AskGetsItsOwnEnd
<1>12. QED
  BY <1>4, <1>8, <1>10, <1>11 DEF AInv

LEMMA OwnEndStep == TypeOK /\ AInv /\ [Next]_vars => AInv'
<1> SUFFICES ASSUME TypeOK, AInv, [Next]_vars PROVE AInv'
  OBVIOUS
<1>1. CASE Making \/ Turns \/ LinkDrops \/ Redial \/ UNCHANGED vars
  <2>1. UNCHANGED <<queue, job, down, tab, asks, elsewhere>>
    BY <1>1 DEF Making, Turns, Launch, ResumeNew, Minted, MintFails, CutTree, CutFails,
       FollowUp, FollowUpRefused, TakeMessage, TurnEnds, LateGate, LinkDrops, Redial, vars, wire
  <2>2. QED
    BY <2>1, NothingMoves
<1>2. ASSUME NEW l \in Link, Switched(l) \/ Pushed(l) \/ Reaped(l) \/ GitFails(l)
      PROVE  AInv'
  <2>1. job[l] # NoJob
    <3>1. CASE GitFails(l)
      BY <3>1 DEF GitFails
    <3>2. CASE Switched(l) \/ Pushed(l) \/ Reaped(l)
      <4>1. job[l].kind # None
        BY <3>2 DEF Switched, Pushed, Reaped, Finishes, None
      <4>2. QED
        BY <4>1 DEF NoJob
    <3>3. QED
      BY <1>2, <3>1, <3>2
  <2>2. /\ job' = [job EXCEPT ![l] = NoJob]
        /\ UNCHANGED <<queue, tab, asks, elsewhere>>
        /\ Reply(job[l], TRUE) \/ Reply(job[l], FALSE)
    BY <1>2 DEF Switched, Pushed, Reaped, GitFails, Finishes, wire
  <2>3. QED
    BY <2>1, <2>2, JobEnds
<1>3. ASSUME NEW l \in Link, Refuse(l) \/ Begin(l) \/ TreeRemoved(l)
      PROVE  AInv'
  BY <1>3, HeadLeaves, JobGoesOn
<1>4. ASSUME NEW s \in Session, DeleteRow(s)
      PROVE  AInv'
  <2>1. UNCHANGED <<queue, job, down, asks, elsewhere, pending, timers, late, mixed>>
    BY <1>4 DEF DeleteRow, wire
  <2>2. QED
    BY <2>1 DEF AInv, Apart, Numbered, Owns, Owned, OneTimer, AskGetsItsOwnEnd, Held, Working,
       Told
<1>5. QED
  BY <1>1, <1>2, <1>3, <1>4, AskStep, AskElsewhereStep, VerdictStep, TimeoutStep
  DEF Next, Chain, Browser

LEMMA OwnEndInit == Init => AInv
<1> SUFFICES ASSUME Init PROVE AInv
  OBVIOUS
<1>1. \A l \in Link : queue[l] = <<>> /\ Len(queue[l]) = 0 /\ 1 .. Len(queue[l]) = {}
  BY DEF Init
<1>2. \A l \in Link : Held(l) = {} /\ Elems(queue[l]) = {} /\ Nums(queue[l]) = {}
  BY <1>1 DEF Init, Held, Working, Nums, Elems
<1>3. Told = {} /\ \A l \in Link : Distinct(queue[l])
  BY <1>1 DEF Init, Told, Distinct
<1>4. QED
  BY <1>2, <1>3 DEF Init, AInv, Apart, Numbered, Owns, OneTimer, AskGetsItsOwnEnd

-----------------------------------------------------------------------------
\* Every variable stays in its domain.
THEOREM TypeCorrect == Spec => []TypeOK
<1>1. IInv => TypeOK
  BY DEF IInv
<1>2. QED
  BY Invariant, <1>1, PTL

\* A session reads as running only while a turn runs or its worktree is being cut, on
\* whichever of its failures a launch or a continuation ends (runSession, runResumeNew), or
\* after a gate of an ended turn set it so (settlePermissionEntry).
THEOREM Attended == Spec => []RunningIsAttended
<1>1. IInv => RunningIsAttended
  BY DEF IInv
<1>2. QED
  BY Invariant, <1>1, PTL

\* However many requests a daemon is sent, it pushes, moves or removes a worktree only
\* between that session's turns, unless the turn's message came by another socket, or
\* before the request and was still being decrypted (branchSwitchOutcome, pushOutcome,
\* reapOutcome, runFollowUp).
THEOREM BetweenTurns == Spec => []MovesBetweenTurns
<1>1. IInv => MovesBetweenTurns
  BY DEF IInv
<1>2. QED
  BY Invariant, <1>1, PTL

\* A session deleted together with its worktree leaves none behind (onDeleteConfirm,
\* reapWorkspace), whatever verdicts are lost, late or of another request.
THEOREM NothingStranded == Spec => []DeleteStrandsNothing
<1>1. IInv => DeleteStrandsNothing
  BY DEF IInv, ReapedAreTreeless, Treeless, DeleteStrandsNothing
<1>2. QED
  BY Invariant, <1>1, PTL

\* An ask ends by its own verdict, timeout or error; by another request's verdict only
\* if that request's ask was over before, or was another tab's: whatever number of asks a
\* tab starts, answered in any order, and whichever are lost (createPendingAsks).
THEOREM OwnEnds == Spec => []AskGetsItsOwnEnd
<1>1. TypeOK /\ AInv /\ [Next]_vars => AInv'
  BY OwnEndStep
<1>2. AInv => AskGetsItsOwnEnd
  BY DEF AInv
<1>3. QED
  BY TypeCorrect, OwnEndInit, <1>1, <1>2, PTL DEF Spec
=============================================================================
