------------------------ MODULE AdoptedSessionProofs ------------------------
(***************************************************************************)
(* What holds of AdoptedSession for any number of overlapping handlers,    *)
(* mints, offers, escapes and restarts: its types; one offer is shown,     *)
(* answered and continued at a time; a gate and an offer are not stacked;  *)
(* an ask can be answered; a takeover spares a turn; what is done stays    *)
(* done but for a gate.                                                    *)
(***************************************************************************)
EXTENDS AdoptedSession, FiniteSetTheorems, TLAPS

USE AdoptedConstants DEF Ended, Offer, NoOffer, Takeover

-----------------------------------------------------------------------------
(* The types. *)

Status    == {"running", "waiting_local", "awaiting_input"} \cup Ended
Standing  == {"new", "shown", "dropped", "answered"}
Handlings == [at : {"idle"}, kind : {"none"}, live : {FALSE}]
               \cup [at : {"mirror"}, kind : {"tool", "start", "stop", "end"}, live : BOOLEAN]
               \cup [at : {"diff", "held"}, kind : {"tool"}, live : BOOLEAN]
Mintings  == {NoTake} \cup [at : {"minting"}, by : Offer \cup {Takeover}]

\* TypeOK, by what the actions change together.
RecordOK  == status \in Status /\ offer \in [Offer -> Standing] /\ offered \subseteq Offer
EventsOK  == /\ hook \in [Hook -> Handlings]
             /\ terminal \in {"idle", "busy", "stopping", "gone"}
TakeOK    == take \in [Take -> Mintings]
FiledOK   == filed.status \in Status /\ filed.offer \in [Offer -> Standing]
CountsOK  == /\ continued \in [Offer -> Nat] /\ forgotten \in [Offer -> Nat]
             /\ escapes \in 0 .. MaxEscapes /\ restarts \in 0 .. MaxRestarts
FlagsOK   == /\ watched \in BOOLEAN /\ dirty \in BOOLEAN /\ answering \in BOOLEAN
             /\ left \in BOOLEAN /\ outlived \in BOOLEAN /\ misled \in BOOLEAN

LEMMA TypeParts ==
  TypeOK <=> RecordOK /\ EventsOK /\ TakeOK /\ FiledOK /\ CountsOK /\ FlagsOK
  BY DEF TypeOK, RecordOK, EventsOK, TakeOK, FiledOK, CountsOK, FlagsOK, Status, Standing,
         Handlings, Mintings

\* What the actions make of a handling is one.
LEMMA MadeHandlings ==
  /\ NoHook \in Handlings
  /\ \A k \in {"tool", "start", "stop", "end"} : Handling("mirror", k, TRUE) \in Handlings
  /\ \A x \in Handlings : [x EXCEPT !.live = FALSE] \in Handlings
  /\ \A x \in Handlings, a \in {"diff", "held"} :
       x.kind = "tool" \/ x.at = "diff" => [x EXCEPT !.at = a] \in Handlings
  BY DEF Handlings, NoHook, Handling

\* Where it is changes only when it is made to.
LEMMA KeepsPlace ==
  ASSUME NEW x \in Handlings
  PROVE  [x EXCEPT !.live = FALSE].at = x.at
  BY DEF Handlings
LEMMA TakesPlace ==
  ASSUME NEW x \in Handlings, NEW a
  PROVE  [x EXCEPT !.at = a].at = a
  BY DEF Handlings

\* A status that the helpers make is one.
LEMMA MadeStatus ==
  ASSUME NEW st \in Status
  PROVE  Superseded(st) \in Status /\ Revived(st) \in Status /\ Revived(Superseded(st)) \in Status
  BY DEF Status, Superseded, Revived

\* Dropping the offers, and a Stop's settling, keep the record's types.
LEMMA DropsOK ==
  ASSUME RecordOK, NEW st, DropsOffers(st)
  PROVE  offer' \in [Offer -> Standing] /\ offered' \subseteq Offer
  BY DEF RecordOK, DropsOffers, Pruned, Standing

LEMMA SettlesOK ==
  ASSUME RecordOK, StopSettles
  PROVE  RecordOK'
<1> DEFINE st == IF status = "needs_restart" THEN "waiting_local" ELSE status
<1>1. CASE UNCHANGED record
  BY <1>1 DEF record, RecordOK
<1>2. CASE StopOffers(st)
  BY <1>2 DEF StopOffers, AwaitsInput, RecordOK, Pruned, Standing, Status
<1>3. CASE StopReports(st)
  BY <1>3, DropsOK DEF StopReports, Becomes, RecordOK, Status
<1>4. QED
  BY <1>1, <1>2, <1>3 DEF StopSettles

LEMMA RecordStep == RecordOK /\ FiledOK /\ [AdoptedNext]_adoptedVars => RecordOK'
<1> SUFFICES ASSUME RecordOK, FiledOK, [AdoptedNext]_adoptedVars PROVE RecordOK'
  OBVIOUS
<1> USE MadeStatus DEF RecordOK, Becomes, AwaitsInput
<1>1. ASSUME NEW h \in Hook, NEW kind \in {"tool", "start"}, Arrives(h, kind)
      PROVE  RecordOK'
  BY <1>1 DEF Arrives
<1>2. ASSUME NEW h \in Hook, ToolMirrored(h)
      PROVE  RecordOK'
  BY <1>2, DropsOK DEF ToolMirrored, Status
<1>3. ASSUME NEW h \in Hook, Registers(h) \/ Settles(h)
      PROVE  RecordOK'
  BY <1>3 DEF Registers, Settles, Status
<1>4. ASSUME NEW h \in Hook, StopMirrored(h)
      PROVE  RecordOK'
  BY <1>4, SettlesOK DEF StopMirrored
<1>5. ASSUME NEW h \in Hook, EndMirrored(h)
      PROVE  RecordOK'
  BY <1>5 DEF EndMirrored, Status
<1>6. CASE PromptSubmitted
  BY <1>6, DropsOK DEF PromptSubmitted
<1>7. CASE End
  BY <1>7 DEF End, Status
<1>8. ASSUME NEW o \in Offer, Answers(o)
      PROVE  RecordOK'
  BY <1>8 DEF Answers, Standing
<1>9. ASSUME NEW t \in Take, HandsOver(t) \/ Retires(t)
      PROVE  RecordOK'
  BY <1>9 DEF HandsOver, Retires, Status
<1>10. ASSUME NEW later, Restarts(later)
       PROVE  RecordOK'
  BY <1>10 DEF Restarts, RestoredOffer, Rehydrated, FiledOK, Status, Standing
<1>11. ASSUME \/ \E h \in Hook : Stops(h) \/ Ends(h) \/ MirrorFails(h) \/ StartMirrored(h)
              \/ Escapes \/ Interrupt \/ TakesOver \/ Watches
              \/ \E t \in Take : MintFails(t)
              \/ Files \/ UNCHANGED adoptedVars
       PROVE  UNCHANGED record
  BY <1>11 DEF Stops, Ends, MirrorFails, StartMirrored, Escapes, Interrupt, TakesOver, Watches,
               MintFails, Files, adoptedVars
<1>12. QED
  BY <1>1, <1>2, <1>3, <1>4, <1>5, <1>6, <1>7, <1>8, <1>9, <1>10, <1>11
  DEF AdoptedNext, HookNext, record

LEMMA EventsStep == EventsOK /\ [AdoptedNext]_adoptedVars => EventsOK'
<1> SUFFICES ASSUME EventsOK, [AdoptedNext]_adoptedVars PROVE EventsOK'
  OBVIOUS
<1> USE MadeHandlings DEF EventsOK, Leave, Begin, LeavesTerminal
<1>1. ASSUME NEW h \in Hook, NEW kind \in {"tool", "start"}, Arrives(h, kind)
      PROVE  EventsOK'
  BY <1>1 DEF Arrives
<1>2. ASSUME NEW h \in Hook, Stops(h) \/ Ends(h)
      PROVE  EventsOK'
  <2>1. CASE Stops(h)
    BY <2>1 DEF Stops
  <2>2. CASE Ends(h)
    BY <2>2 DEF Ends
  <2>3. QED
    BY <1>2, <2>1, <2>2
<1>3. ASSUME NEW h \in Hook, MirrorFails(h) \/ StartMirrored(h) \/ StopMirrored(h)
                               \/ EndMirrored(h) \/ Settles(h)
      PROVE  EventsOK'
  BY <1>3 DEF MirrorFails, StartMirrored, StopMirrored, EndMirrored, Settles
<1>4. ASSUME NEW h \in Hook, ToolMirrored(h) \/ Registers(h)
      PROVE  EventsOK'
  <2>1. hook[h].kind = "tool" \/ hook[h].at = "diff"
    BY <1>4 DEF ToolMirrored, Registers
  <2>2. \A a \in {"diff", "held"} : [hook[h] EXCEPT !.at = a] \in Handlings
    BY <2>1
  <2>3. \/ hook' = [hook EXCEPT ![h] = NoHook]
        \/ \E a \in {"diff", "held"} : hook' = [hook EXCEPT ![h] = [hook[h] EXCEPT !.at = a]]
    BY <1>4 DEF ToolMirrored, Registers
  <2>4. terminal' = terminal
    BY <1>4 DEF ToolMirrored, Registers
  <2>5. QED
    BY <2>2, <2>3, <2>4
<1>5. CASE PromptSubmitted \/ Escapes
  BY <1>5 DEF PromptSubmitted, Escapes
<1>6. CASE Interrupt \/ End
  BY <1>6 DEF Interrupt, End, StopTurn
<1>7. ASSUME NEW later \in {"idle", "busy", "gone"}, Restarts(later)
      PROVE  EventsOK'
  BY <1>7 DEF Restarts
<1>8. ASSUME \/ TakesOver \/ Watches \/ Files \/ UNCHANGED adoptedVars
             \/ \E o \in Offer : Answers(o)
             \/ \E t \in Take : MintFails(t) \/ HandsOver(t) \/ Retires(t)
      PROVE  UNCHANGED <<hook, terminal>>
  BY <1>8 DEF TakesOver, Watches, Files, Answers, MintFails, HandsOver, Retires, adoptedVars
<1>9. QED
  BY <1>1, <1>2, <1>3, <1>4, <1>5, <1>6, <1>7, <1>8 DEF AdoptedNext, HookNext

\* The mints, the file and the counters.
LEMMA RestStep ==
  RecordOK /\ TakeOK /\ FiledOK /\ CountsOK /\ [AdoptedNext]_adoptedVars => TakeOK' /\ FiledOK' /\ CountsOK'
<1> SUFFICES ASSUME RecordOK, TakeOK, FiledOK, CountsOK, [AdoptedNext]_adoptedVars
             PROVE  TakeOK' /\ FiledOK' /\ CountsOK'
  OBVIOUS
<1> USE DEF TakeOK, FiledOK, CountsOK, Mints
<1>1. ASSUME NEW o \in Offer, Answers(o)
      PROVE  TakeOK' /\ UNCHANGED <<filed, continued, forgotten, escapes, restarts>>
  BY <1>1 DEF Answers, Minting, Mintings
<1>2. CASE TakesOver
  BY <1>2 DEF TakesOver, Minting, Mintings, history
<1>3. ASSUME NEW t \in Take, MintFails(t) \/ Retires(t)
      PROVE  TakeOK' /\ UNCHANGED <<filed, continued, forgotten, escapes, restarts>>
  BY <1>3 DEF MintFails, Retires, Mintings, history
<1>4. ASSUME NEW t \in Take, HandsOver(t)
      PROVE  TakeOK' /\ CountsOK' /\ UNCHANGED filed
  <2>1. TakeOK'
    BY <1>4 DEF HandsOver, Mintings
  <2>2. CountsOK' /\ UNCHANGED filed
    BY <1>4 DEF HandsOver
  <2>3. QED
    BY <2>1, <2>2
<1>5. CASE Escapes
  BY <1>5 DEF Escapes, record
<1>6. CASE Files
  BY <1>6 DEF Files, RecordOK, history
<1>7. ASSUME NEW later, Restarts(later)
      PROVE  TakeOK' /\ CountsOK' /\ UNCHANGED filed
  BY <1>7 DEF Restarts, Mintings
<1>8. ASSUME \/ \E h \in Hook : HookNext(h)
             \/ PromptSubmitted \/ Interrupt \/ End \/ Watches \/ UNCHANGED adoptedVars
      PROVE  UNCHANGED <<take, filed, continued, forgotten, escapes, restarts>>
  BY <1>8 DEF HookNext, Arrives, Stops, Ends, MirrorFails, StartMirrored, ToolMirrored,
              StopMirrored, EndMirrored, Registers, Settles, PromptSubmitted, Interrupt, End,
              Watches, adoptedVars, history
<1>9. QED
  BY <1>1, <1>2, <1>3, <1>4, <1>5, <1>6, <1>7, <1>8 DEF AdoptedNext

LEMMA FlagsStep == FlagsOK /\ [AdoptedNext]_adoptedVars => FlagsOK'
<1> SUFFICES ASSUME FlagsOK, [AdoptedNext]_adoptedVars PROVE FlagsOK'
  OBVIOUS
<1> USE DEF FlagsOK, Becomes, AwaitsInput, record, history
<1>1. ASSUME NEW h \in Hook, \/ \E kind \in {"tool", "start"} : Arrives(h, kind)
                              \/ Stops(h) \/ Ends(h) \/ MirrorFails(h) \/ StartMirrored(h)
                              \/ ToolMirrored(h) \/ Registers(h) \/ Settles(h)
      PROVE  FlagsOK'
  BY <1>1 DEF Arrives, Stops, Ends, MirrorFails, StartMirrored, ToolMirrored, Registers, Settles
<1>2. ASSUME NEW h \in Hook, StopMirrored(h)
      PROVE  FlagsOK'
  BY <1>2 DEF StopMirrored, StopSettles, StopOffers, StopReports
<1>3. ASSUME NEW h \in Hook, EndMirrored(h)
      PROVE  FlagsOK'
  BY <1>3 DEF EndMirrored
<1>4. CASE PromptSubmitted \/ Escapes \/ Interrupt \/ End \/ TakesOver \/ Watches \/ Files
             \/ UNCHANGED adoptedVars
  BY <1>4 DEF PromptSubmitted, Escapes, Interrupt, End, TakesOver, Watches, Files, adoptedVars
<1>5. ASSUME NEW o \in Offer, Answers(o)
      PROVE  FlagsOK'
  BY <1>5 DEF Answers
<1>6. ASSUME NEW t \in Take, MintFails(t) \/ HandsOver(t) \/ Retires(t)
      PROVE  FlagsOK'
  BY <1>6 DEF MintFails, HandsOver, Retires
<1>7. ASSUME NEW later, Restarts(later)
      PROVE  FlagsOK'
  BY <1>7 DEF Restarts
<1>8. QED
  BY <1>1, <1>2, <1>3, <1>4, <1>5, <1>6, <1>7 DEF AdoptedNext, HookNext

LEMMA TypeStep == TypeOK /\ [AdoptedNext]_adoptedVars => TypeOK'
  BY TypeParts, RecordStep, EventsStep, RestStep, FlagsStep
  DEF TypeOK, RecordOK, EventsOK, TakeOK, FiledOK, CountsOK, FlagsOK, Status, Standing, Handlings,
      Mintings

-----------------------------------------------------------------------------
(* The inductive invariant. *)

\* What the browser is shown is what an answer finds, and there is one of it, in memory and
\* on file.
OneShown ==
  /\ offered = Shown
  /\ \A o, p \in Offer : offer[o] = "shown" /\ offer[p] = "shown" => o = p
  /\ \A o, p \in Offer : filed.offer[o] = "shown" /\ filed.offer[p] = "shown" => o = p

\* A session that a restart gave up shows no offer, on file neither; one that is done shows an
\* offer only if that outlived it.
GivenUp ==
  /\ status = "needs_restart" => Shown = {}
  /\ filed.status = "needs_restart" => \A o \in Offer : filed.offer[o] # "shown"
  /\ status = "done" /\ Shown # {} => outlived

\* No answer of o has been given that a restart did not forget, or will forget: o was dropped
\* in memory, and is still shown on file.
Fresh(o) == offer[o] \in {"new", "shown"} \/ (offer[o] = "dropped" /\ filed.offer[o] = "shown")

\* An offer has one mint at most, and launched one continuation more than were forgotten only
\* if it has none any more and was answered for good.
Counted ==
  /\ \A t, u \in Take : take[t].by = take[u].by /\ take[t].by \in Offer => t = u
  /\ \A t \in Take : take[t].by \in Offer =>
       ~Fresh(take[t].by) /\ continued[take[t].by] <= forgotten[take[t].by]
  /\ \A o \in Offer : Fresh(o) => continued[o] <= forgotten[o]
  /\ ContinuesOnce

\* With no handler left behind, Claude Code waits for each, and for a Stop's alone.
Waited ==
  ~left => /\ \A h \in Hook : hook[h].at # "idle" => hook[h].live
           /\ \A g \in Hook : hook[g].at = "mirror" /\ hook[g].kind = "stop" =>
                terminal = "stopping" /\ \A h \in Hook : hook[h].at # "idle" => h = g

\* NothingStacksInOrder, also of a gate that is awaiting its diff.
NothingStacks ==
  ~left /\ ~outlived /\ Shown # {} => \A h \in Hook : hook[h].at \notin {"diff", "held"}

\* A session that waits at its terminal has it between turns.
WaitsBetweenTurns == status = "waiting_local" => terminal # "busy" \/ misled

IInv == /\ TypeOK /\ OneShown /\ GivenUp /\ Counted /\ Waited /\ NothingStacks
        /\ AskingHasAnAsk /\ WaitsBetweenTurns

LEMMA InitIInv == AdoptedInit => IInv
<1> SUFFICES ASSUME AdoptedInit PROVE IInv
  OBVIOUS
<1> USE DEF AdoptedInit
<1>1. TypeOK
  <2>1. RecordOK /\ EventsOK /\ TakeOK
    BY MadeHandlings DEF RecordOK, EventsOK, TakeOK, Status, Standing, Mintings
  <2>2. FiledOK
    BY DEF FiledOK, Status, Standing
  <2>3. CountsOK
    BY DEF CountsOK
  <2>4. FlagsOK
    BY DEF FlagsOK
  <2>5. QED
    BY <2>1, <2>2, <2>3, <2>4, TypeParts
<1>2. OneShown /\ GivenUp /\ NothingStacks /\ AskingHasAnAsk
  BY DEF OneShown, GivenUp, NothingStacks, AskingHasAnAsk, Shown
<1>3. Counted
  BY DEF Counted, ContinuesOnce, NoTake
<1>4. Waited /\ WaitsBetweenTurns
  BY DEF Waited, WaitsBetweenTurns, NoHook, Handling
<1>5. QED
  BY <1>1, <1>2, <1>3, <1>4 DEF IInv

-----------------------------------------------------------------------------
(* How the offers move. *)

\* Dropping them leaves none shown of a session that is not over, and shows none.
LEMMA Drops ==
  ASSUME RecordOK, OneShown, NEW st, DropsOffers(st)
  PROVE  /\ offered' = Shown'
         /\ \A o \in Offer : offer'[o] = IF offer[o] = "shown" /\ st \notin Ended
                                          THEN "dropped" ELSE offer[o]
<1>1. \A o \in Offer : offer[o] = "shown" => o \in Shown
  BY DEF Shown
<1>2. \A o \in Offer : offer'[o] = IF offer[o] = "shown" /\ st \notin Ended
                                   THEN "dropped" ELSE offer[o]
  BY <1>1 DEF DropsOffers, Pruned, Supersedes
<1>3. offered' = Shown'
  <2>1. CASE Supersedes(st)
    BY <1>2, <2>1 DEF DropsOffers, Supersedes, Shown
  <2>2. CASE ~Supersedes(st)
    BY <1>2, <2>2 DEF DropsOffers, Supersedes, Shown, OneShown
  <2>3. QED
    BY <2>1, <2>2
<1>4. QED
  BY <1>2, <1>3

\* A Stop leaves the session as it was, or drops its offers, or makes one in their place.
LEMMA Stopped ==
  ASSUME RecordOK, FlagsOK, OneShown, StopSettles
  PROVE  /\ offered' = Shown'
         /\ \/ UNCHANGED <<status, offer, answering, outlived>>
            \/ /\ status' \in {"awaiting_input", "waiting_local"}
               /\ \A o \in Offer : offer'[o] = IF offer[o] = "shown" THEN "dropped" ELSE offer[o]
               /\ status' = "awaiting_input" => status = "awaiting_input" /\ Shown = {}
               /\ answering' = (answering /\ status' = status) /\ outlived' = outlived
            \/ /\ status' = "awaiting_input" /\ ~answering' /\ outlived' = outlived
               /\ \E o \in Offer :
                    /\ offer[o] = "new" /\ offer'[o] = "shown"
                    /\ \A p \in Offer \ {o} :
                         offer'[p] = IF offer[p] = "shown" THEN "dropped" ELSE offer[p]
<1> DEFINE st == IF status = "needs_restart" THEN "waiting_local" ELSE status
<1>1. CASE status = "done"
  BY <1>1 DEF StopSettles, record, OneShown, Shown
<1>2. CASE status # "done" /\ StopReports(st)
  <2>1. st \notin Ended
    BY <1>2 DEF RecordOK, Status
  <2>2. QED
    BY <1>2, <2>1, Drops DEF StopReports, Becomes, Superseded, Supersedes, FlagsOK
<1>3. CASE status # "done" /\ StopOffers(st)
  <2>1. st \notin Ended
    BY <1>3 DEF RecordOK, Status
  <2>2. PICK o \in Offer : /\ offer[o] = "new"
                           /\ offer' = [Pruned(st) EXCEPT ![o] = "shown"]
                           /\ offered' = (IF Supersedes(st) THEN {} ELSE offered) \cup {o}
    BY <1>3 DEF StopOffers
  <2>3. \A p \in Offer : Pruned(st)[p] = IF offer[p] = "shown" THEN "dropped" ELSE offer[p]
    BY <2>1 DEF Pruned, Supersedes, Shown
  <2>4. offered' = {o}
    BY <2>1, <2>2 DEF Supersedes, OneShown, Shown
  <2>5. \A p \in Offer : offer'[p] = IF p = o THEN "shown" ELSE Pruned(st)[p]
    BY <2>2 DEF Pruned
  <2>6. Shown' = {o}
    BY <2>3, <2>5 DEF Shown
  <2>7. QED
    BY <1>3, <2>2, <2>3, <2>4, <2>5, <2>6 DEF StopOffers, AwaitsInput
<1>4. QED
  BY <1>1, <1>2, <1>3 DEF StopSettles

-----------------------------------------------------------------------------
(* The steps. *)

LEMMA OneShownStep == TypeOK /\ OneShown /\ [AdoptedNext]_adoptedVars => OneShown'
<1> SUFFICES ASSUME TypeOK, OneShown, [AdoptedNext]_adoptedVars PROVE OneShown'
  OBVIOUS
<1>0. RecordOK /\ FiledOK /\ FlagsOK
  BY TypeParts
<1>1. ASSUME NEW st, DropsOffers(st), UNCHANGED filed
      PROVE  OneShown'
  BY <1>0, <1>1, Drops DEF OneShown
<1>2. ASSUME NEW h \in Hook, StopMirrored(h)
      PROVE  OneShown'
  <2>1. UNCHANGED filed
    BY <1>2 DEF StopMirrored
  <2>2. offered' = Shown' /\ \A o, p \in Offer : offer'[o] = "shown" /\ offer'[p] = "shown" => o = p
    BY <1>0, <1>2, Stopped DEF StopMirrored, OneShown
  <2>3. QED
    BY <2>1, <2>2 DEF OneShown
<1>3. ASSUME NEW o \in Offer, Answers(o)
      PROVE  OneShown'
  BY <1>0, <1>3 DEF Answers, OneShown, Shown, RecordOK
<1>4. CASE Files
  BY <1>0, <1>4 DEF Files, record, OneShown, Shown, RecordOK
<1>5. ASSUME NEW later, Restarts(later)
      PROVE  OneShown'
  <2>1. \A o \in Offer : offer'[o] = "shown" <=> filed.offer[o] = "shown"
    BY <1>5 DEF Restarts, RestoredOffer
  <2>2. QED
    BY <1>5, <2>1 DEF Restarts, Rehydrated, OneShown, Shown
<1>6. ASSUME \/ \E h \in Hook : \/ \E kind \in {"tool", "start"} : Arrives(h, kind)
                              \/ Stops(h) \/ Ends(h) \/ MirrorFails(h) \/ StartMirrored(h)
                              \/ EndMirrored(h) \/ Registers(h) \/ Settles(h)
             \/ Escapes \/ Interrupt \/ End \/ TakesOver \/ Watches
             \/ \E t \in Take : MintFails(t) \/ HandsOver(t) \/ Retires(t)
             \/ UNCHANGED adoptedVars
      PROVE  OneShown'
  <2>1. UNCHANGED <<offer, offered, filed>>
    BY <1>6 DEF Arrives, Stops, Ends, MirrorFails, StartMirrored, EndMirrored, Registers, Settles,
                Escapes, Interrupt, End, TakesOver, Watches, MintFails, HandsOver, Retires, record,
                adoptedVars
  <2>2. QED
    BY <2>1 DEF OneShown, Shown
<1>7. QED
  BY <1>1, <1>2, <1>3, <1>4, <1>5, <1>6 DEF AdoptedNext, HookNext, ToolMirrored, PromptSubmitted

LEMMA GivenUpStep == TypeOK /\ OneShown /\ GivenUp /\ [AdoptedNext]_adoptedVars => GivenUp'
<1> SUFFICES ASSUME TypeOK, OneShown, GivenUp, [AdoptedNext]_adoptedVars PROVE GivenUp'
  OBVIOUS
<1>0. RecordOK /\ FiledOK /\ FlagsOK
  BY TypeParts
\* A status that is set while no offer is shown that was not before.
<1>1. ASSUME NEW st \in Status, Becomes(st), UNCHANGED filed, Shown' \subseteq Shown,
             st = "needs_restart" => Shown' = {}
      PROVE  GivenUp'
  BY <1>0, <1>1 DEF GivenUp, Becomes, FlagsOK
<1>2. ASSUME status' \notin Ended, UNCHANGED filed
      PROVE  GivenUp'
  BY <1>2 DEF GivenUp
<1>3. ASSUME NEW st \in Status, DropsOffers(st)
      PROVE  Shown' \subseteq Shown
  BY <1>0, <1>3, Drops DEF Shown
<1>4. ASSUME NEW h \in Hook, NEW kind \in {"tool", "start"}, Arrives(h, kind)
      PROVE  GivenUp'
  <2>1. Revived(status) \in Status /\ Revived(status) # "needs_restart"
    BY <1>0, MadeStatus DEF Revived, RecordOK
  <2>2. Shown' = Shown
    BY <1>4 DEF Arrives, Shown
  <2>3. QED
    BY <1>1, <1>4, <2>1, <2>2 DEF Arrives
<1>5. ASSUME NEW h \in Hook, ToolMirrored(h)
      PROVE  GivenUp'
  <2>1. CASE Becomes(Superseded(status))
    <3>1. Superseded(status) \in Status /\ (Superseded(status) = "needs_restart" => Shown = {})
      BY <1>0, MadeStatus DEF RecordOK, Superseded, GivenUp
    <3>2. Shown' \subseteq Shown
      BY <1>0, <1>3, <1>5 DEF ToolMirrored, RecordOK
    <3>3. QED
      BY <1>1, <1>5, <2>1, <3>1, <3>2 DEF ToolMirrored
  <2>2. CASE AwaitsInput
    BY <1>2, <1>5, <2>2 DEF ToolMirrored, AwaitsInput
  <2>3. QED
    BY <1>5, <2>1, <2>2 DEF ToolMirrored
<1>6. ASSUME NEW h \in Hook, Registers(h) \/ Settles(h)
      PROVE  GivenUp'
  BY <1>2, <1>6 DEF Registers, Settles, AwaitsInput, Becomes
<1>7. ASSUME NEW h \in Hook, StopMirrored(h)
      PROVE  GivenUp'
  <2>1. CASE UNCHANGED <<status, offer, answering, outlived>>
    BY <1>7, <2>1 DEF StopMirrored, GivenUp, Shown
  <2>2. CASE status' \in {"awaiting_input", "waiting_local"}
    BY <1>2, <1>7, <2>2 DEF StopMirrored
  <2>3. QED
    BY <1>0, <1>7, <2>1, <2>2, Stopped DEF StopMirrored
<1>8. ASSUME NEW h \in Hook, EndMirrored(h)
      PROVE  GivenUp'
  BY <1>0, <1>1, <1>8 DEF EndMirrored, GivenUp, Shown, RecordOK, Status
<1>9. CASE PromptSubmitted
  <2>1. Revived(Superseded(status)) \in Status
          /\ Revived(Superseded(status)) # "needs_restart"
    BY <1>0, MadeStatus DEF Revived, RecordOK
  <2>2. Shown' \subseteq Shown
    BY <1>0, <1>3, <1>9 DEF PromptSubmitted, RecordOK
  <2>3. QED
    BY <1>1, <1>9, <2>1, <2>2 DEF PromptSubmitted
<1>10. CASE End
  BY <1>1, <1>10 DEF End, Shown, Status
<1>11. ASSUME NEW o \in Offer, Answers(o)
       PROVE  GivenUp'
  <2>1. Shown' \subseteq Shown
    BY <1>0, <1>11 DEF Answers, Shown, RecordOK
  <2>2. QED
    BY <1>11, <2>1 DEF Answers, GivenUp
<1>12. ASSUME NEW t \in Take, HandsOver(t) \/ Retires(t)
       PROVE  GivenUp'
  <2>1. PICK st \in {"done", status} : Becomes(st)
    BY <1>12 DEF HandsOver, Retires
  <2>2. UNCHANGED <<offer, filed>>
    BY <1>12 DEF HandsOver, Retires
  <2>3. QED
    BY <1>0, <1>1, <2>1, <2>2 DEF Shown, GivenUp, RecordOK, Status
<1>13. CASE Files
  BY <1>0, <1>13 DEF Files, record, history, GivenUp, Shown, RecordOK
<1>14. ASSUME NEW later, Restarts(later)
       PROVE  GivenUp'
  <2>1. \A o \in Offer : offer'[o] = "shown" <=> filed.offer[o] = "shown"
    BY <1>14 DEF Restarts, RestoredOffer
  <2>2. Shown' = Rehydrated /\ offered' = Shown'
    BY <1>14, <2>1 DEF Restarts, Rehydrated, Shown
  <2>3. QED
    BY <1>14, <2>2 DEF Restarts, Rehydrated, GivenUp
<1>15. ASSUME \/ \E h \in Hook : Stops(h) \/ Ends(h) \/ MirrorFails(h) \/ StartMirrored(h)
              \/ Escapes \/ Interrupt \/ TakesOver \/ Watches
              \/ \E t \in Take : MintFails(t)
              \/ UNCHANGED adoptedVars
       PROVE  GivenUp'
  <2>1. UNCHANGED <<status, offer, filed, outlived>>
    BY <1>15 DEF Stops, Ends, MirrorFails, StartMirrored, Escapes, Interrupt, TakesOver, Watches,
                 MintFails, record, history, adoptedVars
  <2>2. QED
    BY <2>1 DEF GivenUp, Shown
<1>16. QED
  BY <1>4, <1>5, <1>6, <1>7, <1>8, <1>9, <1>10, <1>11, <1>12, <1>13, <1>14, <1>15
  DEF AdoptedNext, HookNext

LEMMA CountedStep == TypeOK /\ OneShown /\ Counted /\ [AdoptedNext]_adoptedVars => Counted'
<1> SUFFICES ASSUME TypeOK, OneShown, Counted, [AdoptedNext]_adoptedVars PROVE Counted'
  OBVIOUS
<1>0. RecordOK /\ TakeOK /\ FiledOK /\ CountsOK /\ FlagsOK
  BY TypeParts
\* Offers move without an answer, and nobody counts.
<1>1. ASSUME \A o \in Offer : Fresh(o)' => Fresh(o), UNCHANGED <<take, continued, forgotten>>
      PROVE  Counted'
  BY <1>1 DEF Counted, ContinuesOnce
<1>2. ASSUME NEW st, DropsOffers(st), UNCHANGED <<filed, take, continued, forgotten>>
      PROVE  Counted'
  <2>1. \A o \in Offer : Fresh(o)' => Fresh(o)
    BY <1>0, <1>2, Drops DEF Fresh
  <2>2. QED
    BY <1>1, <1>2, <2>1
<1>3. ASSUME NEW h \in Hook, StopMirrored(h)
      PROVE  Counted'
  <2>1. \A o \in Offer : Fresh(o)' => Fresh(o)
    BY <1>0, <1>3, Stopped DEF StopMirrored, Fresh
  <2>2. QED
    BY <1>1, <1>3, <2>1 DEF StopMirrored
<1>4. ASSUME NEW o \in Offer, Answers(o)
      PROVE  Counted'
  <2>1. PICK t \in Take : take[t] = NoTake /\ take' = [take EXCEPT ![t] = Minting(o)]
    BY <1>4 DEF Answers, Mints
  <2>2. Fresh(o) /\ offer' = [offer EXCEPT ![o] = "answered"]
    BY <1>4 DEF Answers, Fresh, OneShown, Shown
  <2>3. ~Fresh(o)' /\ \A p \in Offer \ {o} : Fresh(p)' <=> Fresh(p)
    BY <1>0, <1>4, <2>2 DEF Answers, Fresh, RecordOK
  <2>4. take'[t].by = o /\ \A u \in Take \ {t} : take'[u] = take[u] /\ take[u].by # o
    BY <1>0, <2>1, <2>2 DEF TakeOK, Minting, Counted
  <2>5. UNCHANGED <<continued, forgotten>>
    BY <1>4 DEF Answers
  <2>6. QED
    BY <2>2, <2>3, <2>4, <2>5 DEF Counted, ContinuesOnce
<1>5. ASSUME NEW t \in Take, TakesOver \/ MintFails(t) \/ Retires(t)
      PROVE  Counted'
  <2>1. /\ \A u \in Take : take'[u].by \in Offer => take'[u] = take[u]
        /\ UNCHANGED <<offer, filed, continued, forgotten>>
    BY <1>0, <1>5 DEF TakesOver, MintFails, Retires, Mints, Minting, NoTake, TakeOK, record, history
  <2>2. \A o \in Offer : Fresh(o)' <=> Fresh(o)
    BY <2>1 DEF Fresh
  <2>3. QED
    BY <2>1, <2>2 DEF Counted, ContinuesOnce
<1>6. ASSUME NEW t \in Take, HandsOver(t)
      PROVE  Counted'
  <2> DEFINE o == take[t].by
  <2>1. /\ o \in Offer /\ continued' = [continued EXCEPT ![o] = @ + 1]
        /\ take' = [take EXCEPT ![t] = NoTake] /\ UNCHANGED <<offer, filed, forgotten>>
    BY <1>6 DEF HandsOver
  <2>2. ~Fresh(o) /\ continued[o] <= forgotten[o] /\ \A u \in Take : take[u].by = o => u = t
    BY <2>1 DEF Counted
  <2>3. \A p \in Offer : Fresh(p)' <=> Fresh(p)
    BY <2>1 DEF Fresh
  <2>4. take'[t].by \notin Offer /\ \A u \in Take \ {t} : take'[u] = take[u]
    BY <1>0, <2>1 DEF TakeOK, NoTake
  <2>5. /\ continued'[o] = continued[o] + 1
        /\ \A p \in Offer \ {o} : continued'[p] = continued[p]
    BY <1>0, <2>1 DEF CountsOK
  <2>6. continued[o] \in Nat /\ forgotten[o] \in Nat
    BY <1>0, <2>1 DEF CountsOK
  <2>7. \A p \in Offer : continued'[p] <= 1 + forgotten'[p] /\ (Fresh(p)' => continued'[p] <= forgotten'[p])
    BY <2>1, <2>2, <2>3, <2>5, <2>6 DEF Counted, ContinuesOnce
  <2>8. \A u \in Take : take'[u].by \in Offer =>
          ~Fresh(take[u].by)' /\ continued'[take'[u].by] <= forgotten'[take'[u].by]
    <3> SUFFICES ASSUME NEW u \in Take, take'[u].by \in Offer
                 PROVE  ~Fresh(take[u].by)' /\ continued'[take'[u].by] <= forgotten'[take'[u].by]
      OBVIOUS
    <3>1. take'[u] = take[u] /\ take[u].by \in Offer \ {o}
      BY <2>2, <2>4
    <3>2. ~Fresh(take[u].by) /\ continued[take[u].by] <= forgotten[take[u].by]
      BY <3>1 DEF Counted
    <3>3. QED
      BY <2>1, <2>3, <2>5, <3>1, <3>2
  <2>9. \A u, v \in Take : take'[u].by = take'[v].by /\ take'[u].by \in Offer => u = v
    BY <2>4 DEF Counted
  <2>10. QED
    BY <2>1, <2>7, <2>8, <2>9 DEF Counted, ContinuesOnce
<1>7. CASE Files
  <2>1. \A o \in Offer : Fresh(o)' => Fresh(o)
    BY <1>7 DEF Files, Fresh, record
  <2>2. QED
    BY <1>1, <1>7, <2>1 DEF Files, history
<1>8. ASSUME NEW later, Restarts(later)
      PROVE  Counted'
  <2>1. \A t \in Take : take'[t].by \notin Offer
    BY <1>8 DEF Restarts, NoTake
  <2>2. \A o \in Offer :
          /\ continued'[o] = continued[o]
          /\ forgotten'[o] = forgotten[o] +
               (IF offer[o] = "answered" /\ filed.offer[o] = "shown" THEN 1 ELSE 0)
    BY <1>8 DEF Restarts
  <2>3. \A o \in Offer : Fresh(o)' => Fresh(o) \/ (offer[o] = "answered" /\ filed.offer[o] = "shown")
    BY <1>0, <1>8 DEF Restarts, RestoredOffer, Fresh, RecordOK, FiledOK, Standing
  <2>4. \A o \in Offer : continued[o] \in Nat /\ forgotten[o] \in Nat
    BY <1>0 DEF CountsOK
  <2>5. \A o \in Offer : continued'[o] <= 1 + forgotten'[o] /\ (Fresh(o)' => continued'[o] <= forgotten'[o])
    BY <2>2, <2>3, <2>4 DEF Counted, ContinuesOnce
  <2>6. QED
    BY <2>1, <2>5 DEF Counted, ContinuesOnce
<1>9. ASSUME \/ \E h \in Hook : \/ \E kind \in {"tool", "start"} : Arrives(h, kind)
                              \/ Stops(h) \/ Ends(h) \/ MirrorFails(h) \/ StartMirrored(h)
                              \/ EndMirrored(h) \/ Registers(h) \/ Settles(h)
             \/ Escapes \/ Interrupt \/ End \/ Watches
             \/ UNCHANGED adoptedVars
      PROVE  Counted'
  <2>1. UNCHANGED <<offer, filed, take, continued, forgotten>>
    BY <1>9 DEF Arrives, Stops, Ends, MirrorFails, StartMirrored, EndMirrored, Registers, Settles,
                Escapes, Interrupt, End, Watches, record, history, adoptedVars
  <2>2. QED
    BY <1>1, <2>1 DEF Fresh
<1>10. QED
  BY <1>2, <1>3, <1>4, <1>5, <1>6, <1>7, <1>8, <1>9
  DEF AdoptedNext, HookNext, ToolMirrored, PromptSubmitted, TakesOver

LEMMA WaitedStep == TypeOK /\ Waited /\ [AdoptedNext]_adoptedVars => Waited'
<1> SUFFICES ASSUME TypeOK, Waited, [AdoptedNext]_adoptedVars PROVE Waited'
  OBVIOUS
<1>0. EventsOK /\ FlagsOK
  BY TypeParts
\* A handler leaves, and nobody's terminal moves but a Stop's.
<1>1. ASSUME NEW h \in Hook, Leave(h), UNCHANGED left,
             UNCHANGED terminal \/ (hook[h].at = "mirror" /\ LeavesTerminal(h))
      PROVE  Waited'
  BY <1>0, <1>1 DEF Waited, EventsOK, Leave, LeavesTerminal, NoHook, Handling
<1>2. ASSUME NEW h \in Hook, NEW kind \in {"tool", "start"}, Arrives(h, kind)
      PROVE  Waited'
  BY <1>0, <1>2 DEF Arrives, Begin, Handling, Waited, EventsOK
<1>3. ASSUME NEW h \in Hook, Stops(h)
      PROVE  Waited'
  BY <1>0, <1>3 DEF Stops, Begin, Handling, history, Waited, EventsOK
<1>4. ASSUME NEW h \in Hook, Ends(h)
      PROVE  Waited'
  <2>1. CASE \E g \in Hook : hook[g].live
    BY <1>4, <2>1 DEF Ends, Waited
  <2>2. CASE \A g \in Hook : ~hook[g].live
    <3>1. ASSUME ~left
          PROVE  \A g \in Hook : hook'[g].at # "idle" => g = h
      <4>1. \A g \in Hook : hook[g].at = "idle"
        BY <2>2, <3>1 DEF Waited
      <4>2. ASSUME NEW g \in Hook, g # h
            PROVE  hook'[g].at = hook[g].at
        <5>1. hook[g] \in Handlings
          BY <1>0 DEF EventsOK
        <5>2. hook'[g] = [hook[g] EXCEPT !.live = FALSE]
          BY <1>4, <4>2 DEF Ends
        <5>3. QED
          BY <5>1, <5>2, KeepsPlace
      <4>3. QED
        BY <4>1, <4>2
    <3>2. hook'[h] = Handling("mirror", "end", TRUE)
      BY <1>4 DEF Ends
    <3>3. hook'[h].live /\ hook'[h].kind = "end"
      BY <3>2 DEF Handling
    <3>4. left' => left
      BY <1>0, <1>4, <2>2 DEF Ends, FlagsOK
    <3>5. QED
      BY <1>0, <1>4, <2>2, <3>1, <3>3, <3>4 DEF Waited, Ends, FlagsOK
  <2>3. QED
    BY <2>1, <2>2
<1>5. ASSUME NEW h \in Hook, MirrorFails(h) \/ StartMirrored(h) \/ StopMirrored(h)
                               \/ EndMirrored(h) \/ Settles(h)
      PROVE  Waited'
  BY <1>1, <1>5 DEF MirrorFails, StartMirrored, StopMirrored, EndMirrored, Settles, history
<1>6. ASSUME NEW h \in Hook, ToolMirrored(h) \/ Registers(h)
      PROVE  Waited'
  <2>1. UNCHANGED <<terminal, left>> /\ hook[h].at # "idle"
    BY <1>6 DEF ToolMirrored, Registers
  <2>2. Leave(h) \/ \E a \in {"diff", "held"} : hook' = [hook EXCEPT ![h].at = a]
    BY <1>6 DEF ToolMirrored, Registers
  <2>3. CASE \E a \in {"diff", "held"} : hook' = [hook EXCEPT ![h].at = a]
    BY <1>0, <2>1, <2>3 DEF Waited, EventsOK
  <2>4. QED
    BY <1>1, <2>1, <2>2, <2>3
<1>7. CASE PromptSubmitted
  BY <1>7 DEF PromptSubmitted, Waited
<1>8. CASE Escapes
  <2>1. CASE \E g \in Hook : hook[g].live
    BY <1>8, <2>1 DEF Escapes, Waited
  <2>2. CASE \A g \in Hook : ~hook[g].live
    <3>1. ASSUME ~left
          PROVE  \A g \in Hook : hook'[g].at = "idle"
      <4>1. \A g \in Hook : hook[g].at = "idle"
        BY <2>2, <3>1 DEF Waited
      <4>2. ASSUME NEW g \in Hook
            PROVE  hook'[g].at = hook[g].at
        <5>1. hook[g] \in Handlings
          BY <1>0 DEF EventsOK
        <5>2. hook'[g] = [hook[g] EXCEPT !.live = FALSE]
          BY <1>8 DEF Escapes
        <5>3. QED
          BY <5>1, <5>2, KeepsPlace
      <4>3. QED
        BY <4>1, <4>2
    <3>2. left' = left
      BY <1>0, <1>8, <2>2 DEF Escapes, FlagsOK
    <3>3. QED
      BY <3>1, <3>2 DEF Waited
  <2>3. QED
    BY <2>1, <2>2
<1>9. CASE Interrupt \/ End
  BY <1>0, <1>9 DEF Interrupt, End, StopTurn, Held, NoHook, Handling, Waited, EventsOK
<1>10. ASSUME NEW later, Restarts(later)
       PROVE  Waited'
  BY <1>10 DEF Restarts, NoHook, Handling, Waited
<1>11. ASSUME \/ TakesOver \/ Watches \/ Files \/ UNCHANGED adoptedVars
              \/ \E o \in Offer : Answers(o)
              \/ \E t \in Take : MintFails(t) \/ HandsOver(t) \/ Retires(t)
       PROVE  Waited'
  <2>1. UNCHANGED <<hook, terminal, left>>
    BY <1>11 DEF TakesOver, Watches, Files, Answers, MintFails, HandsOver, Retires, history, adoptedVars
  <2>2. QED
    BY <2>1 DEF Waited
<1>12. QED
  BY <1>2, <1>3, <1>4, <1>5, <1>6, <1>7, <1>8, <1>9, <1>10, <1>11 DEF AdoptedNext, HookNext

LEMMA NothingStacksStep ==
  TypeOK /\ OneShown /\ GivenUp /\ Waited /\ NothingStacks /\ [AdoptedNext]_adoptedVars => NothingStacks'
<1> SUFFICES ASSUME TypeOK, OneShown, GivenUp, Waited, NothingStacks, [AdoptedNext]_adoptedVars
             PROVE  NothingStacks'
  OBVIOUS
<1> DEFINE Gated == {h \in Hook : hook[h].at \in {"diff", "held"}}
<1>0. RecordOK /\ EventsOK /\ FlagsOK
  BY TypeParts
\* No gate opens and no offer is made.
<1>1. ASSUME Shown' \subseteq Shown, \A h \in Hook : hook'[h].at \in {"diff", "held"} => h \in Gated,
             left => left', outlived => outlived'
      PROVE  NothingStacks'
  BY <1>0, <1>1 DEF NothingStacks, FlagsOK
<1>2. ASSUME NEW h \in Hook, ToolMirrored(h)
      PROVE  NothingStacks'
  <2>1. outlived => outlived'
    BY <1>0, <1>2 DEF ToolMirrored, Becomes, AwaitsInput, FlagsOK
  <2>2. Shown' \subseteq Shown /\ (status \notin Ended => Shown' = {})
    BY <1>0, <1>2, Drops DEF ToolMirrored, Shown
  <2>3. CASE status \in Ended
    BY <1>0, <2>1, <2>2, <2>3 DEF GivenUp, NothingStacks, FlagsOK
  <2>4. CASE status \notin Ended
    BY <2>2, <2>4 DEF NothingStacks
  <2>5. QED
    BY <2>3, <2>4
<1>3. ASSUME NEW h \in Hook, Registers(h)
      PROVE  NothingStacks'
  <2>1. UNCHANGED <<offer, left, outlived>> /\ hook[h].at = "diff"
    BY <1>3 DEF Registers, AwaitsInput
  <2>2. \A g \in Hook : hook'[g].at \in {"diff", "held"} => g \in Gated
    BY <1>0, <1>3 DEF Registers, EventsOK
  <2>3. QED
    BY <1>1, <2>1, <2>2 DEF Shown
<1>4. ASSUME NEW h \in Hook, StopMirrored(h)
      PROVE  NothingStacks'
  <2>1. ~left => \A g \in Hook : hook'[g].at = "idle"
    BY <1>0, <1>4 DEF StopMirrored, Leave, NoHook, Handling, EventsOK, Waited
  <2>2. QED
    BY <1>4, <2>1 DEF StopMirrored, NothingStacks
<1>5. ASSUME NEW later, Restarts(later)
      PROVE  NothingStacks'
  BY <1>5 DEF Restarts, NoHook, Handling, NothingStacks
<1>6. CASE PromptSubmitted
  <2>1. Shown' \subseteq Shown
    BY <1>0, <1>6, Drops DEF PromptSubmitted, Shown
  <2>2. QED
    BY <1>0, <1>1, <1>6, <2>1 DEF PromptSubmitted, Becomes, FlagsOK
<1>7. ASSUME NEW o \in Offer, Answers(o)
      PROVE  NothingStacks'
  <2>1. Shown' \subseteq Shown
    BY <1>0, <1>7 DEF Answers, Shown, RecordOK
  <2>2. QED
    BY <1>1, <1>7, <2>1 DEF Answers
<1>8. ASSUME \/ \E h \in Hook : \/ \E kind \in {"tool", "start"} : Arrives(h, kind)
                              \/ Stops(h) \/ Ends(h) \/ MirrorFails(h) \/ StartMirrored(h)
                              \/ EndMirrored(h) \/ Settles(h)
             \/ Escapes \/ Interrupt \/ End \/ TakesOver \/ Watches \/ Files
             \/ \E t \in Take : MintFails(t) \/ HandsOver(t) \/ Retires(t)
             \/ UNCHANGED adoptedVars
      PROVE  NothingStacks'
  <2>1. UNCHANGED offer
    BY <1>8 DEF Arrives, Stops, Ends, MirrorFails, StartMirrored, EndMirrored, Settles, Escapes,
                Interrupt, End, TakesOver, Watches, Files, MintFails, HandsOver, Retires, record,
                adoptedVars
  <2>2. left => left'
    BY <1>8
    DEF Arrives, Stops, Ends, MirrorFails, StartMirrored, EndMirrored, Settles, Escapes,
        Interrupt, End, TakesOver, Watches, Files, MintFails, HandsOver, Retires, history, adoptedVars
  <2>5. UNCHANGED outlived \/ \E st : Becomes(st)
    BY <1>8
    DEF Arrives, Stops, Ends, MirrorFails, StartMirrored, EndMirrored, Settles, Escapes,
        Interrupt, End, TakesOver, Watches, Files, MintFails, HandsOver, Retires, history, adoptedVars
  <2>6. outlived => outlived'
    BY <2>5 DEF Becomes
  <2>3. ASSUME NEW g \in Hook, hook'[g].at \in {"diff", "held"}
        PROVE  g \in Gated
    <3>1. CASE (\E h \in Hook : Ends(h)) \/ Escapes
      <4>1. hook'[g] = [hook[g] EXCEPT !.live = FALSE]
        <5>1. CASE Escapes
          BY <5>1 DEF Escapes
        <5>2. ASSUME NEW h \in Hook, Ends(h)
              PROVE  hook'[g] = [hook[g] EXCEPT !.live = FALSE]
          <6>1. hook'[h] = Handling("mirror", "end", TRUE)
            BY <5>2 DEF Ends
          <6>2. g # h
            BY <2>3, <6>1 DEF Handling
          <6>3. QED
            BY <5>2, <6>2 DEF Ends
        <5>3. QED
          BY <3>1, <5>1, <5>2
      <4>2. QED
        BY <1>0, <2>3, <4>1, KeepsPlace DEF EventsOK
    <3>2. CASE \E h \in Hook : \/ \E kind \in {"tool", "start"} : Arrives(h, kind)
                              \/ Stops(h) \/ MirrorFails(h) \/ StartMirrored(h)
                              \/ EndMirrored(h) \/ Settles(h)
      BY <1>0, <2>3, <3>2 DEF EventsOK, Arrives, Stops, MirrorFails, StartMirrored, EndMirrored,
                              Settles, Begin, Leave, NoHook, Handling
    <3>3. CASE Interrupt \/ End
      BY <2>3, <3>3 DEF Interrupt, End, StopTurn, NoHook, Handling
    <3>4. CASE \/ TakesOver \/ Watches \/ Files \/ UNCHANGED adoptedVars
               \/ \E t \in Take : MintFails(t) \/ HandsOver(t) \/ Retires(t)
      BY <2>3, <3>4 DEF TakesOver, Watches, Files, MintFails, HandsOver, Retires, adoptedVars
    <3>5. QED
      BY <1>8, <3>1, <3>2, <3>3, <3>4
  <2>4. QED
    BY <1>1, <2>1, <2>2, <2>3, <2>6 DEF Shown
<1>9. QED
  BY <1>2, <1>3, <1>4, <1>5, <1>6, <1>7, <1>8 DEF AdoptedNext, HookNext

LEMMA AskingStep == TypeOK /\ OneShown /\ AskingHasAnAsk /\ [AdoptedNext]_adoptedVars => AskingHasAnAsk'
<1> SUFFICES ASSUME TypeOK, OneShown, AskingHasAnAsk, [AdoptedNext]_adoptedVars PROVE AskingHasAnAsk'
  OBVIOUS
<1>0. RecordOK /\ EventsOK /\ FlagsOK
  BY TypeParts
<1>1. ASSUME status' # "awaiting_input"
      PROVE  AskingHasAnAsk'
  BY <1>1 DEF AskingHasAnAsk
\* A session that asked still has what it asked.
<1>2. ASSUME status' = "awaiting_input" => status = "awaiting_input" /\ answering' = answering,
             Held \subseteq Held', Shown \subseteq Shown'
      PROVE  AskingHasAnAsk'
  BY <1>2 DEF AskingHasAnAsk
<1>3. ASSUME NEW h \in Hook, ToolMirrored(h)
      PROVE  AskingHasAnAsk'
  <2>1. Held \subseteq Held'
    BY <1>0, <1>3 DEF ToolMirrored, Leave, Held, EventsOK
  <2>2. CASE Becomes(Superseded(status))
    <3>1. CASE Supersedes(status)
      BY <1>1, <2>2, <3>1 DEF Becomes, Superseded
    <3>2. CASE ~Supersedes(status)
      <4>1. status' = status /\ answering' = answering
        BY <1>0, <2>2, <3>2 DEF Becomes, Superseded, FlagsOK
      <4>2. Shown' = Shown
        BY <1>0, <1>3, <3>2 DEF ToolMirrored, DropsOffers, Pruned, Shown
      <4>3. QED
        BY <1>2, <2>1, <4>1, <4>2
    <3>3. QED
      BY <3>1, <3>2
  <2>3. CASE hook' = [hook EXCEPT ![h].at = "held"]
    <3>1. h \in Held'
      BY <1>0, <2>3 DEF Held, EventsOK
    <3>2. QED
      BY <3>1 DEF AskingHasAnAsk
  <2>4. QED
    BY <1>3, <2>2, <2>3 DEF ToolMirrored
<1>4. ASSUME NEW h \in Hook, Registers(h)
      PROVE  AskingHasAnAsk'
  <2>1. h \in Held'
    BY <1>0, <1>4 DEF Registers, Held, EventsOK
  <2>2. QED
    BY <2>1 DEF AskingHasAnAsk
<1>5. ASSUME NEW h \in Hook, StopMirrored(h)
      PROVE  AskingHasAnAsk'
  <2>1. Held \subseteq Held'
    BY <1>0, <1>5 DEF StopMirrored, Leave, Held, EventsOK
  <2>2. CASE UNCHANGED <<status, offer, answering, outlived>>
    BY <1>2, <2>1, <2>2 DEF Shown
  <2>3. CASE /\ status' = "awaiting_input" => status = "awaiting_input" /\ Shown = {}
             /\ answering' = (answering /\ status' = status)
    <3>1. status' = "awaiting_input" => status = "awaiting_input" /\ answering' = answering
      BY <1>0, <2>3 DEF FlagsOK
    <3>2. CASE status' = "awaiting_input"
      BY <1>2, <2>1, <2>3, <3>1, <3>2
    <3>3. QED
      BY <1>1, <3>2
  <2>4. CASE \E o \in Offer : offer'[o] = "shown"
    BY <2>4 DEF AskingHasAnAsk, Shown
  <2>5. QED
    BY <1>0, <1>5, <2>2, <2>3, <2>4, Stopped DEF StopMirrored
<1>6. CASE PromptSubmitted
  <2>1. CASE Supersedes(status)
    BY <1>1, <1>6, <2>1 DEF PromptSubmitted, Becomes, Superseded, Revived
  <2>2. CASE ~Supersedes(status)
    <3>1. Shown' = Shown /\ Held' = Held
      BY <1>6, <2>2 DEF PromptSubmitted, DropsOffers, Pruned, Shown, Held
    <3>2. status' = "awaiting_input" => status = "awaiting_input" /\ answering' = answering
      BY <1>0, <1>6, <2>2 DEF PromptSubmitted, Becomes, Superseded, Revived, FlagsOK
    <3>3. QED
      BY <1>2, <3>1, <3>2
  <2>3. QED
    BY <2>1, <2>2
<1>7. CASE Interrupt
  BY <1>7 DEF Interrupt, record, AskingHasAnAsk
<1>8. ASSUME NEW o \in Offer, Answers(o)
      PROVE  AskingHasAnAsk'
  BY <1>0, <1>8 DEF Answers, AskingHasAnAsk, FlagsOK
<1>9. ASSUME NEW later, Restarts(later)
      PROVE  AskingHasAnAsk'
  <2>1. \A o \in Offer : offer'[o] = "shown" <=> filed.offer[o] = "shown"
    BY <1>9 DEF Restarts, RestoredOffer
  <2>2. Shown' = Rehydrated
    BY <2>1 DEF Rehydrated, Shown
  <2>3. QED
    BY <1>9, <2>2 DEF Restarts, AskingHasAnAsk
<1>10. ASSUME \/ \E h \in Hook : Settles(h)
              \/ End
              \/ \E t \in Take : HandsOver(t)
       PROVE  AskingHasAnAsk'
  BY <1>1, <1>10 DEF Settles, End, HandsOver, Becomes
<1>11. ASSUME \/ \E h \in Hook : \/ \E kind \in {"tool", "start"} : Arrives(h, kind)
                               \/ Stops(h) \/ Ends(h) \/ MirrorFails(h) \/ StartMirrored(h)
                               \/ EndMirrored(h)
              \/ Escapes \/ TakesOver \/ Watches \/ Files
              \/ \E t \in Take : MintFails(t) \/ Retires(t)
              \/ UNCHANGED adoptedVars
       PROVE  AskingHasAnAsk'
  <2>1. UNCHANGED offer
    BY <1>11 DEF Arrives, Stops, Ends, MirrorFails, StartMirrored, EndMirrored, Escapes, TakesOver,
                 Watches, Files, MintFails, Retires, record, adoptedVars
  <2>5. \/ UNCHANGED <<status, answering>>
        \/ \E st \in {Revived(status), status, "done"} : Becomes(st)
    BY <1>11
    DEF Arrives, Stops, Ends, MirrorFails, StartMirrored, EndMirrored, Escapes, TakesOver,
        Watches, Files, MintFails, Retires, record, history, adoptedVars
  <2>2. status' = "awaiting_input" => status = "awaiting_input" /\ answering' = answering
    BY <1>0, <2>5 DEF Becomes, Revived, FlagsOK
  <2>3. ASSUME NEW g \in Held
        PROVE  g \in Held'
    <3>0. g \in Hook /\ hook[g].at = "held"
      BY DEF Held
    <3>1. CASE (\E h \in Hook : Ends(h)) \/ Escapes
      <4>1. hook'[g] = [hook[g] EXCEPT !.live = FALSE]
        BY <3>0, <3>1 DEF Ends, Escapes
      <4>2. QED
        BY <1>0, <3>0, <4>1, KeepsPlace DEF EventsOK, Held
    <3>2. CASE \/ \E h \in Hook : \/ \E kind \in {"tool", "start"} : Arrives(h, kind)
                                \/ Stops(h) \/ MirrorFails(h) \/ StartMirrored(h)
                                \/ EndMirrored(h)
      BY <1>0, <3>0, <3>2 DEF EventsOK, Arrives, Stops, MirrorFails, StartMirrored, EndMirrored,
                              Begin, Leave, Held
    <3>3. CASE \/ TakesOver \/ Watches \/ Files \/ UNCHANGED adoptedVars
               \/ \E t \in Take : MintFails(t) \/ Retires(t)
      BY <3>0, <3>3 DEF TakesOver, Watches, Files, MintFails, Retires, Held, adoptedVars
    <3>4. QED
      BY <1>11, <3>1, <3>2, <3>3
  <2>4. QED
    BY <1>2, <2>1, <2>2, <2>3 DEF Shown
<1>12. QED
  BY <1>3, <1>4, <1>5, <1>6, <1>7, <1>8, <1>9, <1>10, <1>11 DEF AdoptedNext, HookNext

LEMMA WaitsStep == TypeOK /\ OneShown /\ WaitsBetweenTurns /\ [AdoptedNext]_adoptedVars => WaitsBetweenTurns'
<1> SUFFICES ASSUME TypeOK, OneShown, WaitsBetweenTurns, [AdoptedNext]_adoptedVars PROVE WaitsBetweenTurns'
  OBVIOUS
<1>0. RecordOK /\ EventsOK /\ FlagsOK
  BY TypeParts
<1>1. ASSUME NEW h \in Hook, ToolMirrored(h)
      PROVE  WaitsBetweenTurns'
  BY <1>0, <1>1 DEF ToolMirrored, Becomes, AwaitsInput, Superseded, WaitsBetweenTurns
<1>2. ASSUME NEW h \in Hook, StopMirrored(h)
      PROVE  WaitsBetweenTurns'
  <2>1. CASE hook[h].live
    BY <1>2, <2>1 DEF StopMirrored, LeavesTerminal, WaitsBetweenTurns
  <2>2. CASE ~hook[h].live
    BY <1>0, <1>2, <2>2 DEF StopMirrored, WaitsBetweenTurns, FlagsOK
  <2>3. QED
    BY <2>1, <2>2
<1>3. CASE PromptSubmitted
  BY <1>3 DEF PromptSubmitted, Becomes, Revived, WaitsBetweenTurns
<1>4. ASSUME NEW later, Restarts(later)
      PROVE  WaitsBetweenTurns'
  BY <1>4 DEF Restarts, WaitsBetweenTurns
<1>5. ASSUME \/ \E h \in Hook : \/ \E kind \in {"tool", "start"} : Arrives(h, kind)
                              \/ Stops(h) \/ Ends(h) \/ MirrorFails(h) \/ StartMirrored(h)
                              \/ EndMirrored(h) \/ Registers(h) \/ Settles(h)
             \/ Escapes \/ Interrupt \/ End \/ TakesOver \/ Watches \/ Files
             \/ \E o \in Offer : Answers(o)
             \/ \E t \in Take : MintFails(t) \/ HandsOver(t) \/ Retires(t)
             \/ UNCHANGED adoptedVars
      PROVE  WaitsBetweenTurns'
  <2>1. status' = "waiting_local" => status = "waiting_local"
    BY <1>5 DEF Arrives, Stops, Ends, MirrorFails, StartMirrored, EndMirrored, Registers, Settles,
                Escapes, Interrupt, End, TakesOver, Watches, Files, Answers, MintFails, HandsOver,
                Retires, Becomes, AwaitsInput, Revived, record, adoptedVars
  <2>2. UNCHANGED misled /\ (terminal' = "busy" => terminal = "busy")
    BY <1>5 DEF Arrives, Stops, Ends, MirrorFails, StartMirrored, EndMirrored, Registers, Settles,
                Escapes, Interrupt, End, TakesOver, Watches, Files, Answers, MintFails, HandsOver,
                Retires, LeavesTerminal, history, adoptedVars
  <2>3. QED
    BY <2>1, <2>2 DEF WaitsBetweenTurns
<1>6. QED
  BY <1>1, <1>2, <1>3, <1>4, <1>5 DEF AdoptedNext, HookNext

LEMMA Invariance == AdoptedSpec => []IInv
<1>1. IInv /\ [AdoptedNext]_adoptedVars => IInv'
  BY TypeStep, OneShownStep, GivenUpStep, CountedStep, WaitedStep, NothingStacksStep, AskingStep,
     WaitsStep DEF IInv
<1>2. QED
  BY <1>1, InitIInv, PTL DEF AdoptedSpec

-----------------------------------------------------------------------------
(* The theorems. *)

\* Every variable stays in its domain.
THEOREM TypeCorrect == AdoptedSpec => []TypeOK
<1>1. IInv => TypeOK
  BY DEF IInv
<1>2. QED
  BY <1>1, Invariance, PTL

\* However handlers, answers, mints and restarts race, a browser is shown one takeover offer at
\* most, which an answer finds, and each is continued once, and again only for a restart that
\* forgot its answer (handleHandoverAnswer, restorePersistedSessions).
THEOREM OneOffer == AdoptedSpec => []OneOfferOnce
<1>1. ASSUME IInv
      PROVE  OffersAgree
  <2>1. CASE offered = {}
    BY <1>1, <2>1, FS_EmptySet DEF IInv, OneShown, OffersAgree
  <2>2. ASSUME NEW o \in offered
        PROVE  OffersAgree
    <3>1. offered = {o}
      BY <1>1, <2>2 DEF IInv, OneShown, Shown
    <3>2. Cardinality({o}) = 1
      BY FS_Singleton
    <3>3. QED
      BY <1>1, <3>1, <3>2 DEF IInv, OneShown, OffersAgree
  <2>3. QED
    BY <2>1, <2>2
<1>2. IInv => OneOfferOnce
  BY <1>1 DEF OneOfferOnce, IInv, Counted
<1>3. QED
  BY <1>2, Invariance, PTL

\* A gate is never asked over an offer by handlers Claude Code waits for, unless the offer
\* outlived its session (handleHookEvent).
THEOREM GatesDoNotStack == AdoptedSpec => []NothingStacksInOrder
<1>1. IInv => NothingStacksInOrder
  BY DEF IInv, NothingStacks, NothingStacksInOrder, Held
<1>2. QED
  BY <1>1, Invariance, PTL

\* A session that awaits input can be given some, or has just been (resolveGate,
\* handleHandoverAnswer, restorePersistedSessions).
THEOREM AsksCanBeAnswered == AdoptedSpec => []AskingHasAnAsk
<1>1. IInv => AskingHasAnAsk
  BY DEF IInv
<1>2. QED
  BY <1>1, Invariance, PTL

\* A takeover that was asked for between turns, and minted while the user went on typing, does
\* not retire the session in its turn (retireTakenOverParent).
THEOREM TurnsAreSpared == AdoptedSpec => TakeoverSparesTheTurn
<1>1. ASSUME IInv, NEW t \in Take, Retires(t), status' = "done", status # "done"
      PROVE  terminal # "busy" \/ misled
  BY <1>1 DEF IInv, Retires, Becomes, WaitsBetweenTurns
<1>2. IInv => [\A t \in Take : Retires(t) /\ status' = "done" /\ status # "done" =>
                 terminal # "busy" \/ misled]_adoptedVars
  BY <1>1
<1>3. QED
  BY <1>2, Invariance, PTL DEF TakeoverSparesTheTurn

\* What is done stays done, whichever handlers it left running, but for a gate
\* (settleStopOutcome, supersedePendingHandoverByLocalActivity).
THEOREM DoneIsDone == AdoptedSpec => OnlyAGateRevives
<1>1. ASSUME IInv, AdoptedNext, status = "done", status' # "done"
      PROVE  restarts' # restarts \/ \E h \in Hook : hook[h].at = "held" \/ hook'[h].at = "held"
  <2>0. EventsOK /\ CountsOK
    BY <1>1, TypeParts DEF IInv
  <2>1. ASSUME NEW h \in Hook, ToolMirrored(h)
        PROVE  hook'[h].at = "held"
    <3>1. ~Becomes(Superseded(status))
      BY <1>1 DEF Becomes, Superseded, Supersedes
    <3>2. hook' = [hook EXCEPT ![h].at = "held"]
      BY <2>1, <3>1 DEF ToolMirrored
    <3>3. hook'[h] = [hook[h] EXCEPT !.at = "held"] /\ hook[h] \in Handlings
      BY <2>0, <3>2 DEF EventsOK
    <3>4. QED
      BY <3>3, TakesPlace
  <2>2. ASSUME NEW h \in Hook, Registers(h) \/ Settles(h)
        PROVE  hook[h].at = "held" \/ hook'[h].at = "held"
    <3>1. CASE Registers(h)
      <4>1. hook'[h] = [hook[h] EXCEPT !.at = "held"] /\ hook[h] \in Handlings
        BY <2>0, <3>1 DEF Registers, EventsOK
      <4>2. QED
        BY <4>1, TakesPlace
    <3>2. QED
      BY <2>2, <3>1 DEF Settles
  <2>3. ASSUME NEW later, Restarts(later)
        PROVE  restarts' # restarts
    BY <2>0, <2>3 DEF Restarts, CountsOK
  <2>4. ASSUME \/ \E h \in Hook : \/ \E kind \in {"tool", "start"} : Arrives(h, kind)
                                \/ Stops(h) \/ Ends(h) \/ MirrorFails(h) \/ StartMirrored(h)
                                \/ StopMirrored(h) \/ EndMirrored(h)
               \/ PromptSubmitted \/ Escapes \/ Interrupt \/ End \/ TakesOver \/ Watches \/ Files
               \/ \E o \in Offer : Answers(o)
               \/ \E t \in Take : MintFails(t) \/ HandsOver(t) \/ Retires(t)
        PROVE  FALSE
    BY <1>1, <2>4
    DEF Arrives, Stops, Ends, MirrorFails, StartMirrored, StopMirrored, EndMirrored,
        PromptSubmitted, Escapes, Interrupt, End, TakesOver, Watches, Files, Answers, MintFails,
        HandsOver, Retires, StopSettles, Becomes, Revived, Superseded, Supersedes, record
  <2>5. QED
    BY <1>1, <2>1, <2>2, <2>3, <2>4 DEF AdoptedNext, HookNext
<1>2. IInv /\ [AdoptedNext]_adoptedVars =>
        [status = "done" /\ status' # "done" =>
           \/ restarts' # restarts
           \/ \E h \in Hook : hook[h].at = "held" \/ hook'[h].at = "held"]_adoptedVars
  BY <1>1
<1>3. QED
  BY <1>2, Invariance, PTL DEF AdoptedSpec, OnlyAGateRevives
=============================================================================
