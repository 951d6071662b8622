-------------------------- MODULE SessionViewProofs --------------------------
(***************************************************************************)
(* What holds of SessionView for every set of asks, every length of the    *)
(* relay's cache and every bound: a tab shows no verdict that nobody gave, *)
(* and forgets no ask it has shown.                                        *)
(***************************************************************************)
EXTENDS SessionView, SequenceTheorems, TLAPS

Status   == {"idle", "running", "awaiting", "paused", "ended"}
Decision == {"none", "open", "allow", "deny"}

(* What a queue may hold, when the verdicts `vs` have been given and the daemon's record of *)
(* the asks is `asks`.                                                                      *)

\* A decision of an ask that somebody allowed, if it reads allow.
Granted(a, d, vs) == d = "allow" => <<a, "allow">> \in vs

\* Frames from the tab.
UpFrames(vs) ==
  {Subscribe} \cup {f \in [type : {"decide"}, ask : Ask, verdict : Verdict] :
                      <<f.ask, f.verdict>> \in vs}

\* Frames the relay keeps.
RingFrames(asks) ==
  {f \in [type : {"ask"}, sealed : {TRUE}, ask : Ask] : asks[f.ask] # "none"}
    \cup [type : {"message", "ended"}, sealed : BOOLEAN]

Histories(vs, asks) ==
  {f \in [type : {"history"}, sealed : BOOLEAN, held : BOOLEAN, status : Status,
          ask : [Ask -> Decision]] :
     \A a \in Ask : /\ f.ask[a] # "none" => asks[a] # "none"
                    /\ Granted(a, f.ask[a], vs)}

Keys == [type : {"key"}, for : {"me", "theirs"}]

\* Frames to the tab.
DownFrames(vs, asks) ==
  RingFrames(asks) \cup Histories(vs, asks) \cup Keys
    \cup [type : {"presence"}, online : BOOLEAN] \cup [type : {"error"}]

Caches(asks) == [key : {"none", "me", "theirs"}, ring : Seq(RingFrames(asks))]

Views(vs, asks) ==
  {v \in [known : BOOLEAN, filled : BOOLEAN, status : Status, shown : [Ask -> SUBSET Face]] :
     \A a \in Ask : /\ v.shown[a] \cap {"approving", "approved"} # {} => <<a, "allow">> \in vs
                    /\ v.shown[a] # {} => v.filled /\ asks[a] # "none"}

\* A frame that shows the ask, and a backfill that does not know of it.
Shows(f, a) == \/ f.type = "ask" /\ f.ask = a
               \/ f.type = "history" /\ f.ask[a] # "none"
Blank(f, a) == f.type = "history" /\ f.held /\ f.ask[a] = "none"

\* Whatever is on its way, kept or shown was asked, and allowed by somebody if it reads so.
Honest ==
  /\ chain \in Seq(UpFrames(voted)) /\ up \in Seq(UpFrames(voted))
  /\ down \in Seq(DownFrames(voted, rec.ask))
  /\ cache \in Caches(rec.ask)
  /\ view \in Views(voted, rec.ask)
  /\ rec \in [held : BOOLEAN, status : Status, ask : [Ask -> Decision]]
  /\ \A a \in Ask : Granted(a, rec.ask[a], voted)
  /\ online \in BOOLEAN

\* The relay marks the row for a verdict, the one at the head of the queue.
MarksAVerdict == marking # "no" => up # <<>> /\ Head(up).type = "decide"

\* A backfill that does not know of an ask comes before everything that shows it.
InOrder ==
  \A j \in 1 .. Len(down), a \in Ask : Blank(down[j], a) =>
    view.shown[a] = {} /\ \A i \in 1 .. j - 1 : ~Shows(down[i], a)

VInv == Honest /\ MarksAVerdict /\ InOrder

-----------------------------------------------------------------------------
(* Sequences *)

LEMMA SeqGrows ==
  ASSUME NEW S, NEW T, S \subseteq T
  PROVE  Seq(S) \subseteq Seq(T)
<1> SUFFICES ASSUME NEW q \in Seq(S) PROVE q \in Seq(T)
  OBVIOUS
<1>1. PICK n \in Nat : q \in [1 .. n -> S]
  BY SeqDef
<1>2. q \in [1 .. n -> T]
  BY <1>1
<1>3. QED
  BY <1>2, SeqDef

LEMMA Ends ==
  ASSUME NEW S, NEW q \in Seq(S), q # <<>>
  PROVE  /\ Head(q) \in S /\ Head(q) = q[1] /\ Tail(q) \in Seq(S)
         /\ Len(q) \in Nat \ {0} /\ Len(Tail(q)) = Len(q) - 1
         /\ \A i \in 1 .. Len(q) - 1 : Tail(q)[i] = q[i + 1]
<1>1. /\ Head(q) \in S /\ Tail(q) \in Seq(S) /\ Len(Tail(q)) = Len(q) - 1
      /\ \A i \in 1 .. Len(Tail(q)) : Tail(q)[i] = q[i + 1]
  BY HeadTailProperties
<1>2. Len(q) \in Nat \ {0} /\ Head(q) = q[1]
  BY EmptySeq, LenProperties
<1>3. QED
  BY <1>1, <1>2

LEMMA Grown ==
  ASSUME NEW S, NEW q \in Seq(S), NEW e \in S
  PROVE  /\ Append(q, e) \in Seq(S) /\ Append(q, e) # <<>>
         /\ q # <<>> => Head(Append(q, e)) = Head(q)
<1>1. /\ Append(q, e) \in Seq(S) /\ Append(q, e) # <<>>
      /\ Len(Append(q, e)) = Len(q) + 1
      /\ \A i \in 1 .. Len(q) : Append(q, e)[i] = q[i]
  BY AppendProperties
<1>2. ASSUME q # <<>> PROVE Head(Append(q, e)) = Head(q)
  <2>1. 1 \in 1 .. Len(q)
    BY <1>2, Ends
  <2>2. Head(Append(q, e)) = Append(q, e)[1] /\ Head(q) = q[1]
    BY <1>1, <1>2, Ends
  <2>3. QED
    BY <1>1, <2>1, <2>2
<1>3. QED
  BY <1>1, <1>2

-----------------------------------------------------------------------------
(* The sets of frames grow with the verdicts given and the asks recorded *)

LEMMA FramesGrow ==
  ASSUME NEW vs, NEW ws, vs \subseteq ws, NEW asks, NEW bsks,
         \A a \in Ask : asks[a] # "none" => bsks[a] # "none"
  PROVE  /\ UpFrames(vs) \subseteq UpFrames(ws)
         /\ RingFrames(asks) \subseteq RingFrames(bsks)
         /\ DownFrames(vs, asks) \subseteq DownFrames(ws, bsks)
         /\ Views(vs, asks) \subseteq Views(ws, bsks)
         /\ Caches(asks) \subseteq Caches(bsks)
<1>1. UpFrames(vs) \subseteq UpFrames(ws)
  BY DEF UpFrames
<1>2. RingFrames(asks) \subseteq RingFrames(bsks)
  BY DEF RingFrames
<1>3. Histories(vs, asks) \subseteq Histories(ws, bsks)
  BY DEF Histories, Granted
<1>4. DownFrames(vs, asks) \subseteq DownFrames(ws, bsks)
  BY <1>2, <1>3, Zenon DEF DownFrames
<1>5. Views(vs, asks) \subseteq Views(ws, bsks)
  BY DEF Views
<1>6. Seq(RingFrames(asks)) \subseteq Seq(RingFrames(bsks))
  BY <1>2, SeqGrows
<1>7. Caches(asks) \subseteq Caches(bsks)
  BY <1>6 DEF Caches
<1>8. QED
  BY <1>1, <1>2, <1>4, <1>5, <1>7

\* The daemon's record forgets no ask, and no verdict is taken back.
Onward ==
  /\ voted \subseteq voted'
  /\ rec' \in [held : BOOLEAN, status : Status, ask : [Ask -> Decision]]
  /\ \A a \in Ask : /\ rec.ask[a] # "none" => rec'.ask[a] # "none"
                    /\ Granted(a, rec'.ask[a], voted')

LEMMA Keeps ==
  ASSUME Honest, Onward
  PROVE  /\ chain \in Seq(UpFrames(voted')) /\ up \in Seq(UpFrames(voted'))
         /\ down \in Seq(DownFrames(voted', rec'.ask))
         /\ cache \in Caches(rec'.ask)
         /\ view \in Views(voted', rec'.ask)
<1>1. /\ UpFrames(voted) \subseteq UpFrames(voted')
      /\ DownFrames(voted, rec.ask) \subseteq DownFrames(voted', rec'.ask)
      /\ Views(voted, rec.ask) \subseteq Views(voted', rec'.ask)
      /\ Caches(rec.ask) \subseteq Caches(rec'.ask)
  BY FramesGrow DEF Onward
<1>2. /\ Seq(UpFrames(voted)) \subseteq Seq(UpFrames(voted'))
      /\ Seq(DownFrames(voted, rec.ask)) \subseteq Seq(DownFrames(voted', rec'.ask))
  BY <1>1, SeqGrows
<1>3. QED
  BY <1>1, <1>2 DEF Honest

\* Most steps leave the verdicts and the record alone.
LEMMA Stays ==
  ASSUME Honest, UNCHANGED <<voted, rec>>
  PROVE  Onward
  BY DEF Honest, Onward

-----------------------------------------------------------------------------
(* The reducer *)

LEMMA Confirming ==
  ASSUME NEW vs, NEW asks, NEW v \in Views(vs, asks)
  PROVE  /\ Confirm(v) \in Views(vs, asks)
         /\ Confirm(v).filled = v.filled /\ Confirm(v).status = v.status
         /\ \A a \in Ask : Confirm(v).shown[a] # {} <=> v.shown[a] # {}
<1> DEFINE Drawn == [a \in Ask |-> {Confirmed(d) : d \in v.shown[a]}]
<1>1. v \in [known : BOOLEAN, filled : BOOLEAN, status : Status, shown : [Ask -> SUBSET Face]]
  BY DEF Views
<1>2. Confirm(v) = [known |-> v.known, filled |-> v.filled, status |-> v.status, shown |-> Drawn]
  <2>1. Confirm(v) = [v EXCEPT !.shown = Drawn]
    BY DEF Confirm, EachFace
  <2>2. QED
    BY <1>1, <2>1
<1>3. \A d \in Face :
        /\ Confirmed(d) \in Face
        /\ Confirmed(d) \in {"approving", "approved"} => d \in {"approving", "approved"}
  BY DEF Confirmed, Face
<1>4. ASSUME NEW a \in Ask
      PROVE  /\ Drawn[a] \in SUBSET Face /\ (Drawn[a] # {} <=> v.shown[a] # {})
             /\ Drawn[a] \cap {"approving", "approved"} # {} =>
                  v.shown[a] \cap {"approving", "approved"} # {}
  <2>1. Drawn[a] = {Confirmed(d) : d \in v.shown[a]} /\ v.shown[a] \subseteq Face
    BY <1>1
  <2>2. QED
    BY <1>3, <2>1
<1>5. Drawn \in [Ask -> SUBSET Face]
  BY <1>4
<1> HIDE DEF Drawn
<1>6. QED
  BY <1>1, <1>2, <1>4, <1>5 DEF Views

LEMMA Undelivering ==
  ASSUME NEW vs, NEW asks, NEW v \in Views(vs, asks)
  PROVE  /\ Undelivered(v) \in Views(vs, asks)
         /\ Undelivered(v).filled = v.filled
         /\ \A a \in Ask : Undelivered(v).shown[a] # {} <=> v.shown[a] # {}
<1> DEFINE Drawn == [a \in Ask |-> {Reverted(d) : d \in v.shown[a]}]
           To    == IF v.status = "ended" THEN v.status ELSE "paused"
<1>1. v \in [known : BOOLEAN, filled : BOOLEAN, status : Status, shown : [Ask -> SUBSET Face]]
  BY DEF Views
<1>2. Undelivered(v) = [known |-> TRUE, filled |-> v.filled, status |-> To, shown |-> Drawn]
  <2>1. Undelivered(v) = [v EXCEPT !.known = TRUE, !.shown = Drawn, !.status = To]
    BY DEF Undelivered, EachFace
  <2>2. QED
    BY <1>1, <2>1
<1>3. \A d \in Face :
        /\ Reverted(d) \in Face
        /\ Reverted(d) \in {"approving", "approved"} => d \in {"approving", "approved"}
  BY DEF Reverted, Face
<1>4. ASSUME NEW a \in Ask
      PROVE  /\ Drawn[a] \in SUBSET Face /\ (Drawn[a] # {} <=> v.shown[a] # {})
             /\ Drawn[a] \cap {"approving", "approved"} # {} =>
                  v.shown[a] \cap {"approving", "approved"} # {}
  <2>1. Drawn[a] = {Reverted(d) : d \in v.shown[a]} /\ v.shown[a] \subseteq Face
    BY <1>1
  <2>2. QED
    BY <1>3, <2>1
<1>5. Drawn \in [Ask -> SUBSET Face] /\ To \in Status
  BY <1>1, <1>4 DEF Status
<1> HIDE DEF Drawn, To
<1>6. QED
  BY <1>1, <1>2, <1>4, <1>5 DEF Views

LEMMA Pausing ==
  ASSUME NEW vs, NEW asks, NEW v \in Views(vs, asks)
  PROVE  /\ Pause(v) \in Views(vs, asks)
         /\ Pause(v).filled = v.filled /\ Pause(v).shown = v.shown
  BY DEF Views, Pause, Status

LEMMA Reseeding ==
  ASSUME NEW vs, NEW asks, NEW v \in Views(vs, asks), NEW f \in Histories(vs, asks)
  PROVE  /\ Reseed(v, f) \in Views(vs, asks)
         /\ v.filled => Reseed(v, f).filled
         /\ \A a \in Ask :
              /\ Reseed(v, f).shown[a] # {} => v.shown[a] # {} \/ Shows(f, a)
              /\ v.shown[a] # {} => Reseed(v, f).shown[a] # {} \/ Blank(f, a)
<1> DEFINE Drawn == [a \in Ask |-> IF f.held THEN FaceOf(f.ask[a]) ELSE {}]
           To    == IF v.status = "ended" THEN v.status ELSE f.status
<1>1. /\ v \in [known : BOOLEAN, filled : BOOLEAN, status : Status, shown : [Ask -> SUBSET Face]]
      /\ f.type = "history" /\ f.held \in BOOLEAN /\ f.status \in Status
      /\ \A a \in Ask : /\ f.ask[a] \in Decision /\ Granted(a, f.ask[a], vs)
                        /\ f.ask[a] # "none" => asks[a] # "none"
  BY DEF Views, Histories
<1>2. CASE ~f.held /\ v.filled
  <2>1. Reseed(v, f) = [v EXCEPT !.status = To]
    BY <1>2 DEF Reseed
  <2>2. To \in Status
    BY <1>1
  <2>3. QED
    BY <2>1, <2>2 DEF Views
<1>3. CASE ~(~f.held /\ v.filled)
  <2>1. Reseed(v, f) = [known |-> TRUE, filled |-> f.held, status |-> f.status, shown |-> Drawn]
    <3>1. Reseed(v, f) = [v EXCEPT !.known = TRUE, !.filled = f.held, !.status = f.status,
                                   !.shown = Drawn]
      BY <1>3 DEF Reseed
    <3>2. QED
      BY <1>1, <3>1
  <2>2. ASSUME NEW a \in Ask
        PROVE  /\ Drawn[a] \in SUBSET Face
               /\ Drawn[a] # {} <=> f.held /\ f.ask[a] # "none"
               /\ Drawn[a] \cap {"approving", "approved"} # {} => f.held /\ f.ask[a] = "allow"
    BY <1>1 DEF FaceOf, Decision, Face
  <2>3. Drawn \in [Ask -> SUBSET Face]
    BY <2>2
  <2> HIDE DEF Drawn
  <2>4. Reseed(v, f) \in Views(vs, asks)
    BY <1>1, <2>1, <2>2, <2>3 DEF Views, Granted
  <2>5. \A a \in Ask : v.shown[a] # {} => v.filled
    BY DEF Views
  <2>6. QED
    BY <1>1, <1>3, <2>1, <2>2, <2>4, <2>5 DEF Shows, Blank
<1>4. QED
  BY <1>2, <1>3

\* The frames that change the transcript.
Entries(vs, asks) == RingFrames(asks) \cup Histories(vs, asks)

\* What a frame makes of a view: the view stays honest, shows nothing the frame does not show,
\* and loses nothing but to a backfill that does not know of it.
Becomes(v, w, f, vs, asks) ==
  /\ w \in Views(vs, asks)
  /\ v.filled => w.filled
  /\ \A a \in Ask : /\ w.shown[a] # {} => v.shown[a] # {} \/ Shows(f, a)
                    /\ v.shown[a] # {} => w.shown[a] # {} \/ Blank(f, a)

LEMMA Applying ==
  ASSUME NEW vs, NEW asks, NEW v \in Views(vs, asks), NEW f \in Entries(vs, asks)
  PROVE  Becomes(v, Apply(v, f), f, vs, asks)
<1> DEFINE c == Confirm(v)
<1>1. /\ c \in Views(vs, asks) /\ c.filled = v.filled
      /\ \A a \in Ask : c.shown[a] # {} <=> v.shown[a] # {}
  BY Confirming
<1>2. c \in [known : BOOLEAN, filled : BOOLEAN, status : Status, shown : [Ask -> SUBSET Face]]
  BY <1>1 DEF Views
<1> HIDE DEF c
<1>3. CASE f.type = "ask"
  <2>1. f.ask \in Ask /\ asks[f.ask] # "none"
    BY <1>3 DEF Entries, RingFrames, Histories
  <2> DEFINE Drawn == [c.shown EXCEPT ![f.ask] = @ \cup {"pending"}]
  <2>2. Apply(v, f) = [known |-> TRUE, filled |-> TRUE, status |-> "awaiting", shown |-> Drawn]
    <3>1. Apply(v, f) = [c EXCEPT !.known = TRUE, !.filled = TRUE, !.status = "awaiting",
                                  !.shown[f.ask] = @ \cup {"pending"}]
      BY <1>3 DEF Apply, c
    <3>2. QED
      BY <1>2, <3>1
  <2>3. /\ Drawn \in [Ask -> SUBSET Face]
        /\ \A a \in Ask : Drawn[a] = IF a = f.ask THEN c.shown[a] \cup {"pending"} ELSE c.shown[a]
    BY <1>2, <2>1 DEF Face
  <2> HIDE DEF Drawn
  <2>4. Apply(v, f) \in Views(vs, asks)
    BY <1>1, <2>1, <2>2, <2>3 DEF Views, Status
  <2>5. QED
    BY <1>1, <1>3, <2>2, <2>3, <2>4 DEF Becomes, Shows
<1>4. CASE f.type = "message"
  <2>1. Apply(v, f) = [c EXCEPT !.known = TRUE, !.filled = TRUE]
    BY <1>4 DEF Apply, c
  <2>2. QED
    BY <1>1, <1>2, <2>1 DEF Views, Becomes
<1>5. CASE f.type = "ended"
  <2> DEFINE Drawn == [a \in Ask |-> {Closed(d) : d \in c.shown[a]}]
  <2>1. Apply(v, f) = [known |-> TRUE, filled |-> c.filled, status |-> "ended", shown |-> Drawn]
    <3>1. Apply(v, f) = [c EXCEPT !.known = TRUE, !.status = "ended", !.shown = Drawn]
      BY <1>5 DEF Apply, c, EachFace
    <3>2. QED
      BY <1>2, <3>1
  <2>2. \A d \in Face :
          /\ Closed(d) \in Face
          /\ Closed(d) \in {"approving", "approved"} => d \in {"approving", "approved"}
    BY DEF Closed, Face
  <2>3. ASSUME NEW a \in Ask
        PROVE  /\ Drawn[a] \in SUBSET Face /\ (Drawn[a] # {} <=> c.shown[a] # {})
               /\ Drawn[a] \cap {"approving", "approved"} # {} =>
                    c.shown[a] \cap {"approving", "approved"} # {}
    <3>1. Drawn[a] = {Closed(d) : d \in c.shown[a]} /\ c.shown[a] \subseteq Face
      BY <1>2
    <3>2. QED
      BY <2>2, <3>1
  <2>4. Drawn \in [Ask -> SUBSET Face]
    BY <2>3
  <2> HIDE DEF Drawn
  <2>5. Apply(v, f) \in Views(vs, asks)
    BY <1>1, <2>1, <2>3, <2>4 DEF Views, Status
  <2>6. QED
    BY <1>1, <2>1, <2>3, <2>5 DEF Becomes
<1>6. CASE f.type = "history"
  <2>1. f \in Histories(vs, asks)
    BY <1>6 DEF Entries, RingFrames
  <2>2. Apply(v, f) = Reseed(c, f)
    BY <1>6 DEF Apply, c
  <2>3. QED
    BY <1>1, <2>1, <2>2, Reseeding DEF Becomes
<1>7. QED
  BY <1>3, <1>4, <1>5, <1>6 DEF Entries, RingFrames, Histories

LEMMA ApplyingSealed ==
  ASSUME NEW vs, NEW asks, NEW v \in Views(vs, asks), NEW f \in Entries(vs, asks)
  PROVE  Becomes(v, ApplySealed(v, f), f, vs, asks)
  BY Applying, Confirming DEF ApplySealed, Becomes

-----------------------------------------------------------------------------
(* Frames on their way to the tab *)

\* What the relay and the daemon may add: no backfill is behind the daemon's record.
News(vs, asks) ==
  {f \in DownFrames(vs, asks) : \A a \in Ask : Blank(f, a) => asks[a] = "none"}

LEMMA Taken ==
  ASSUME Honest, InOrder, down # <<>>, down' = Tail(down),
         \A a \in Ask : view'.shown[a] # {} => view.shown[a] # {} \/ Shows(Head(down), a)
  PROVE  InOrder'
<1>1. /\ Head(down) = down[1] /\ Len(down) \in Nat \ {0} /\ Len(Tail(down)) = Len(down) - 1
      /\ \A i \in 1 .. Len(down) - 1 : Tail(down)[i] = down[i + 1]
  BY Ends DEF Honest
<1> SUFFICES ASSUME NEW j \in 1 .. Len(down'), NEW a \in Ask, Blank(down'[j], a)
             PROVE  view'.shown[a] = {} /\ \A i \in 1 .. j - 1 : ~Shows(down'[i], a)
  BY DEF InOrder
<1>2. j + 1 \in 1 .. Len(down) /\ Blank(down[j + 1], a)
  BY <1>1
<1>3. view.shown[a] = {} /\ \A i \in 1 .. j : ~Shows(down[i], a)
  BY <1>1, <1>2 DEF InOrder
<1>4. \A i \in 1 .. j - 1 : down'[i] = down[i + 1] /\ i + 1 \in 1 .. j
  BY <1>1
<1>5. 1 \in 1 .. j
  OBVIOUS
<1>6. QED
  BY <1>1, <1>3, <1>4, <1>5

LEMMA Reaches ==
  ASSUME Honest, InOrder, Onward, UNCHANGED view,
         NEW frames \in Seq(News(voted', rec'.ask)), down' = Reaching(frames)
  PROVE  down' \in Seq(DownFrames(voted', rec'.ask)) /\ InOrder'
<1>1. down \in Seq(DownFrames(voted', rec'.ask))
  BY Keeps
<1>2. CASE down' = down
  BY <1>1, <1>2 DEF InOrder
<1>3. CASE down' = down \o frames
  <2>1. frames \in Seq(DownFrames(voted', rec'.ask))
    <3>1. News(voted', rec'.ask) \subseteq DownFrames(voted', rec'.ask)
      BY DEF News
    <3>2. QED
      BY <3>1, SeqGrows
  <2>2. /\ down' \in Seq(DownFrames(voted', rec'.ask))
        /\ Len(down') = Len(down) + Len(frames)
        /\ \A i \in 1 .. Len(down) : down'[i] = down[i]
        /\ \A i \in Len(down) + 1 .. Len(down) + Len(frames) : down'[i] = frames[i - Len(down)]
    BY <1>1, <1>3, <2>1, ConcatProperties
  <2>3. Len(down) \in Nat /\ Len(frames) \in Nat
    BY <1>1, <2>1, LenProperties
  <2>4. \A i \in 1 .. Len(frames) : frames[i] \in News(voted', rec'.ask)
    BY <2>3, LenProperties
  <2>5. \A i \in 1 .. Len(down) : down[i] \in DownFrames(voted', rec'.ask)
    BY <1>1, LenProperties
  <2> SUFFICES ASSUME NEW j \in 1 .. Len(down'), NEW a \in Ask, Blank(down'[j], a)
               PROVE  view'.shown[a] = {} /\ \A i \in 1 .. j - 1 : ~Shows(down'[i], a)
    BY <2>2 DEF InOrder
  <2>6. CASE j \in 1 .. Len(down)
    <3>1. Blank(down[j], a) /\ \A i \in 1 .. j - 1 : i \in 1 .. Len(down) /\ down'[i] = down[i]
      BY <2>2, <2>3, <2>6
    <3>2. QED
      BY <2>6, <3>1 DEF InOrder
  <2>7. CASE j \notin 1 .. Len(down)
    <3>1. j \in Len(down) + 1 .. Len(down) + Len(frames)
      BY <2>2, <2>3, <2>7
    <3>2. down'[j] \in News(voted', rec'.ask)
      BY <2>2, <2>3, <2>4, <3>1
    <3>3. rec'.ask[a] = "none"
      BY <3>2 DEF News
    <3>4. \A i \in 1 .. j - 1 : down'[i] \in DownFrames(voted', rec'.ask)
      BY <2>2, <2>3, LenProperties
    <3>5. \A f \in DownFrames(voted', rec'.ask) : ~Shows(f, a)
      BY <3>3 DEF DownFrames, RingFrames, Histories, Keys, Shows
    <3>6. view.shown[a] = {}
      BY <3>3, Keeps DEF Views
    <3>7. QED
      BY <3>4, <3>5, <3>6
  <2>8. QED
    BY <2>2, <2>6, <2>7
<1>4. QED
  BY <1>2, <1>3 DEF Reaching

LEMMA Caching ==
  ASSUME NEW vs, NEW asks, NEW c \in Caches(asks), NEW f \in DownFrames(vs, asks)
  PROVE  Cached(c, f) \in Caches(asks)
<1>1. c \in [key : {"none", "me", "theirs"}, ring : Seq(RingFrames(asks))]
  BY DEF Caches
<1>2. CASE f.type = "key"
  <2>1. f.for \in {"me", "theirs"}
    BY <1>2 DEF DownFrames, RingFrames, Histories, Keys
  <2>2. QED
    BY <1>1, <1>2, <2>1 DEF Cached, Caches
<1>3. CASE f.type \in {"ask", "message", "ended"}
  <2>1. f \in RingFrames(asks)
    BY <1>3 DEF DownFrames, RingFrames, Histories, Keys
  <2>2. Append(c.ring, f) \in Seq(RingFrames(asks)) /\ Append(c.ring, f) # <<>>
    BY <1>1, <2>1, Grown
  <2>3. Push(c.ring, f) \in Seq(RingFrames(asks))
    BY <2>2, Ends DEF Push
  <2>4. Cached(c, f) = [c EXCEPT !.ring = Push(c.ring, f)]
    BY <1>3 DEF Cached
  <2>5. QED
    BY <1>1, <2>3, <2>4 DEF Caches
<1>4. CASE f.type \notin {"key", "ask", "message", "ended"}
  BY <1>4 DEF Cached
<1>5. QED
  BY <1>2, <1>3, <1>4

LEMMA CachingAll ==
  ASSUME NEW vs, NEW asks, NEW c \in Caches(asks), NEW frames \in Seq(News(vs, asks)),
         Len(frames) \in {1, 2}
  PROVE  CachedAll(c, frames) \in Caches(asks)
<1>1. \A i \in 1 .. Len(frames) : frames[i] \in DownFrames(vs, asks)
  BY LenProperties DEF News
<1>2. Cached(c, frames[1]) \in Caches(asks)
  BY <1>1, Caching
<1>3. Len(frames) = 2 => Cached(Cached(c, frames[1]), frames[2]) \in Caches(asks)
  BY <1>1, <1>2, Caching
<1>4. QED
  BY <1>2, <1>3 DEF CachedAll

\* A frame or two of the daemon's, cached and forwarded.
LEMMA Sending ==
  ASSUME Honest, InOrder, Onward, UNCHANGED view,
         NEW frames \in Seq(News(voted', rec'.ask)), Len(frames) \in {1, 2}, Sends(frames)
  PROVE  /\ down' \in Seq(DownFrames(voted', rec'.ask)) /\ cache' \in Caches(rec'.ask)
         /\ InOrder'
<1>1. CASE online
  <2>1. down' \in Seq(DownFrames(voted', rec'.ask)) /\ InOrder'
    BY <1>1, Reaches DEF Sends
  <2>2. cache' \in Caches(rec'.ask)
    BY <1>1, Keeps, CachingAll DEF Sends
  <2>3. QED
    BY <2>1, <2>2
<1>2. CASE ~online
  BY <1>2, Keeps DEF Sends, InOrder
<1>3. QED
  BY <1>1, <1>2

LEMMA OneOf ==
  ASSUME NEW S, NEW f \in S
  PROVE  <<f>> \in Seq(S) /\ Len(<<f>>) = 1
  OBVIOUS

LEMMA TwoOf ==
  ASSUME NEW S, NEW f \in S, NEW g \in S
  PROVE  <<f>> \o <<g>> \in Seq(S) /\ Len(<<f>> \o <<g>>) = 2
  OBVIOUS

\* A backfill of the record tells what it holds.
LEMMA Backfilled ==
  ASSUME NEW vs, NEW r \in [held : BOOLEAN, status : Status, ask : [Ask -> Decision]],
         \A a \in Ask : Granted(a, r.ask[a], vs)
  PROVE  History(r) \in News(vs, r.ask)
<1>1. History(r) \in Histories(vs, r.ask)
  BY DEF History, Histories, Granted, Status, Decision
<1>2. \A a \in Ask : Blank(History(r), a) => r.ask[a] = "none"
  BY DEF History, Blank
<1>3. QED
  BY <1>1, <1>2 DEF News, DownFrames

LEMMA KeyIsNews ==
  ASSUME NEW vs, NEW asks, NEW who \in {"me", "theirs"}
  PROVE  Key(who) \in News(vs, asks)
  BY DEF Key, News, DownFrames, Keys, Blank

LEMMA PlainNews ==
  ASSUME NEW vs, NEW asks
  PROVE  /\ RingFrames(asks) \subseteq News(vs, asks)
         /\ [type |-> "error"] \in News(vs, asks)
         /\ \A b \in BOOLEAN : [type |-> "presence", online |-> b] \in News(vs, asks)
<1>1. RingFrames(asks) \subseteq News(vs, asks)
  BY DEF RingFrames, News, DownFrames, Blank
<1>2. [type |-> "error"] \in News(vs, asks)
  BY DEF News, DownFrames, Blank
<1>3. \A b \in BOOLEAN : [type |-> "presence", online |-> b] \in News(vs, asks)
  BY DEF News, DownFrames, Blank
<1>4. QED
  BY <1>1, <1>2, <1>3

LEMMA Backfilling ==
  ASSUME Honest, NEW who \in {"me", "theirs"}
  PROVE  Backfill(who) \in Seq(News(voted, rec.ask)) /\ Len(Backfill(who)) \in {1, 2}
<1>1. History(rec) \in News(voted, rec.ask) /\ Key(who) \in News(voted, rec.ask)
  BY Backfilled, KeyIsNews DEF Honest
<1>2. CASE rec.held
  BY <1>1, <1>2, TwoOf DEF Backfill
<1>3. CASE ~rec.held
  <2>1. Backfill(who) = <<History(rec)>>
    BY <1>1, <1>3 DEF Backfill
  <2>2. QED
    BY <1>1, <2>1, OneOf
<1>4. QED
  BY <1>2, <1>3

LEMMA Replaying ==
  ASSUME Honest
  PROVE  Replay \in Seq(News(voted, rec.ask))
<1>1. cache.ring \in Seq(News(voted, rec.ask))
  <2>1. cache.ring \in Seq(RingFrames(rec.ask))
    BY DEF Honest, Caches
  <2>2. QED
    BY <2>1, PlainNews, SeqGrows
<1>2. ASSUME cache.key # "none" PROVE <<Key(cache.key)>> \in Seq(News(voted, rec.ask))
  BY <1>2, KeyIsNews, OneOf DEF Honest, Caches
<1>3. <<>> \in Seq(News(voted, rec.ask))
  BY EmptySeq
<1>4. QED
  BY <1>1, <1>2, <1>3, ConcatProperties DEF Replay

LEMMA Settling ==
  ASSUME Honest, voted \subseteq voted', NEW a \in Ask, NEW d \in Verdict,
         Granted(a, d, voted'), rec' = Settled(a, d)
  PROVE  Onward
<1>1. /\ rec \in [held : BOOLEAN, status : Status, ask : [Ask -> Decision]]
      /\ \A b \in Ask : Granted(b, rec.ask[b], voted)
  BY DEF Honest
<1>2. rec' = [held |-> rec.held, status |-> "running", ask |-> [rec.ask EXCEPT ![a] = d]]
  BY <1>1 DEF Settled
<1>3. d \in Decision /\ d # "none" /\ "running" \in Status
  BY DEF Verdict, Decision, Status
<1>4. QED
  BY <1>1, <1>2, <1>3 DEF Onward, Granted

LEMMA Deciding ==
  ASSUME Honest, InOrder, voted \subseteq voted', NEW a \in Ask, NEW d \in Verdict,
         <<a, d>> \in voted', Decide(a, d), UNCHANGED view
  PROVE  /\ Onward
         /\ down' \in Seq(DownFrames(voted', rec'.ask)) /\ cache' \in Caches(rec'.ask)
         /\ InOrder'
<1>1. CASE rec.held /\ rec.ask[a] = "open"
  <2>1. rec' = Settled(a, d) /\ UNCHANGED <<cache, down>>
    BY <1>1 DEF Decide
  <2>2. Onward
    BY <2>1, Settling DEF Granted
  <2>3. QED
    BY <2>1, <2>2, Keeps DEF InOrder
<1>2. CASE ~(rec.held /\ rec.ask[a] = "open")
  <2>1. rec' = rec /\ Sends(<<History(rec)>>)
    BY <1>2 DEF Decide, Reconciliation
  <2>2. Onward
    BY <2>1 DEF Onward, Honest, Granted
  <2>3. History(rec) \in News(voted', rec'.ask)
    BY <2>1, <2>2, Backfilled DEF Honest, Onward
  <2>4. <<History(rec)>> \in Seq(News(voted', rec'.ask)) /\ Len(<<History(rec)>>) = 1
    BY <2>3, OneOf
  <2>5. QED
    BY <2>1, <2>2, <2>4, Sending
<1>3. QED
  BY <1>1, <1>2

-----------------------------------------------------------------------------
(* The inductive invariant *)

LEMMA InitVInv == Init => VInv
<1> SUFFICES ASSUME Init PROVE VInv
  OBVIOUS
<1>1. /\ <<>> \in Seq(UpFrames(voted)) /\ <<>> \in Seq(DownFrames(voted, rec.ask))
      /\ <<>> \in Seq(RingFrames(rec.ask)) /\ Len(down) = 0
  BY EmptySeq DEF Init
<1>2. cache \in Caches(rec.ask)
  <2>1. /\ [key |-> "none", ring |-> <<>>] \in Caches(rec.ask)
        /\ [key |-> "theirs", ring |-> <<>>] \in Caches(rec.ask)
    BY <1>1 DEF Caches
  <2>2. [NoCache EXCEPT !.key = "theirs"] = [key |-> "theirs", ring |-> <<>>]
    BY DEF NoCache
  <2>3. QED
    BY <2>1, <2>2 DEF Init, NoCache
<1>3. view \in Views(voted, rec.ask)
  BY DEF Init, NoView, Views, Status
<1>4. rec \in [held : BOOLEAN, status : Status, ask : [Ask -> Decision]]
  BY DEF Init, Status, Decision
<1>5. QED
  BY <1>1, <1>2, <1>3, <1>4 DEF Init, VInv, Honest, MarksAVerdict, InOrder, Granted

\* The tab takes a frame off the queue, and perhaps asks for the session anew.
LEMMA Popping ==
  ASSUME VInv, NEW extra \in {<<>>, <<Subscribe>>}, Pop(extra), rec' = rec,
         view' \in Views(voted, rec.ask),
         \A a \in Ask : view'.shown[a] # {} => view.shown[a] # {} \/ Shows(Head(down), a)
  PROVE  VInv'
<1>1. /\ down # <<>> /\ down' = Tail(down) /\ chain' = chain \o extra
      /\ UNCHANGED <<up, marking, cache, voted, online>>
  BY DEF Pop
<1>2. extra \in Seq(UpFrames(voted))
  BY OneOf, EmptySeq DEF UpFrames
<1>3. chain' \in Seq(UpFrames(voted))
  BY <1>1, <1>2, ConcatProperties DEF VInv, Honest
<1>4. down' \in Seq(DownFrames(voted, rec.ask))
  BY <1>1, Ends DEF VInv, Honest
<1>5. Honest'
  BY <1>1, <1>3, <1>4 DEF VInv, Honest
<1>6. MarksAVerdict'
  BY <1>1 DEF VInv, MarksAVerdict
<1>7. InOrder'
  BY <1>1, Taken DEF VInv
<1>8. QED
  BY <1>5, <1>6, <1>7 DEF VInv

LEMMA TabStep ==
  ASSUME VInv
  PROVE  /\ \A a \in Ask, d \in Verdict : Vote(a, d) => VInv'
         /\ Flush \/ TakePresence \/ TakeError \/ TakeKey \/ TakeFrame => VInv'
<1> USE DEF VInv
<1>1. ASSUME NEW a \in Ask, NEW d \in Verdict, Vote(a, d) PROVE VInv'
  <2> DEFINE f == [type |-> "decide", ask |-> a, verdict |-> d]
             to == IF d = "allow" THEN "approving" ELSE "rejecting"
  <2>1. /\ voted' = voted \cup {<<a, d>>} /\ rec' = rec /\ "pending" \in view.shown[a]
        /\ view' = [view EXCEPT !.status = "running", !.shown[a] = {to}]
        /\ chain' = Append(chain, f) /\ UNCHANGED <<up, marking, down, cache, online>>
    BY <1>1 DEF Vote, daemonVars
  <2>2. Onward
    BY <2>1 DEF Onward, Honest, Granted
  <2>3. f \in UpFrames(voted')
    BY <2>1 DEF UpFrames
  <2>4. chain' \in Seq(UpFrames(voted'))
    BY <2>1, <2>2, <2>3, Keeps, Grown
  <2>5. /\ view \in [known : BOOLEAN, filled : BOOLEAN, status : Status,
                     shown : [Ask -> SUBSET Face]]
        /\ view \in Views(voted', rec.ask) /\ view.filled /\ rec.ask[a] # "none"
    BY <2>1, <2>2, Keeps DEF Views
  <2>6. view' = [known |-> view.known, filled |-> view.filled, status |-> "running",
                 shown |-> [view.shown EXCEPT ![a] = {to}]]
    BY <2>1, <2>5
  <2>7. to \in Face /\ (to = "approving" => d = "allow") /\ to # "approved"
    BY DEF Face
  <2>8. <<a, d>> \in voted'
    BY <2>1
  <2> HIDE DEF to, f
  <2>9. view' \in Views(voted', rec.ask)
    BY <2>5, <2>6, <2>7, <2>8 DEF Views, Status
  <2>10. \A b \in Ask : view'.shown[b] # {} => view.shown[b] # {}
    BY <2>1, <2>5, <2>6
  <2>11. Honest'
    BY <2>1, <2>2, <2>4, <2>9, Keeps DEF Honest, Onward
  <2>12. MarksAVerdict' /\ InOrder'
    BY <2>1, <2>10 DEF MarksAVerdict, InOrder
  <2>13. QED
    BY <2>11, <2>12
<1>2. ASSUME Flush PROVE VInv'
  <2>1. /\ chain # <<>> /\ chain' = Tail(chain)
        /\ up' = (IF link = "live" THEN Append(up, Head(chain)) ELSE up)
        /\ UNCHANGED <<marking, down, rec, cache, view, voted, online>>
    BY <1>2 DEF Flush, daemonVars, histVars
  <2>2. chain' \in Seq(UpFrames(voted)) /\ Head(chain) \in UpFrames(voted)
    BY <2>1, Ends DEF Honest
  <2>3. up' \in Seq(UpFrames(voted)) /\ (up # <<>> => up' # <<>> /\ Head(up') = Head(up))
    BY <2>1, <2>2, Grown DEF Honest
  <2>4. Honest'
    BY <2>1, <2>2, <2>3 DEF Honest
  <2>5. MarksAVerdict' /\ InOrder'
    BY <2>1, <2>3 DEF MarksAVerdict, InOrder
  <2>6. QED
    BY <2>4, <2>5
<1>3. ASSUME TakePresence PROVE VInv'
  <2>1. PICK extra \in {<<>>, <<Subscribe>>} : Pop(extra)
    BY <1>3 DEF TakePresence
  <2>2. rec' = rec /\ (view' = view \/ view' = Pause(view))
    BY <1>3 DEF TakePresence, Pop, daemonVars
  <2>3. view' \in Views(voted, rec.ask) /\ view'.shown = view.shown
    BY <2>2, Pausing DEF Honest
  <2>4. QED
    BY <2>1, <2>2, <2>3, Popping
<1>4. ASSUME TakeError PROVE VInv'
  <2>1. Pop(<<>>) /\ rec' = rec /\ view' = Undelivered(view)
    BY <1>4 DEF TakeError, Pop, daemonVars
  <2>2. /\ view' \in Views(voted, rec.ask)
        /\ \A a \in Ask : view'.shown[a] # {} => view.shown[a] # {}
    BY <2>1, Undelivering DEF Honest
  <2>3. QED
    BY <2>1, <2>2, Popping
<1>5. ASSUME TakeKey PROVE VInv'
  <2>1. Pop(<<>>) /\ rec' = rec /\ view' = view
    BY <1>5 DEF TakeKey, Pop, daemonVars
  <2>2. QED
    BY <2>1, Popping DEF Honest
<1>6. ASSUME TakeFrame PROVE VInv'
  <2>1. PICK extra \in {<<>>, <<Subscribe>>} : Pop(extra)
    BY <1>6 DEF TakeFrame
  <2>2. /\ rec' = rec /\ down # <<>>
        /\ Head(down).type \in {"ask", "message", "ended", "history"}
        /\ view' = Apply(view, Head(down)) \/ view' = ApplySealed(view, Head(down))
    BY <1>6 DEF TakeFrame, Pop, daemonVars
  <2>3. Becomes(view, view', Head(down), voted, rec.ask)
    <3>1. Head(down) \in DownFrames(voted, rec.ask)
      BY <2>2, Ends DEF Honest
    <3>2. Head(down) \in Entries(voted, rec.ask)
      BY <2>2, <3>1 DEF DownFrames, Keys, Entries
    <3>3. QED
      BY <2>2, <3>2, Applying, ApplyingSealed DEF Honest
  <2>4. QED
    BY <2>1, <2>2, <2>3, Popping DEF Becomes
<1>7. QED
  BY <1>1, <1>2, <1>3, <1>4, <1>5, <1>6

LEMMA LinkStep ==
  ASSUME VInv
  PROVE  LinkDies \/ LinkCloses \/ Handshake \/ Reload => VInv'
<1>0. /\ <<>> \in Seq(UpFrames(voted)) /\ <<>> \in Seq(DownFrames(voted, rec.ask))
      /\ Len(<<>>) = 0
  BY EmptySeq
<1>1. ASSUME UNCHANGED <<marking, cache, rec, voted, online>>, down' = <<>>,
             up' = IF marking = "no" THEN <<>> ELSE <<Head(up)>>,
             chain' \in Seq(UpFrames(voted)), view' \in Views(voted, rec.ask)
      PROVE  VInv'
  <2>1. marking # "no" => Head(up) \in UpFrames(voted)
    BY Ends DEF VInv, Honest, MarksAVerdict
  <2>2. up' \in Seq(UpFrames(voted)) /\ (marking # "no" => up' # <<>> /\ Head(up') = Head(up))
    BY <1>0, <1>1, <2>1, OneOf
  <2>3. Honest'
    BY <1>0, <1>1, <2>2 DEF VInv, Honest
  <2>4. MarksAVerdict' /\ InOrder'
    BY <1>0, <1>1, <2>2 DEF VInv, MarksAVerdict, InOrder
  <2>5. QED
    BY <2>3, <2>4 DEF VInv
<1>2. ASSUME LinkDies PROVE VInv'
  <2>1. /\ UNCHANGED <<marking, cache, rec, voted, online, chain, view>> /\ down' = <<>>
        /\ up' = IF marking = "no" THEN <<>> ELSE <<Head(up)>>
    BY <1>2 DEF LinkDies, daemonVars, histVars
  <2>2. QED
    BY <1>1, <2>1 DEF VInv, Honest
<1>3. ASSUME LinkCloses PROVE VInv'
  BY <1>3 DEF LinkCloses, daemonVars, histVars, VInv, Honest, MarksAVerdict, InOrder
<1>4. ASSUME Handshake PROVE VInv'
  <2>1. /\ UNCHANGED <<up, marking, cache, rec, voted, online, view>>
        /\ down' = <<[type |-> "presence", online |-> online]>>
        /\ chain' = Append(chain, Subscribe)
    BY <1>4 DEF Handshake, daemonVars, histVars
  <2>2. chain' \in Seq(UpFrames(voted))
    BY <2>1, Grown DEF VInv, Honest, UpFrames
  <2>3. [type |-> "presence", online |-> online] \in DownFrames(voted, rec.ask)
    BY DEF VInv, Honest, DownFrames
  <2>4. down' \in Seq(DownFrames(voted, rec.ask)) /\ Len(down') = 1
    BY <2>1, <2>3, OneOf
  <2>5. Honest'
    BY <2>1, <2>2, <2>4 DEF VInv, Honest
  <2>6. down'[1].type = "presence"
    BY <2>1
  <2>7. MarksAVerdict' /\ InOrder'
    BY <2>1, <2>4, <2>6 DEF VInv, MarksAVerdict, InOrder, Blank
  <2>8. QED
    BY <2>5, <2>7 DEF VInv
<1>5. ASSUME Reload PROVE VInv'
  <2>1. /\ UNCHANGED <<marking, cache, rec, voted, online>> /\ down' = <<>> /\ chain' = <<>>
        /\ up' = (IF marking = "no" THEN <<>> ELSE <<Head(up)>>) /\ view' = NoView
    BY <1>5 DEF Reload, daemonVars, histVars
  <2>2. NoView \in Views(voted, rec.ask)
    BY DEF NoView, Views, Status
  <2>3. QED
    BY <1>0, <1>1, <2>1, <2>2
<1>6. QED
  BY <1>2, <1>3, <1>4, <1>5

\* A step that adds to what is on its way to the tab.
LEMMA Adding ==
  ASSUME VInv, Onward, UNCHANGED <<view, chain>>, up' \in Seq(UpFrames(voted')),
         MarksAVerdict', online' \in BOOLEAN,
         down' \in Seq(DownFrames(voted', rec'.ask)), cache' \in Caches(rec'.ask), InOrder'
  PROVE  VInv'
<1>1. view \in Views(voted', rec'.ask) /\ chain \in Seq(UpFrames(voted'))
  BY Keeps DEF VInv
<1>2. Honest'
  BY <1>1 DEF Honest, Onward
<1>3. QED
  BY <1>2 DEF VInv

LEMMA RelayStep ==
  ASSUME VInv
  PROVE  RouteSubscribe \/ RouteVerdict \/ ForwardVerdict \/ Evict => VInv'
<1>0. /\ up # <<>> => Tail(up) \in Seq(UpFrames(voted)) /\ Head(up) \in UpFrames(voted)
      /\ up \in Seq(UpFrames(voted)) /\ cache \in Caches(rec.ask) /\ online \in BOOLEAN
      /\ Honest /\ InOrder /\ MarksAVerdict
  BY Ends DEF VInv, Honest
<1>1. ASSUME RouteSubscribe PROVE VInv'
  <2>1. /\ up # <<>> /\ Head(up).type = "subscribe" /\ up' = Tail(up)
        /\ cache' = (IF online THEN CachedAll(cache, Backfill("me")) ELSE cache)
        /\ down'  = Reaching(Replay \o (IF online THEN Backfill("me") ELSE Error))
        /\ UNCHANGED <<marking, online, rec, voted, view, chain>>
    BY <1>1 DEF RouteSubscribe, daemonVars, histVars, tabVars
  <2>2. Onward
    BY <1>0, <2>1, Stays
  <2>3. /\ Backfill("me") \in Seq(News(voted, rec.ask)) /\ Len(Backfill("me")) \in {1, 2}
        /\ Replay \in Seq(News(voted, rec.ask)) /\ Error \in Seq(News(voted, rec.ask))
    BY <1>0, Backfilling, Replaying, PlainNews, OneOf DEF Error
  <2>4. Replay \o (IF online THEN Backfill("me") ELSE Error) \in Seq(News(voted', rec'.ask))
    BY <2>1, <2>3, ConcatProperties
  <2>5. down' \in Seq(DownFrames(voted', rec'.ask)) /\ InOrder'
    BY <1>0, <2>1, <2>2, <2>4, Reaches
  <2>6. cache' \in Caches(rec'.ask)
    BY <1>0, <2>1, <2>3, CachingAll
  <2>7. marking = "no"
    BY <1>0, <2>1 DEF MarksAVerdict
  <2>8. QED
    BY <1>0, <2>1, <2>2, <2>5, <2>6, <2>7, Adding DEF MarksAVerdict
<1>2. ASSUME RouteVerdict PROVE VInv'
  <2>1. /\ up # <<>> /\ Head(up).type = "decide" /\ marking = "no"
        /\ \/ marking' = "fresh" /\ UNCHANGED <<up, down>>
           \/ up' = Tail(up) /\ down' = Reaching(Error) /\ UNCHANGED marking
        /\ UNCHANGED <<online, rec, cache, voted, view, chain>>
    BY <1>2 DEF RouteVerdict, daemonVars, histVars, tabVars
  <2>2. Onward
    BY <1>0, <2>1, Stays
  <2>3. Error \in Seq(News(voted', rec'.ask))
    BY PlainNews, OneOf DEF Error
  <2>4. down' \in Seq(DownFrames(voted', rec'.ask)) /\ InOrder'
    <3>1. CASE down' = Reaching(Error)
      BY <1>0, <2>1, <2>2, <2>3, <3>1, Reaches
    <3>2. CASE down' = down
      BY <1>0, <2>1, <2>2, <3>2, Keeps DEF InOrder
    <3>3. QED
      BY <2>1, <3>1, <3>2
  <2>5. up' \in Seq(UpFrames(voted')) /\ MarksAVerdict'
    BY <1>0, <2>1 DEF MarksAVerdict
  <2>6. QED
    BY <1>0, <2>1, <2>2, <2>4, <2>5, Adding
<1>3. ASSUME ForwardVerdict PROVE VInv'
  <2>1. /\ marking # "no" /\ marking' = "no" /\ up' = Tail(up)
        /\ \/ Decide(Head(up).ask, Head(up).verdict)
           \/ UNCHANGED <<rec, cache, down>>
        /\ UNCHANGED <<online, voted, view, chain>>
    BY <1>3 DEF ForwardVerdict, histVars, tabVars
  <2>2. up # <<>> /\ Head(up).type = "decide" /\ Head(up) \in UpFrames(voted)
    BY <1>0, <2>1 DEF MarksAVerdict
  <2>3. /\ Head(up).ask \in Ask /\ Head(up).verdict \in Verdict
        /\ <<Head(up).ask, Head(up).verdict>> \in voted
    BY <2>2 DEF UpFrames, Subscribe
  <2>4. /\ Onward
        /\ down' \in Seq(DownFrames(voted', rec'.ask)) /\ cache' \in Caches(rec'.ask)
        /\ InOrder'
    <3>1. CASE Decide(Head(up).ask, Head(up).verdict)
      BY <1>0, <2>1, <2>3, <3>1, Deciding
    <3>2. CASE UNCHANGED <<rec, cache, down>>
      BY <1>0, <2>1, <3>2, Stays, Keeps DEF InOrder
    <3>3. QED
      BY <2>1, <3>1, <3>2
  <2>5. QED
    BY <1>0, <2>1, <2>2, <2>4, Adding DEF MarksAVerdict
<1>4. ASSUME Evict PROVE VInv'
  <2>1. /\ cache' = NoCache
        /\ UNCHANGED <<up, marking, down, online, rec, voted, view, chain>>
    BY <1>4 DEF Evict, daemonVars, histVars, tabVars
  <2>2. cache' \in Caches(rec'.ask)
    BY <2>1, EmptySeq DEF NoCache, Caches
  <2>3. QED
    BY <1>0, <2>1, <2>2, Stays, Keeps, Adding DEF InOrder, MarksAVerdict
<1>5. QED
  BY <1>1, <1>2, <1>3, <1>4

LEMMA DaemonStep ==
  ASSUME VInv
  PROVE  /\ \A a \in Ask : Asks(a) \/ GateTimesOut(a) => VInv'
         /\ \A a \in Ask, d \in Verdict : AnotherVotes(a, d) => VInv'
         /\ Says \/ Finishes \/ AnotherSubscribes => VInv'
         /\ DaemonDrops \/ DaemonRestarts \/ DaemonReturns => VInv'
<1>0. /\ Honest /\ InOrder /\ MarksAVerdict /\ online \in BOOLEAN
      /\ rec \in [held : BOOLEAN, status : Status, ask : [Ask -> Decision]]
      /\ \A a \in Ask : Granted(a, rec.ask[a], voted)
  BY DEF VInv, Honest
<1>1. ASSUME NEW frames \in Seq(News(voted', rec'.ask)), Len(frames) \in {1, 2},
             Sends(frames), Onward, UNCHANGED <<up, marking, online, view, chain>>
      PROVE  VInv'
  <2>1. /\ down' \in Seq(DownFrames(voted', rec'.ask)) /\ cache' \in Caches(rec'.ask)
        /\ InOrder'
    BY <1>0, <1>1, Sending
  <2>2. up' \in Seq(UpFrames(voted')) /\ MarksAVerdict' /\ online' \in BOOLEAN
    BY <1>0, <1>1, Keeps DEF MarksAVerdict
  <2>3. QED
    BY <1>1, <2>1, <2>2, Adding
<1>2. ASSUME NEW f \in News(voted', rec'.ask), Sends(<<f>>), Onward,
             UNCHANGED <<up, marking, online, view, chain>>
      PROVE  VInv'
  BY <1>1, <1>2, OneOf
<1>3. ASSUME NEW a \in Ask, Asks(a) PROVE VInv'
  <2> DEFINE f == [type |-> "ask", sealed |-> TRUE, ask |-> a]
  <2>1. /\ rec' = [rec EXCEPT !.ask[a] = "open", !.status = "awaiting"]
        /\ Sends(<<f>>)
        /\ UNCHANGED <<up, marking, online, voted, view, chain>>
    BY <1>3 DEF Asks, histVars, tabVars
  <2>2. rec' = [held |-> rec.held, status |-> "awaiting", ask |-> [rec.ask EXCEPT ![a] = "open"]]
    BY <1>0, <2>1
  <2>3. Onward
    BY <1>0, <2>1, <2>2 DEF Onward, Granted, Status, Decision
  <2>4. f \in RingFrames(rec'.ask)
    BY <1>0, <2>2 DEF RingFrames
  <2> HIDE DEF f
  <2>5. QED
    BY <1>2, <2>1, <2>3, <2>4, PlainNews
<1>4. ASSUME NEW a \in Ask, GateTimesOut(a) PROVE VInv'
  <2>1. /\ rec' = Settled(a, "deny") /\ Sends(<<History(Settled(a, "deny"))>>)
        /\ UNCHANGED <<up, marking, online, voted, view, chain>>
    BY <1>4 DEF GateTimesOut, histVars, tabVars
  <2>2. Onward
    BY <1>0, <2>1, Settling DEF Granted, Verdict
  <2>3. History(Settled(a, "deny")) \in News(voted', rec'.ask)
    BY <2>1, <2>2, Backfilled DEF Onward
  <2>4. QED
    BY <1>2, <2>1, <2>2, <2>3
<1>5. ASSUME NEW a \in Ask, NEW d \in Verdict, AnotherVotes(a, d) PROVE VInv'
  <2>1. /\ Decide(a, d) /\ voted' = voted \cup {<<a, d>>}
        /\ UNCHANGED <<up, marking, online, view, chain>>
    BY <1>5 DEF AnotherVotes, tabVars
  <2>2. /\ Onward
        /\ down' \in Seq(DownFrames(voted', rec'.ask)) /\ cache' \in Caches(rec'.ask)
        /\ InOrder'
    BY <1>0, <2>1, Deciding
  <2>3. QED
    BY <1>0, <2>1, <2>2, Keeps, Adding DEF MarksAVerdict
<1>6. ASSUME Says PROVE VInv'
  <2>1. /\ Sends(<<[type |-> "message", sealed |-> TRUE]>>)
        /\ UNCHANGED <<rec, up, marking, online, voted, view, chain>>
    BY <1>6 DEF Says, histVars, tabVars, daemonVars
  <2>2. [type |-> "message", sealed |-> TRUE] \in News(voted', rec'.ask)
    BY PlainNews DEF RingFrames
  <2>3. QED
    BY <1>0, <1>2, <2>1, <2>2, Stays
<1>7. ASSUME Finishes PROVE VInv'
  <2>1. /\ Sends(<<[type |-> "ended", sealed |-> TRUE]>>) /\ rec' = [rec EXCEPT !.status = "ended"]
        /\ UNCHANGED <<up, marking, online, voted, view, chain>>
    BY <1>7 DEF Finishes, histVars, tabVars
  <2>2. [type |-> "ended", sealed |-> TRUE] \in News(voted', rec'.ask)
    BY PlainNews DEF RingFrames
  <2>3. Onward
    BY <1>0, <2>1 DEF Onward, Granted, Status
  <2>4. QED
    BY <1>2, <2>1, <2>2, <2>3
<1>8. ASSUME AnotherSubscribes PROVE VInv'
  <2>1. Sends(Backfill("theirs")) /\ UNCHANGED <<rec, up, marking, online, voted, view, chain>>
    BY <1>8 DEF AnotherSubscribes, histVars, tabVars, daemonVars
  <2>2. Onward
    BY <1>0, <2>1, Stays
  <2>3. /\ Backfill("theirs") \in Seq(News(voted', rec'.ask))
        /\ Len(Backfill("theirs")) \in {1, 2}
    BY <1>0, <2>1, Backfilling
  <2>4. QED
    BY <1>1, <2>1, <2>2, <2>3
<1>9. ASSUME NEW frames \in Seq(News(voted', rec'.ask)), down' = Reaching(frames), Onward,
             online' \in BOOLEAN, MarksAVerdict', UNCHANGED <<up, view, chain, cache>>
      PROVE  VInv'
  <2>1. down' \in Seq(DownFrames(voted', rec'.ask)) /\ InOrder'
    BY <1>0, <1>9, Reaches
  <2>2. up' \in Seq(UpFrames(voted')) /\ cache' \in Caches(rec'.ask)
    BY <1>0, <1>9, Keeps
  <2>3. QED
    BY <1>9, <2>1, <2>2, Adding
<1>10. ASSUME Closes, Onward PROVE VInv'
  <2>1. /\ online' = FALSE /\ down' = Reaching(<<[type |-> "presence", online |-> FALSE]>>)
        /\ marking' = (IF marking = "fresh" THEN "stale" ELSE marking)
        /\ UNCHANGED <<up, voted, view, chain, cache>>
    BY <1>10 DEF Closes, histVars, tabVars
  <2>2. <<[type |-> "presence", online |-> FALSE]>> \in Seq(News(voted', rec'.ask))
    BY PlainNews, OneOf
  <2>3. MarksAVerdict'
    BY <1>0, <2>1 DEF MarksAVerdict
  <2>4. QED
    BY <1>9, <1>10, <2>1, <2>2, <2>3
<1>11. ASSUME DaemonDrops PROVE VInv'
  <2>1. Closes /\ UNCHANGED <<voted, rec>>
    BY <1>11 DEF DaemonDrops, Closes, histVars
  <2>2. QED
    BY <1>0, <1>10, <2>1, Stays
<1>12. ASSUME DaemonRestarts PROVE VInv'
  <2>1. Closes /\ voted' = voted /\ rec' = [rec EXCEPT !.held = rec.status = "ended"]
    BY <1>12 DEF DaemonRestarts, Closes, histVars
  <2>2. Onward
    BY <1>0, <2>1 DEF Onward, Granted
  <2>3. QED
    BY <1>10, <2>1, <2>2
<1>13. ASSUME DaemonReturns PROVE VInv'
  <2> DEFINE back == [type |-> "presence", online |-> TRUE]
             over == [type |-> "ended", sealed |-> FALSE]
  <2>1. /\ online' = TRUE
        /\ down' = Reaching(<<back>> \o (IF row /\ ~rec.held THEN <<over>> ELSE <<>>))
        /\ UNCHANGED <<rec, up, marking, voted, view, chain, cache>>
    BY <1>13 DEF DaemonReturns, histVars, tabVars
  <2>2. back \in News(voted', rec'.ask) /\ over \in News(voted', rec'.ask)
    BY PlainNews DEF RingFrames
  <2> HIDE DEF back, over
  <2>3. /\ <<back>> \in Seq(News(voted', rec'.ask)) /\ <<over>> \in Seq(News(voted', rec'.ask))
        /\ <<>> \in Seq(News(voted', rec'.ask))
    BY <2>2, OneOf, EmptySeq
  <2>4. <<back>> \o (IF row /\ ~rec.held THEN <<over>> ELSE <<>>) \in Seq(News(voted', rec'.ask))
    BY <2>3, ConcatProperties
  <2>5. Onward /\ MarksAVerdict'
    BY <1>0, <2>1, Stays DEF MarksAVerdict
  <2>6. QED
    BY <1>9, <2>1, <2>4, <2>5
<1>14. QED
  BY <1>3, <1>4, <1>5, <1>6, <1>7, <1>8, <1>11, <1>12, <1>13

LEMMA VInvStep == VInv /\ [Next]_vars => VInv'
<1>1. VInv /\ Next => VInv'
  BY TabStep, LinkStep, RelayStep, DaemonStep DEF Next
<1>2. VInv /\ UNCHANGED vars => VInv'
  BY DEF vars, VInv, Honest, MarksAVerdict, InOrder
<1>3. QED
  BY <1>1, <1>2

-----------------------------------------------------------------------------
(* The theorems *)

LEMMA AlwaysVInv == Spec => []VInv
  BY InitVInv, VInvStep, PTL DEF Spec

\* A tab never shows a verdict nobody gave, whatever was replayed, backfilled, reverted or
\* closed since (session.ts, applyEnvelope; relay.ts, replayCache; daemon.ts, the verdict of
\* a gate that is settled).
THEOREM VerdictsAreGiven == Spec => []NoVerdictFromNowhere
<1>1. VInv => NoVerdictFromNowhere
  BY DEF VInv, Honest, Views, NoVerdictFromNowhere
<1>2. QED
  BY <1>1, AlwaysVInv, PTL

\* Short of a reload, a transcript that has been shown is never lost, and no ask leaves it: a
\* backfill that does not know of an ask was sent before the ask was, and comes before it
\* (session.ts, the reseed of session.history; daemon.ts, historyPayloadFor).
THEOREM NothingShownIsLost == Spec => TranscriptSurvives
<1> DEFINE Kept == /\ view.filled => view'.filled
                   /\ \A a \in Ask : view.shown[a] # {} => view'.shown[a] # {}
<1>1. ASSUME VInv, NEW a \in Ask, NEW d \in Verdict, Vote(a, d) PROVE Kept
  BY <1>1 DEF VInv, Honest, Views, Vote
<1>2. ASSUME VInv, TakePresence PROVE Kept
  BY <1>2, Pausing DEF VInv, Honest, TakePresence
<1>3. ASSUME VInv, TakeError PROVE Kept
  BY <1>3, Undelivering DEF VInv, Honest, TakeError
<1>4. ASSUME VInv, TakeFrame PROVE Kept
  <2>1. /\ down # <<>> /\ Head(down).type \in {"ask", "message", "ended", "history"}
        /\ view' = Apply(view, Head(down)) \/ view' = ApplySealed(view, Head(down))
    BY <1>4 DEF TakeFrame
  <2>2. /\ Head(down) \in DownFrames(voted, rec.ask) /\ Head(down) = down[1]
        /\ 1 \in 1 .. Len(down)
    BY <1>4, <2>1, Ends DEF VInv, Honest
  <2>3. Head(down) \in Entries(voted, rec.ask)
    BY <2>1, <2>2 DEF DownFrames, Keys, Entries
  <2>4. Becomes(view, view', Head(down), voted, rec.ask)
    BY <1>4, <2>1, <2>3, Applying, ApplyingSealed DEF VInv, Honest
  <2>5. \A a \in Ask : Blank(Head(down), a) => view.shown[a] = {}
    BY <1>4, <2>2 DEF VInv, InOrder
  <2>6. QED
    BY <2>4, <2>5 DEF Becomes
<1>5. ASSUME Reload PROVE view' = NoView
  BY <1>5 DEF Reload
<1>6. ASSUME TakeKey \/ Flush \/ LinkDies \/ LinkCloses \/ Handshake \/ RouteSubscribe
               \/ RouteVerdict \/ ForwardVerdict \/ Evict \/ AnotherSubscribes \/ Says \/ Finishes
               \/ DaemonDrops \/ DaemonRestarts \/ DaemonReturns
      PROVE  Kept
  BY <1>6 DEF TakeKey, Flush, LinkDies, LinkCloses, Handshake, RouteSubscribe, RouteVerdict,
     ForwardVerdict, Evict, AnotherSubscribes, Says, Finishes, DaemonDrops, DaemonRestarts,
     DaemonReturns, Closes, tabVars
<1>7. ASSUME NEW a \in Ask, Asks(a) \/ GateTimesOut(a) PROVE Kept
  BY <1>7 DEF Asks, GateTimesOut, tabVars
<1>8. ASSUME NEW a \in Ask, NEW d \in Verdict, AnotherVotes(a, d) PROVE Kept
  BY <1>8 DEF AnotherVotes, tabVars
<1>9. ASSUME VInv, Next PROVE view' = NoView \/ Kept
  <2> HIDE DEF Kept
  <2>1. QED
    BY <1>1, <1>2, <1>3, <1>4, <1>5, <1>6, <1>7, <1>8, <1>9 DEF Next
<1>10. VInv /\ [Next]_vars => [view' = NoView \/ Kept]_vars
  BY <1>9
<1>11. QED
  BY <1>10, AlwaysVInv, PTL DEF Spec, TranscriptSurvives

=============================================================================
