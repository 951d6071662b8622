----------------------------- MODULE RelayProofs -----------------------------
(***************************************************************************)
(* What holds of the relay for every set of sessions, sockets and          *)
(* connections and every bound.                                            *)
(*                                                                         *)
(* Of RelayRegistry: an archived row is an ended one, which the CHECK of   *)
(* the sessions table demands of every statement; and once nothing is      *)
(* under way about a session, its row agrees with the daemon.              *)
(*                                                                         *)
(* Of RelayChannel: the presence frames tell the tabs and the daemon the   *)
(* truth, and a closed connection leaves the maps.                         *)
(***************************************************************************)
EXTENDS RelayChannel, RelayRegistry, SequenceTheorems, TLAPS

-----------------------------------------------------------------------------
(* RelayRegistry *)


\* The table: every statement keeps its rows and its shelf in their domains.
Table == row \in [Session -> RowStatus] /\ shelved \subseteq Session

ShelfInv == Table /\ ShelvedIsEnded

\* An UPDATE of the status, whichever it is and whether or not the row is there.
LEMMA Updates ==
  ASSUME ShelfInv, NEW s, NEW status \in LiveRow \cup EndStatus, SetRow(s, status)
  PROVE  ShelfInv'
<1>1. CASE row[s] \in {"absent", "deleted"}
  BY <1>1 DEF SetRow, ShelfInv, Table, ShelvedIsEnded
<1>2. CASE row[s] \notin {"absent", "deleted"}
  <2>1. row' = [row EXCEPT ![s] = status]
    BY <1>2 DEF SetRow
  <2>2. shelved' = IF status \in EndStatus THEN shelved ELSE shelved \ {s}
    BY <1>2 DEF SetRow
  <2>3. status \in RowStatus
    BY DEF RowStatus
  <2>4. Table'
    BY <2>1, <2>2, <2>3 DEF ShelfInv, Table
  <2>5. ShelvedIsEnded'
    BY <2>1, <2>2 DEF ShelfInv, Table, ShelvedIsEnded
  <2>6. QED
    BY <2>4, <2>5 DEF ShelfInv
<1>3. QED
  BY <1>1, <1>2

LEMMA InitShelfInv == RegistryInit => ShelfInv
  BY DEF RegistryInit, ShelfInv, Table, ShelvedIsEnded, RowStatus

LEMMA ShelfStep == ShelfInv /\ [RegistryNext]_registryVars => ShelfInv'
<1> SUFFICES ASSUME ShelfInv, [RegistryNext]_registryVars PROVE ShelfInv'
  OBVIOUS
<1> USE DEF LiveRow, EndStatus
<1>1. ASSUME NEW c \in Link, NEW s \in Session, Persists(c, s)
      PROVE  ShelfInv'
  BY <1>1, Updates DEF Persists
<1>2. ASSUME NEW c \in Link, NEW s \in Session, Retires(c, s)
      PROVE  ShelfInv'
  BY <1>2, Updates DEF Retires
<1>3. ASSUME NEW t \in Tab, NEW s \in Session, Mints(t, s)
      PROVE  ShelfInv'
  BY <1>3 DEF Mints, ShelfInv, Table, ShelvedIsEnded, RowStatus
<1>4. ASSUME NEW t \in Tab, ForwardsLaunch(t)
      PROVE  ShelfInv'
  <2>1. CASE job[t].to = NoLink
    BY <1>4, <2>1, Updates DEF ForwardsLaunch
  <2>2. CASE job[t].to # NoLink
    BY <1>4, <2>2 DEF ForwardsLaunch, ShelfInv, Table, ShelvedIsEnded
  <2>3. QED
    BY <2>1, <2>2
<1>5. ASSUME NEW t \in Tab, MarksRunning(t)
      PROVE  ShelfInv'
  BY <1>5, Updates DEF MarksRunning
<1>6. ASSUME NEW s \in Session, Archive(s) \/ Delete(s)
      PROVE  ShelfInv'
  BY <1>6 DEF Archive, Delete, ShelfInv, Table, ShelvedIsEnded, RowStatus
<1>7. ASSUME UNCHANGED <<row, shelved>>
      PROVE  ShelfInv'
  BY <1>7 DEF ShelfInv, Table, ShelvedIsEnded
<1>8. ASSUME \/ LinkDrops \/ DaemonRestarts
             \/ \E c \in Link : \/ DaemonDials(c) \/ Registers(c) \/ PeerCloses(c) \/ SocketForgotten(c)
                                \/ ReadsFrame(c) \/ ReadsRows(c)
             \/ \E t \in Tab : LaunchArrives(t) \/ ForwardsAct(t)
             \/ \E s \in Session : \/ Starts(s) \/ Gates(s) \/ GateExpires(s) \/ Ends(s)
                                   \/ \E t \in Tab : ActArrives(t, s)
             \/ UNCHANGED registryVars
      PROVE  UNCHANGED <<row, shelved>>
  BY <1>8 DEF LinkDrops, DaemonRestarts, DaemonDials, Registers, PeerCloses, SocketForgotten, ReadsFrame,
              ReadsRows, LaunchArrives, ForwardsAct, Starts, Gates, GateExpires, Ends,
              ActArrives, relayVars, registryVars
<1>9. QED
  BY <1>1, <1>2, <1>3, <1>4, <1>5, <1>6, <1>7, <1>8 DEF RegistryNext

-----------------------------------------------------------------------------
(* What the frames that wait on a socket say of a session. *)

Singles == {{s} : s \in Session}
Words   == [kind : {"started", "gate", "ended"}, about : Singles]
             \cup [kind : {"reconcile"}, about : SUBSET Session]
Acts    == [kind : {"ack"}, about : {{}}] \cup [kind : {"launch", "act"}, about : Singles]

\* A frame says what s has become, or says that s is not held.
Says(f, s)  == f.kind # "reconcile" /\ s \in f.about
Omits(f, s) == f.kind = "reconcile" /\ s \notin f.about

\* Some frame of the queue does.
Spoken(q, s)  == \E i \in DOMAIN q : Says(q[i], s)
Omitted(q, s) == \E i \in DOMAIN q : Omits(q[i], s)

\* The row that a frame leaves agrees with a session in this state.
Leaves(kind, state) ==
  \/ kind = "started" /\ state = "running"
  \/ kind = "gate" /\ state = "awaiting_input"
  \/ kind = "ended" /\ state \in {"none", "over"}

\* The last frame that says what s is leaves a row that agrees with that.
LastTells(q, s, state) ==
  \A i \in DOMAIN q :
    Says(q[i], s) /\ (\A j \in DOMAIN q : j > i => ~Says(q[j], s)) => Leaves(q[i].kind, state)

\* Each frame that omits s is corrected by a later one.
Corrected(q, s) == \A i \in DOMAIN q : Omits(q[i], s) => \E j \in DOMAIN q : j > i /\ Says(q[j], s)

\* Of the frames to the daemon, some of this kind is about s; one launch at most is.
Carries(p, kind, s) == \E i \in DOMAIN p : p[i].kind = kind /\ s \in p[i].about
Launches(f, s) == f.kind = "launch" /\ s \in f.about
LaunchedOnce(p, s) ==
  \A i, j \in DOMAIN p : Launches(p[i], s) /\ Launches(p[j], s) => i = j

LEMMA Appended ==
  ASSUME NEW S, NEW q \in Seq(S), NEW f \in S
  PROVE  /\ Append(q, f) \in Seq(S)
         /\ DOMAIN q = 1 .. Len(q) /\ Len(q) \in Nat
         /\ DOMAIN Append(q, f) = 1 .. Len(q) + 1
         /\ \A i \in 1 .. Len(q) : Append(q, f)[i] = q[i]
         /\ Append(q, f)[Len(q) + 1] = f
  OBVIOUS

LEMMA Shifted ==
  ASSUME NEW S, NEW q \in Seq(S), q # <<>>
  PROVE  /\ Tail(q) \in Seq(S) /\ Head(q) = q[1] /\ Head(q) \in S
         /\ DOMAIN q = 1 .. Len(q) /\ Len(q) \in Nat \ {0}
         /\ DOMAIN Tail(q) = 1 .. Len(q) - 1
         /\ \A i \in 1 .. Len(q) - 1 : Tail(q)[i] = q[i + 1]
  OBVIOUS

LEMMA Shortened ==
  ASSUME NEW S, NEW q \in Seq(S), NEW n \in 0 .. Len(q)
  PROVE  /\ SubSeq(q, 1, n) \in Seq(S)
         /\ DOMAIN q = 1 .. Len(q) /\ Len(q) \in Nat
         /\ DOMAIN SubSeq(q, 1, n) = 1 .. n
         /\ \A i \in 1 .. n : SubSeq(q, 1, n)[i] = q[i]
  OBVIOUS

\* A frame is said on the daemon's socket.
LEMMA AddsWord ==
  ASSUME NEW q \in Seq(Words), NEW f \in Words, NEW s, NEW state
  PROVE  /\ Spoken(Append(q, f), s) <=> Spoken(q, s) \/ Says(f, s)
         /\ Omitted(Append(q, f), s) <=> Omitted(q, s) \/ Omits(f, s)
         /\ LastTells(q, s, state) /\ ~Says(f, s) => LastTells(Append(q, f), s, state)
         /\ Says(f, s) /\ Leaves(f.kind, state) => LastTells(Append(q, f), s, state)
         /\ Says(f, s) \/ (Corrected(q, s) /\ ~Omits(f, s)) => Corrected(Append(q, f), s)
<1> DEFINE r == Append(q, f)
           n == Len(q)
<1>1. /\ DOMAIN q = 1 .. n /\ n \in Nat /\ DOMAIN r = 1 .. n + 1
      /\ \A i \in 1 .. n : r[i] = q[i]
      /\ r[n + 1] = f
  BY Appended
<1> HIDE DEF r, n
<1>2. Spoken(r, s) <=> Spoken(q, s) \/ Says(f, s)
  BY <1>1 DEF Spoken
<1>3. Omitted(r, s) <=> Omitted(q, s) \/ Omits(f, s)
  BY <1>1 DEF Omitted
<1>4. ASSUME LastTells(q, s, state), ~Says(f, s)
      PROVE  LastTells(r, s, state)
  BY <1>1, <1>4 DEF LastTells
<1>5. ASSUME Says(f, s), Leaves(f.kind, state)
      PROVE  LastTells(r, s, state)
  BY <1>1, <1>5 DEF LastTells
<1>6. ASSUME Says(f, s) \/ (Corrected(q, s) /\ ~Omits(f, s))
      PROVE  Corrected(r, s)
  <2>1. CASE Says(f, s)
    BY <1>1, <2>1 DEF Corrected, Says, Omits
  <2>2. CASE Corrected(q, s) /\ ~Omits(f, s)
    BY <1>1, <2>2 DEF Corrected
  <2>3. QED
    BY <1>6, <2>1, <2>2
<1>7. QED
  BY <1>2, <1>3, <1>4, <1>5, <1>6 DEF r

\* The relay handles a frame.
LEMMA TakesWord ==
  ASSUME NEW q \in Seq(Words), q # <<>>, NEW s, NEW state
  PROVE  /\ Spoken(q, s) <=> Spoken(Tail(q), s) \/ Says(Head(q), s)
         /\ Omitted(q, s) <=> Omitted(Tail(q), s) \/ Omits(Head(q), s)
         /\ LastTells(q, s, state) => LastTells(Tail(q), s, state)
         /\ LastTells(q, s, state) /\ Says(Head(q), s) /\ ~Spoken(Tail(q), s) =>
              Leaves(Head(q).kind, state)
         /\ Corrected(q, s) => Corrected(Tail(q), s)
         /\ Corrected(q, s) /\ Omits(Head(q), s) => Spoken(Tail(q), s)
<1> DEFINE r == Tail(q)
           n == Len(q)
<1>1. /\ DOMAIN q = 1 .. n /\ n \in Nat \ {0} /\ DOMAIN r = 1 .. n - 1
      /\ \A i \in 1 .. n - 1 : r[i] = q[i + 1]
      /\ Head(q) = q[1]
  BY Shifted
<1> HIDE DEF r, n
<1>0. /\ \A i \in DOMAIN q : i # 1 => i - 1 \in DOMAIN r /\ r[i - 1] = q[i]
      /\ \A i \in DOMAIN r : i + 1 \in DOMAIN q /\ q[i + 1] = r[i]
      /\ 1 \in DOMAIN q /\ DOMAIN q \subseteq Int /\ DOMAIN r \subseteq Nat \ {0}
  BY <1>1
<1>2. Spoken(q, s) <=> Spoken(r, s) \/ Says(Head(q), s)
  <2>1. ASSUME NEW i \in DOMAIN q, Says(q[i], s), ~Says(q[1], s)
        PROVE  Spoken(r, s)
    BY <1>0, <2>1 DEF Spoken
  <2>2. ASSUME NEW i \in DOMAIN r, Says(r[i], s)
        PROVE  Spoken(q, s)
    BY <1>0, <2>2 DEF Spoken
  <2>3. QED
    BY <1>0, <1>1, <2>1, <2>2 DEF Spoken
<1>3. Omitted(q, s) <=> Omitted(r, s) \/ Omits(Head(q), s)
  <2>1. ASSUME NEW i \in DOMAIN q, Omits(q[i], s), ~Omits(q[1], s)
        PROVE  Omitted(r, s)
    BY <1>0, <2>1 DEF Omitted
  <2>2. ASSUME NEW i \in DOMAIN r, Omits(r[i], s)
        PROVE  Omitted(q, s)
    BY <1>0, <2>2 DEF Omitted
  <2>3. QED
    BY <1>0, <1>1, <2>1, <2>2 DEF Omitted
<1>4. ASSUME LastTells(q, s, state)
      PROVE  LastTells(r, s, state)
  <2>1. SUFFICES ASSUME NEW i \in DOMAIN r, Says(r[i], s),
                        \A j \in DOMAIN r : j > i => ~Says(r[j], s)
                 PROVE  Leaves(r[i].kind, state)
    BY DEF LastTells
  <2>2. \A j \in DOMAIN q : j > i + 1 => ~Says(q[j], s)
    <3>1. SUFFICES ASSUME NEW j \in DOMAIN q, j > i + 1
                   PROVE  ~Says(q[j], s)
      OBVIOUS
    <3>2. j # 1 /\ j - 1 > i
      BY <1>0, <3>1
    <3>3. QED
      BY <1>0, <2>1, <3>2
  <2>3. QED
    BY <1>0, <1>4, <2>1, <2>2 DEF LastTells
<1>5. ASSUME LastTells(q, s, state), Says(Head(q), s), ~Spoken(r, s)
      PROVE  Leaves(Head(q).kind, state)
  <2>1. \A j \in DOMAIN q : j > 1 => ~Says(q[j], s)
    BY <1>0, <1>5, \A j \in Int : j > 1 => j # 1 DEF Spoken
  <2>2. QED
    BY <1>0, <1>1, <1>5, <2>1 DEF LastTells
<1>6. ASSUME Corrected(q, s)
      PROVE  Corrected(r, s)
  <2>1. SUFFICES ASSUME NEW i \in DOMAIN r, Omits(r[i], s)
                 PROVE  \E j \in DOMAIN r : j > i /\ Says(r[j], s)
    BY DEF Corrected
  <2>2. PICK j \in DOMAIN q : j > i + 1 /\ Says(q[j], s)
    BY <1>0, <1>6, <2>1 DEF Corrected
  <2>3. j # 1 /\ j - 1 > i
    BY <1>0, <2>2
  <2>4. QED
    BY <1>0, <2>2, <2>3
<1>7. ASSUME Corrected(q, s), Omits(Head(q), s)
      PROVE  Spoken(r, s)
  <2>1. PICK j \in DOMAIN q : j > 1 /\ Says(q[j], s)
    BY <1>0, <1>1, <1>7 DEF Corrected
  <2>2. j # 1
    BY <1>0, <2>1
  <2>3. QED
    BY <1>0, <2>1, <2>2 DEF Spoken
<1>8. QED
  BY <1>2, <1>3, <1>4, <1>5, <1>6, <1>7 DEF r

\* The tail of the queue is lost; to a session that is not touched by it nothing is.
LEMMA LosesWords ==
  ASSUME NEW q \in Seq(Words), NEW n \in 0 .. Len(q), NEW s, NEW state
  PROVE  /\ Spoken(SubSeq(q, 1, n), s) => Spoken(q, s)
         /\ (\A i \in n + 1 .. Len(q) : ~Touches(q[i], s)) =>
              /\ Spoken(SubSeq(q, 1, n), s) <=> Spoken(q, s)
              /\ Omitted(SubSeq(q, 1, n), s) <=> Omitted(q, s)
              /\ LastTells(q, s, state) => LastTells(SubSeq(q, 1, n), s, state)
              /\ Corrected(q, s) => Corrected(SubSeq(q, 1, n), s)
<1> DEFINE r == SubSeq(q, 1, n)
           m == Len(q)
<1>1. /\ DOMAIN q = 1 .. m /\ m \in Nat /\ n \in 0 .. m /\ DOMAIN r = 1 .. n
      /\ \A i \in 1 .. n : r[i] = q[i]
  BY Shortened
<1> HIDE DEF r, m
<1>2. Spoken(r, s) => Spoken(q, s)
  BY <1>1 DEF Spoken
<1>3. ASSUME \A i \in n + 1 .. m : ~Touches(q[i], s)
      PROVE  /\ Spoken(r, s) <=> Spoken(q, s)
             /\ Omitted(r, s) <=> Omitted(q, s)
             /\ LastTells(q, s, state) => LastTells(r, s, state)
             /\ Corrected(q, s) => Corrected(r, s)
  <2>1. \A i \in 1 .. m : i \in 1 .. n \/ (~Says(q[i], s) /\ ~Omits(q[i], s))
    BY <1>1, <1>3 DEF Touches, Says, Omits
  <2>2. Spoken(r, s) <=> Spoken(q, s)
    BY <1>1, <2>1 DEF Spoken
  <2>3. Omitted(r, s) <=> Omitted(q, s)
    BY <1>1, <2>1 DEF Omitted
  <2>4. LastTells(q, s, state) => LastTells(r, s, state)
    BY <1>1, <2>1 DEF LastTells
  <2>5. Corrected(q, s) => Corrected(r, s)
    BY <1>1, <2>1 DEF Corrected
  <2>6. QED
    BY <2>2, <2>3, <2>4, <2>5
<1>4. QED
  BY <1>2, <1>3 DEF r, m

\* The same of the frames to the daemon.
LEMMA AddsAct ==
  ASSUME NEW p \in Seq(Acts), NEW f \in Acts, NEW kind, NEW s
  PROVE  /\ Carries(Append(p, f), kind, s) <=>
              Carries(p, kind, s) \/ (f.kind = kind /\ s \in f.about)
         /\ LaunchedOnce(p, s) /\ (~Launches(f, s) \/ ~Carries(p, "launch", s)) =>
              LaunchedOnce(Append(p, f), s)
<1> DEFINE r == Append(p, f)
           n == Len(p)
<1>1. /\ DOMAIN p = 1 .. n /\ n \in Nat /\ DOMAIN r = 1 .. n + 1
      /\ \A i \in 1 .. n : r[i] = p[i]
      /\ r[n + 1] = f
  BY Appended
<1> HIDE DEF r, n
<1>2. Carries(r, kind, s) <=> Carries(p, kind, s) \/ (f.kind = kind /\ s \in f.about)
  BY <1>1 DEF Carries
<1>3. ASSUME LaunchedOnce(p, s), ~Launches(f, s) \/ ~Carries(p, "launch", s)
      PROVE  LaunchedOnce(r, s)
  <2>1. SUFFICES ASSUME NEW i \in DOMAIN r, NEW j \in DOMAIN r,
                        Launches(r[i], s), Launches(r[j], s)
                 PROVE  i = j
    BY DEF LaunchedOnce
  <2>2. ASSUME NEW k \in DOMAIN r, k # n + 1, Launches(r[k], s)
        PROVE  k \in DOMAIN p /\ p[k] = r[k] /\ Carries(p, "launch", s)
    BY <1>1, <2>2 DEF Carries, Launches
  <2>3. CASE i # n + 1 /\ j # n + 1
    BY <1>3, <2>1, <2>2, <2>3 DEF LaunchedOnce
  <2>4. QED
    BY <1>1, <1>3, <2>1, <2>2, <2>3 DEF Launches
<1>4. QED
  BY <1>2, <1>3 DEF r

LEMMA TakesAct ==
  ASSUME NEW p \in Seq(Acts), p # <<>>, NEW kind, NEW s
  PROVE  /\ Carries(p, kind, s) <=>
              Carries(Tail(p), kind, s) \/ (Head(p).kind = kind /\ s \in Head(p).about)
         /\ LaunchedOnce(p, s) => LaunchedOnce(Tail(p), s)
         /\ LaunchedOnce(p, s) /\ Launches(Head(p), s) => ~Carries(Tail(p), "launch", s)
<1> DEFINE r == Tail(p)
           n == Len(p)
<1>1. /\ DOMAIN p = 1 .. n /\ n \in Nat \ {0} /\ DOMAIN r = 1 .. n - 1
      /\ \A i \in 1 .. n - 1 : r[i] = p[i + 1]
      /\ Head(p) = p[1]
  BY Shifted
<1> HIDE DEF r, n
<1>0. /\ \A i \in DOMAIN p : i # 1 => i - 1 \in DOMAIN r /\ r[i - 1] = p[i]
      /\ \A i \in DOMAIN r : i + 1 \in DOMAIN p /\ p[i + 1] = r[i]
      /\ 1 \in DOMAIN p /\ DOMAIN p \subseteq Int /\ DOMAIN r \subseteq Nat \ {0}
  BY <1>1
<1>2. Carries(p, kind, s) <=> Carries(r, kind, s) \/ (Head(p).kind = kind /\ s \in Head(p).about)
  <2>1. ASSUME NEW i \in DOMAIN p, p[i].kind = kind, s \in p[i].about, i # 1
        PROVE  Carries(r, kind, s)
    BY <1>0, <2>1 DEF Carries
  <2>2. ASSUME NEW i \in DOMAIN r, r[i].kind = kind, s \in r[i].about
        PROVE  Carries(p, kind, s)
    BY <1>0, <2>2 DEF Carries
  <2>3. QED
    BY <1>0, <1>1, <2>1, <2>2 DEF Carries
<1>3. ASSUME LaunchedOnce(p, s)
      PROVE  LaunchedOnce(r, s)
  <2>1. SUFFICES ASSUME NEW i \in DOMAIN r, NEW j \in DOMAIN r,
                        Launches(r[i], s), Launches(r[j], s)
                 PROVE  i = j
    BY DEF LaunchedOnce
  <2>2. i + 1 = j + 1
    BY <1>0, <1>3, <2>1 DEF LaunchedOnce
  <2>3. QED
    BY <1>0, <2>2
<1>4. ASSUME LaunchedOnce(p, s), Launches(Head(p), s), Carries(r, "launch", s)
      PROVE  FALSE
  <2>1. PICK i \in DOMAIN r : Launches(r[i], s)
    BY <1>4 DEF Carries, Launches
  <2>2. i + 1 = 1
    BY <1>0, <1>1, <1>4, <2>1 DEF LaunchedOnce
  <2>3. QED
    BY <1>0, <2>2
<1>5. QED
  BY <1>2, <1>3, <1>4 DEF r

LEMMA LosesActs ==
  ASSUME NEW p \in Seq(Acts), NEW n \in 0 .. Len(p), NEW kind, NEW s
  PROVE  /\ Carries(SubSeq(p, 1, n), kind, s) => Carries(p, kind, s)
         /\ LaunchedOnce(p, s) => LaunchedOnce(SubSeq(p, 1, n), s)
         /\ (\A i \in n + 1 .. Len(p) : s \notin p[i].about) =>
              (Carries(SubSeq(p, 1, n), kind, s) <=> Carries(p, kind, s))
<1> DEFINE r == SubSeq(p, 1, n)
           m == Len(p)
<1>1. /\ DOMAIN p = 1 .. m /\ m \in Nat /\ n \in 0 .. m /\ DOMAIN r = 1 .. n
      /\ \A i \in 1 .. n : r[i] = p[i]
  BY Shortened
<1> HIDE DEF r, m
<1>2. Carries(r, kind, s) => Carries(p, kind, s)
  BY <1>1 DEF Carries
<1>3. LaunchedOnce(p, s) => LaunchedOnce(r, s)
  BY <1>1 DEF LaunchedOnce
<1>4. ASSUME \A i \in n + 1 .. m : s \notin p[i].about
      PROVE  Carries(r, kind, s) <=> Carries(p, kind, s)
  BY <1>1, <1>4 DEF Carries
<1>5. QED
  BY <1>2, <1>3, <1>4 DEF r, m

-----------------------------------------------------------------------------
(* The types. *)

LinkJob == [kind : {"idle"}, about : {{}}, to : {NoLink}]
             \cup [kind : {"retire"}, about : SUBSET Session, to : {NoLink}]
TabJob  == [kind : {"idle"}, about : {{}}, to : {NoLink}]
             \cup [kind : {"launch"}, about : {{}}, to : Link \cup {NoLink}]
             \cup [kind : {"minted", "act", "acted"}, about : Singles, to : Link \cup {NoLink}]

\* RegistryTypeOK, and what each frame and job is about.
SocketOK == holder \in Link \cup {NoLink} /\ socket \in [Link -> {"new", "open", "peer", "closed"}]
DaemonOK == /\ held \in [Session -> Held] /\ filed \subseteq Session /\ lagging \subseteq Session
            /\ link \in Link \cup {NoLink}
InboxOK  == inbox \in [Link -> Seq(Words)]
OutboxOK == outbox \in [Link -> Seq(Acts)]
JobOK    == /\ DOMAIN job = Link \cup Tab
            /\ \A c \in Link : job[c] \in LinkJob
            /\ \A t \in Tab : job[t] \in TabJob
Shapes   == Table /\ SocketOK /\ DaemonOK /\ InboxOK /\ OutboxOK /\ JobOK

LEMMA MadeFrames ==
  /\ \A s \in Session, kind \in {"started", "gate", "ended"} : Frame(kind, {s}) \in Words
  /\ \A S \in SUBSET Session : Frame("reconcile", S) \in Words
  /\ Frame("ack", {}) \in Acts
  /\ \A x \in Singles, kind \in {"launch", "act"} : Frame(kind, x) \in Acts
  BY DEF Frame, Words, Acts, Singles

LEMMA MadeJobs ==
  /\ Idle \in LinkJob /\ Idle \in TabJob
  /\ \A S \in SUBSET Session : Job("retire", S, NoLink) \in LinkJob
  /\ \A to \in Link \cup {NoLink} : Job("launch", {}, to) \in TabJob
  /\ \A to \in Link \cup {NoLink}, x \in Singles, kind \in {"minted", "act", "acted"} :
       Job(kind, x, to) \in TabJob
  BY DEF Idle, Job, LinkJob, TabJob

LEMMA SocketStep == SocketOK /\ [RegistryNext]_registryVars => SocketOK'
<1> SUFFICES ASSUME SocketOK, [RegistryNext]_registryVars PROVE SocketOK'
  OBVIOUS
<1>1. ASSUME NEW c \in Link, DaemonDials(c) \/ Registers(c) \/ PeerCloses(c) \/ SocketForgotten(c)
      PROVE  SocketOK'
  BY <1>1 DEF DaemonDials, Registers, PeerCloses, SocketForgotten, SocketOK
<1>2. ASSUME \/ LinkDrops \/ DaemonRestarts
             \/ \E c \in Link : ReadsFrame(c) \/ ReadsRows(c)
             \/ \E t \in Tab : LaunchArrives(t) \/ ForwardsLaunch(t) \/ MarksRunning(t) \/ ForwardsAct(t)
             \/ \E s \in Session : \/ Starts(s) \/ Gates(s) \/ GateExpires(s) \/ Ends(s)
                                   \/ Archive(s) \/ Delete(s)
                                   \/ \E t \in Tab : Mints(t, s) \/ ActArrives(t, s)
                                   \/ \E c \in Link : Persists(c, s) \/ Retires(c, s)
             \/ UNCHANGED registryVars
      PROVE  UNCHANGED <<holder, socket>>
  BY <1>2 DEF LinkDrops, DaemonRestarts, ReadsFrame, ReadsRows, LaunchArrives, ForwardsLaunch,
              MarksRunning, ForwardsAct, Starts, Gates, GateExpires, Ends, Archive, Delete, Mints,
              ActArrives, Persists, Retires, relayVars, registryVars
<1>3. QED
  BY <1>1, <1>2 DEF RegistryNext, SocketOK

\* What a frame of the daemon's does to the queue and to the history.
LEMMA EmitOK ==
  ASSUME DaemonOK, InboxOK, NEW s \in Session, NEW kind \in {"started", "gate", "ended"},
         Emit(kind, s)
  PROVE  /\ InboxOK' /\ lagging' \subseteq Session
         /\ \/ UNCHANGED inbox /\ lagging' = lagging \cup {s}
            \/ /\ link \in Link
               /\ inbox' = [inbox EXCEPT ![link] = Append(inbox[link], Frame(kind, {s}))]
               /\ Word(link, s)
<1>1. CASE link # NoLink /\ socket[link] # "closed"
  <2>1. link \in Link
    BY <1>1 DEF DaemonOK
  <2>2. inbox' = [inbox EXCEPT ![link] = Append(inbox[link], Frame(kind, {s}))] /\ Word(link, s)
    BY <1>1 DEF Emit
  <2>3. Append(inbox[link], Frame(kind, {s})) \in Seq(Words)
    BY <2>1, MadeFrames, Appended DEF InboxOK
  <2>4. lagging' \subseteq Session
    BY <2>2 DEF Word, DaemonOK
  <2>5. QED
    BY <2>1, <2>2, <2>3, <2>4 DEF InboxOK
<1>2. CASE ~(link # NoLink /\ socket[link] # "closed")
  BY <1>2 DEF Emit, Excuse, InboxOK, DaemonOK
<1>3. QED
  BY <1>1, <1>2

\* What the daemon reads is about one session, if any.
LEMMA HeadOK ==
  ASSUME OutboxOK, NEW c \in Link, outbox[c] # <<>>
  PROVE  /\ Head(outbox[c]) \in Acts
         /\ Head(outbox[c]).about = {} \/ \E s \in Session : Head(outbox[c]).about = {s}
<1>1. Head(outbox[c]) \in Acts
  BY Shifted DEF OutboxOK
<1>2. \A f \in Acts : f.about = {} \/ \E s \in Session : f.about = {s}
  BY DEF Acts, Singles
<1>3. QED
  BY <1>1, <1>2

LEMMA DaemonStep == DaemonOK /\ InboxOK /\ OutboxOK /\ JobOK /\ [RegistryNext]_registryVars => DaemonOK' /\ InboxOK'
<1> SUFFICES ASSUME DaemonOK, InboxOK, OutboxOK, JobOK, [RegistryNext]_registryVars PROVE DaemonOK' /\ InboxOK'
  OBVIOUS
<1> USE DEF Held, LiveRow
<1>1. ASSUME NEW s \in Session, Starts(s) \/ Gates(s) \/ Ends(s)
      PROVE  DaemonOK' /\ InboxOK'
  <2>1. \E kind \in {"started", "gate", "ended"} : Emit(kind, s)
    BY <1>1 DEF Starts, Gates, Ends
  <2>2. held' \in [Session -> Held] /\ filed' \subseteq Session /\ link' = link
    BY <1>1 DEF Starts, Gates, Ends, Becomes, DaemonOK
  <2>3. QED
    BY <2>1, <2>2, EmitOK DEF DaemonOK
<1>2. ASSUME NEW s \in Session, GateExpires(s)
      PROVE  DaemonOK' /\ InboxOK'
  BY <1>2 DEF GateExpires, Becomes, Excuse, DaemonOK, InboxOK
<1>3. ASSUME NEW c \in Link, ReadsFrame(c)
      PROVE  DaemonOK' /\ InboxOK'
  <2>1. link' = link /\ outbox[c] # <<>>
    BY <1>3 DEF ReadsFrame
  <2>2. CASE ReadsAck
    <3>1. CASE UNCHANGED inbox
      BY <2>1, <2>2, <3>1 DEF ReadsAck, DaemonOK, InboxOK
    <3>2. ASSUME NEW S \in SUBSET Session, link \in Link,
                 inbox' = [inbox EXCEPT ![link] = Append(inbox[link], Frame("reconcile", S))]
          PROVE  InboxOK'
      <4>1. Append(inbox[link], Frame("reconcile", S)) \in Seq(Words)
        BY <3>2, MadeFrames, Appended DEF InboxOK
      <4>2. QED
        BY <3>2, <4>1 DEF InboxOK
    <3>3. QED
      BY <2>1, <2>2, <3>1, <3>2 DEF ReadsAck, DaemonOK
  <2>3. ASSUME NEW s \in Session, ReadsLaunch(s)
        PROVE  DaemonOK' /\ InboxOK'
    BY <2>1, <2>3 DEF ReadsLaunch, Becomes, DaemonOK, InboxOK
  <2>4. ASSUME NEW s \in Session, ReadsAct(s)
        PROVE  DaemonOK' /\ InboxOK'
    <3>1. held' \in [Session -> Held] /\ filed' \subseteq Session
      BY <2>4 DEF ReadsAct, Becomes, DaemonOK
    <3>2. \/ Emit("ended", s)
          \/ UNCHANGED inbox /\ lagging' \subseteq Session
      BY <2>4 DEF ReadsAct, Excuse, DaemonOK
    <3>3. QED
      BY <2>1, <3>1, <3>2, EmitOK DEF DaemonOK, InboxOK
  <2>5. QED
    BY <1>3, <2>1, <2>2, <2>3, <2>4, HeadOK DEF ReadsFrame
<1>4. CASE LinkDrops
  <2>1. PICK n \in 0 .. Len(inbox[link]) : inbox' = [inbox EXCEPT ![link] = SubSeq(inbox[link], 1, n)]
    BY <1>4 DEF LinkDrops
  <2>2. link \in Link
    BY <1>4 DEF LinkDrops, DaemonOK
  <2>3. SubSeq(inbox[link], 1, n) \in Seq(Words)
    BY <2>2, Shortened DEF InboxOK
  <2>4. InboxOK'
    BY <2>1, <2>2, <2>3 DEF InboxOK
  <2>5. QED
    BY <1>4, <2>4 DEF LinkDrops, Excuse, DaemonOK
<1>5. CASE DaemonRestarts
  <2>1. PICK n \in 0 .. IF link = NoLink THEN 0 ELSE Len(inbox[link]) :
          inbox' = [c \in Link |-> IF c = link THEN SubSeq(inbox[c], 1, n) ELSE inbox[c]]
    BY <1>5 DEF DaemonRestarts
  <2>2. ASSUME link \in Link
        PROVE  SubSeq(inbox[link], 1, n) \in Seq(Words)
    <3>1. n \in 0 .. Len(inbox[link])
      BY <2>1, <2>2, Appended DEF InboxOK
    <3>2. QED
      BY <2>2, <3>1, Shortened DEF InboxOK
  <2>4. InboxOK'
    BY <2>1, <2>2 DEF InboxOK
  <2>5. held' \in [Session -> Held]
    BY <1>5 DEF DaemonRestarts
  <2>6. QED
    BY <1>5, <2>4, <2>5 DEF DaemonRestarts, Excuse, DaemonOK
<1>6. ASSUME NEW c \in Link, Handles(c)
      PROVE  InboxOK'
  <2>1. inbox[c] # <<>> /\ inbox' = [inbox EXCEPT ![c] = Tail(inbox[c])]
    BY <1>6 DEF Handles
  <2>2. Tail(inbox[c]) \in Seq(Words)
    BY <2>1, Shifted DEF InboxOK
  <2>3. QED
    BY <2>1, <2>2 DEF InboxOK
<1>7. ASSUME NEW c \in Link, ReadsRows(c) \/ \E s \in Session : Persists(c, s)
      PROVE  DaemonOK' /\ InboxOK'
  BY <1>6, <1>7 DEF ReadsRows, Persists, daemonVars, DaemonOK
<1>8. ASSUME NEW c \in Link, NEW s \in Session, Retires(c, s)
      PROVE  DaemonOK' /\ InboxOK'
  BY <1>8 DEF Retires, Word, daemonVars, DaemonOK, InboxOK
<1>9. ASSUME NEW t \in Tab, MarksRunning(t) \/ ForwardsLaunch(t) \/ ForwardsAct(t)
      PROVE  DaemonOK' /\ InboxOK'
  <2>1. job[t].about \subseteq Session
    BY <1>9 DEF JobOK, TabJob, Singles
  <2>2. lagging' \subseteq Session
    BY <1>9, <2>1 DEF MarksRunning, ForwardsLaunch, ForwardsAct, Send, Excuse, DaemonOK
  <2>3. QED
    BY <1>9, <2>2 DEF MarksRunning, ForwardsLaunch, ForwardsAct, daemonVars, DaemonOK, InboxOK
<1>10. ASSUME NEW c \in Link, DaemonDials(c)
       PROVE  DaemonOK' /\ InboxOK'
  BY <1>10 DEF DaemonDials, DaemonOK, InboxOK
<1>11. ASSUME \/ \E c \in Link : Registers(c) \/ PeerCloses(c) \/ SocketForgotten(c)
              \/ \E t \in Tab : LaunchArrives(t)
              \/ \E s \in Session : \/ Archive(s) \/ Delete(s)
                                    \/ \E t \in Tab : Mints(t, s) \/ ActArrives(t, s)
              \/ UNCHANGED registryVars
       PROVE  DaemonOK' /\ InboxOK'
  BY <1>11 DEF Registers, PeerCloses, SocketForgotten, LaunchArrives, Archive, Delete, Mints,
               ActArrives, daemonVars, registryVars, DaemonOK, InboxOK
<1>12. QED
  BY <1>1, <1>2, <1>3, <1>4, <1>5, <1>7, <1>8, <1>9, <1>10, <1>11 DEF RegistryNext

LEMMA OutboxStep == DaemonOK /\ JobOK /\ OutboxOK /\ [RegistryNext]_registryVars => OutboxOK'
<1> SUFFICES ASSUME DaemonOK, JobOK, OutboxOK, [RegistryNext]_registryVars PROVE OutboxOK'
  OBVIOUS
<1>1. ASSUME NEW c \in Link, NEW f \in Acts, outbox' = [outbox EXCEPT ![c] = Append(outbox[c], f)]
      PROVE  OutboxOK'
  <2>1. Append(outbox[c], f) \in Seq(Acts)
    BY Appended DEF OutboxOK
  <2>2. QED
    BY <1>1, <2>1 DEF OutboxOK
<1>2. ASSUME NEW t \in Tab, ForwardsLaunch(t) \/ ForwardsAct(t)
      PROVE  OutboxOK'
  <2>1. UNCHANGED outbox \/ \E kind \in {"launch", "act"} :
          Reaches(job[t].to) /\ outbox' = [outbox EXCEPT ![job[t].to] =
            Append(outbox[job[t].to], Frame(kind, job[t].about))]
    BY <1>2 DEF ForwardsLaunch, ForwardsAct, Send
  <2>2. job[t].about \in Singles /\ (Reaches(job[t].to) => job[t].to \in Link)
    BY <1>2 DEF ForwardsLaunch, ForwardsAct, JobOK, TabJob, Reaches
  <2>3. QED
    BY <1>1, <2>1, <2>2, MadeFrames DEF OutboxOK
<1>3. ASSUME NEW c \in Link, Registers(c)
      PROVE  OutboxOK'
  BY <1>1, <1>3, MadeFrames DEF Registers, OutboxOK
<1>4. ASSUME NEW c \in Link, ReadsFrame(c)
      PROVE  OutboxOK'
  <2>1. Tail(outbox[c]) \in Seq(Acts)
    BY <1>4, Shifted DEF ReadsFrame, OutboxOK
  <2>2. QED
    BY <1>4, <2>1 DEF ReadsFrame, OutboxOK
<1>5. CASE LinkDrops
  <2>1. PICK k \in 0 .. Len(outbox[link]) : outbox' = [outbox EXCEPT ![link] = SubSeq(outbox[link], 1, k)]
    BY <1>5 DEF LinkDrops
  <2>2. link \in Link
    BY <1>5 DEF LinkDrops, DaemonOK
  <2>3. SubSeq(outbox[link], 1, k) \in Seq(Acts)
    BY <2>2, Shortened DEF OutboxOK
  <2>4. QED
    BY <2>1, <2>2, <2>3 DEF OutboxOK
<1>6. CASE DaemonRestarts
  BY <1>6 DEF DaemonRestarts, OutboxOK
<1>7. ASSUME \/ \E c \in Link : DaemonDials(c) \/ PeerCloses(c) \/ SocketForgotten(c) \/ ReadsRows(c)
             \/ \E t \in Tab : LaunchArrives(t) \/ MarksRunning(t)
             \/ \E s \in Session : \/ Starts(s) \/ Gates(s) \/ GateExpires(s) \/ Ends(s)
                                   \/ Archive(s) \/ Delete(s)
                                   \/ \E t \in Tab : Mints(t, s) \/ ActArrives(t, s)
                                   \/ \E c \in Link : Persists(c, s) \/ Retires(c, s)
             \/ UNCHANGED registryVars
      PROVE  UNCHANGED outbox
  BY <1>7 DEF DaemonDials, PeerCloses, SocketForgotten, ReadsRows, LaunchArrives, MarksRunning, Starts, Gates,
              GateExpires, Ends, Archive, Delete, Mints, ActArrives, Persists, Retires, registryVars
<1>8. QED
  BY <1>2, <1>3, <1>4, <1>5, <1>6, <1>7 DEF RegistryNext, OutboxOK

LEMMA JobStep ==
  SocketOK /\ JobOK /\ [RegistryNext]_registryVars => JobOK'
<1> SUFFICES ASSUME SocketOK, JobOK, [RegistryNext]_registryVars PROVE JobOK'
  OBVIOUS
<1>1. ASSUME NEW c \in Link, NEW x \in LinkJob, job' = [job EXCEPT ![c] = x]
      PROVE  JobOK'
  BY <1>1, RegistryConstants DEF JobOK
<1>2. ASSUME NEW t \in Tab, NEW x \in TabJob, job' = [job EXCEPT ![t] = x]
      PROVE  JobOK'
  BY <1>2, RegistryConstants DEF JobOK
<1>3. ASSUME NEW c \in Link, ReadsRows(c)
      PROVE  JobOK'
  <2>1. \E S \in SUBSET Session :
          job' = [job EXCEPT ![c] = IF S = {} THEN Idle ELSE Job("retire", S, NoLink)]
    BY <1>3 DEF ReadsRows
  <2>2. QED
    BY <1>1, <2>1, MadeJobs
<1>4. ASSUME NEW c \in Link, NEW s \in Session, Retires(c, s)
      PROVE  JobOK'
  <2>1. job[c].about \ {s} \in SUBSET Session
    BY DEF JobOK, LinkJob
  <2>2. QED
    BY <1>1, <1>4, <2>1, MadeJobs DEF Retires
<1>5. ASSUME NEW t \in Tab, LaunchArrives(t)
      PROVE  JobOK'
  BY <1>2, <1>5, MadeJobs DEF LaunchArrives, SocketOK
<1>6. ASSUME NEW t \in Tab, NEW s \in Session, Mints(t, s) \/ ActArrives(t, s)
      PROVE  JobOK'
  <2>1. job[t].to \in Link \cup {NoLink} /\ {s} \in Singles
    BY DEF JobOK, TabJob, Singles
  <2>2. QED
    BY <1>2, <1>6, <2>1, MadeJobs DEF Mints, ActArrives, SocketOK
<1>7. ASSUME NEW t \in Tab, MarksRunning(t)
      PROVE  JobOK'
  <2>1. job[t].to \in Link \cup {NoLink} /\ job[t].about \in Singles
    BY <1>7 DEF JobOK, TabJob, MarksRunning
  <2>2. QED
    BY <1>2, <1>7, <2>1, MadeJobs DEF MarksRunning
<1>8. ASSUME NEW t \in Tab, ForwardsLaunch(t) \/ ForwardsAct(t)
      PROVE  JobOK'
  BY <1>2, <1>8, MadeJobs DEF ForwardsLaunch, ForwardsAct
<1>9. ASSUME \/ LinkDrops \/ DaemonRestarts
             \/ \E c \in Link : \/ DaemonDials(c) \/ Registers(c) \/ PeerCloses(c) \/ SocketForgotten(c)
                                \/ ReadsFrame(c)
             \/ \E s \in Session : \/ Starts(s) \/ Gates(s) \/ GateExpires(s) \/ Ends(s)
                                   \/ Archive(s) \/ Delete(s)
                                   \/ \E c \in Link : Persists(c, s)
             \/ UNCHANGED registryVars
      PROVE  UNCHANGED job
  BY <1>9 DEF LinkDrops, DaemonRestarts, DaemonDials, Registers, PeerCloses, SocketForgotten, ReadsFrame,
              Starts, Gates, GateExpires, Ends, Archive, Delete, Persists, relayVars, registryVars
<1>10. QED
  BY <1>3, <1>4, <1>5, <1>6, <1>7, <1>8, <1>9 DEF RegistryNext, JobOK

LEMMA ShapesStep == ShelfInv /\ Shapes /\ [RegistryNext]_registryVars => Shapes'
  BY ShelfStep, SocketStep, DaemonStep, OutboxStep, JobStep DEF Shapes, ShelfInv

LEMMA ShapesType == Shapes => RegistryTypeOK
<1> SUFFICES ASSUME Shapes PROVE RegistryTypeOK
  OBVIOUS
<1>1. ASSUME NEW c \in Link
      PROVE  /\ \A i \in DOMAIN inbox[c] :
                  inbox[c][i] \in [kind : {"started", "gate", "ended", "reconcile"}, about : SUBSET Session]
             /\ \A i \in DOMAIN outbox[c] :
                  outbox[c][i] \in [kind : {"ack", "launch", "act"}, about : SUBSET Session]
  <2>1. \A i \in DOMAIN inbox[c] : inbox[c][i] \in Words
    BY DEF Shapes, InboxOK
  <2>2. \A i \in DOMAIN outbox[c] : outbox[c][i] \in Acts
    BY DEF Shapes, OutboxOK
  <2>3. QED
    BY <2>1, <2>2 DEF Words, Acts, Singles
<1>2. \A c \in Link \cup Tab : job[c].about \subseteq Session /\ job[c].to \in Link \cup {NoLink}
  BY DEF Shapes, JobOK, LinkJob, TabJob, Singles
<1>3. QED
  BY <1>1, <1>2 DEF Shapes, Table, SocketOK, DaemonOK, RegistryTypeOK

-----------------------------------------------------------------------------
(* The inductive invariant, of one session. *)

Works(t, kind, s) == job[t].kind = kind /\ s \in job[t].about

\* The launch of s is under way; so is an act on s that has set its row.
Launching(s) == \/ \E t \in Tab : Works(t, "minted", s)
                \/ \E c \in Link : Carries(outbox[c], "launch", s)
Acted(s)     == \/ \E t \in Tab : Works(t, "acted", s)
                \/ \E c \in Link : Carries(outbox[c], "act", s)

\* Nothing is said of a session that has no row; a row that is being retired has been live.
HasRow(s) ==
  /\ row[s] = "absent" => /\ held[s] = "none" /\ s \notin filed /\ ~Acting(s)
                          /\ \A c \in Link : ~Spoken(inbox[c], s)
  /\ row[s] \in {"absent", "starting"} => \A c \in Link : s \notin job[c].about

\* A session is launched once, and the daemon knows nothing of it before.
OneLaunch(s) ==
  /\ \A t, u \in Tab : Works(t, "minted", s) /\ Works(u, "minted", s) => t = u
  /\ \A t \in Tab, c \in Link : ~(Works(t, "minted", s) /\ Carries(outbox[c], "launch", s))
  /\ \A c, d \in Link : Carries(outbox[c], "launch", s) /\ Carries(outbox[d], "launch", s) => c = d
  /\ \A c \in Link : LaunchedOnce(outbox[c], s)
  /\ Launching(s) => held[s] = "none" /\ s \notin filed /\ \A c \in Link : ~Spoken(inbox[c], s)

\* Of a session that it does not hold, or not yet, the daemon has nothing on file, and on its
\* current link it has said nothing of it.
Unheard(s) ==
  /\ held[s] \in {"none", "preparing"} => s \notin filed
  /\ held[s] = "preparing" => \A c \in Link : ~Spoken(inbox[c], s)
  /\ held[s] = "none" /\ link # NoLink => ~Spoken(inbox[link], s)

\* One socket speaks of s, the last frame there tells what s is; and a live session is omitted,
\* or its row retired, only before that.
WordsTell(s) ==
  /\ (\A c \in Link : ~Spoken(inbox[c], s)) => row[s] \in Agreeing(held[s])
  /\ \A c, d \in Link : Spoken(inbox[c], s) /\ Spoken(inbox[d], s) => c = d
  /\ \A c \in Link : LastTells(inbox[c], s, held[s])
  /\ held[s] \in LiveRow =>
       \A c \in Link : Corrected(inbox[c], s) /\ (s \in job[c].about => Spoken(inbox[c], s))

\* An act on s finds it as its row is, or is excused when it is read.
ActTells(s) == held[s] \in {"none", "preparing"} \/ (row[s] = "running" /\ ~UnderWay(s))

Tells(s) ==
  \/ row[s] = "deleted" \/ s \in lagging
  \/ Acted(s) /\ ActTells(s)
  \/ ~Acted(s) /\ Launching(s) /\ row[s] = "starting"
  \/ ~Acted(s) /\ ~Launching(s) /\ WordsTell(s)

Local(s) == HasRow(s) /\ OneLaunch(s) /\ Unheard(s) /\ Tells(s)

\* A socket that may be dialled has nothing on it, and is nobody's.
Fresh(c) == socket[c] = "new" => inbox[c] = <<>> /\ c # link

RInv == Shapes /\ (\A s \in Session : Local(s)) /\ (\A c \in Link : Fresh(c))

LEMMA InboxTouches ==
  ASSUME NEW q, NEW s
  PROVE  (\E i \in DOMAIN q : Touches(q[i], s)) <=> Spoken(q, s) \/ Omitted(q, s)
  BY DEF Touches, Spoken, Omitted, Says, Omits

LEMMA OutboxAbout ==
  ASSUME NEW p \in Seq(Acts), NEW s
  PROVE  (\E i \in DOMAIN p : s \in p[i].about) <=> Carries(p, "launch", s) \/ Carries(p, "act", s)
<1>1. \A i \in DOMAIN p : p[i] \in Acts
  OBVIOUS
<1>2. \A f \in Acts : s \in f.about => f.kind = "launch" \/ f.kind = "act"
  BY DEF Acts
<1>3. QED
  BY <1>1, <1>2 DEF Carries

\* What is said of s under way is spoken, omitted or retired; what is acted is a tab's job or
\* carried.
LEMMA WordsUnderWay ==
  /\ \A c, s : UnderWayOn(c, s) <=> s \in job[c].about \/ Spoken(inbox[c], s) \/ Omitted(inbox[c], s)
  /\ \A s : UnderWay(s)' <=>
       \E c \in Link : s \in job'[c].about \/ Spoken(inbox'[c], s) \/ Omitted(inbox'[c], s)
  BY InboxTouches DEF UnderWay, UnderWayOn

LEMMA ActsUnderWay ==
  /\ OutboxOK => \A s : Acting(s) <=>
       \/ \E t \in Tab : s \in job[t].about
       \/ \E c \in Link : Carries(outbox[c], "launch", s) \/ Carries(outbox[c], "act", s)
  /\ OutboxOK' => \A s : Acting(s)' <=>
       \/ \E t \in Tab : s \in job'[t].about
       \/ \E c \in Link : Carries(outbox'[c], "launch", s) \/ Carries(outbox'[c], "act", s)
<1>1. ASSUME OutboxOK
      PROVE  \A s : Acting(s) <=>
               \/ \E t \in Tab : s \in job[t].about
               \/ \E c \in Link : Carries(outbox[c], "launch", s) \/ Carries(outbox[c], "act", s)
  <2>1. \A c \in Link : outbox[c] \in Seq(Acts)
    BY <1>1 DEF OutboxOK
  <2>2. QED
    BY <2>1, OutboxAbout DEF Acting
<1>2. ASSUME OutboxOK'
      PROVE  \A s : Acting(s)' <=>
               \/ \E t \in Tab : s \in job'[t].about
               \/ \E c \in Link : Carries(outbox'[c], "launch", s) \/ Carries(outbox'[c], "act", s)
  <2>1. \A c \in Link : outbox'[c] \in Seq(Acts)
    BY <1>2 DEF OutboxOK
  <2>2. QED
    BY <2>1, OutboxAbout DEF Acting
<1>3. QED
  BY <1>1, <1>2

\* A step that leaves what is said of s, the acts on s, the jobs about s.
KeepsWords(s) ==
  \A c \in Link : /\ Spoken(inbox'[c], s) <=> Spoken(inbox[c], s)
                  /\ Omitted(inbox'[c], s) => Omitted(inbox[c], s)
                  /\ LastTells(inbox[c], s, held[s]) => LastTells(inbox'[c], s, held[s])
                  /\ Corrected(inbox[c], s) => Corrected(inbox'[c], s)
KeepsActs(s) ==
  \A c \in Link : /\ Carries(outbox'[c], "launch", s) <=> Carries(outbox[c], "launch", s)
                  /\ Carries(outbox'[c], "act", s) <=> Carries(outbox[c], "act", s)
                  /\ LaunchedOnce(outbox[c], s) => LaunchedOnce(outbox'[c], s)
KeepsJobs(s) ==
  /\ \A t \in Tab : /\ Works(t, "minted", s)' <=> Works(t, "minted", s)
                    /\ Works(t, "acted", s)' <=> Works(t, "acted", s)
                    /\ s \in job'[t].about => s \in job[t].about \/ row[s] # "absent"
  /\ \A c \in Link : s \in job'[c].about => s \in job[c].about
Keeps(s) == /\ row'[s] = row[s] /\ held'[s] = held[s] /\ (s \in filed' => s \in filed)
            /\ (s \in lagging => s \in lagging')
            /\ (link' # NoLink => link' = link \/ ~Spoken(inbox'[link'], s))
            /\ KeepsWords(s) /\ KeepsActs(s) /\ KeepsJobs(s)

LEMMA Kept ==
  ASSUME OutboxOK, OutboxOK', NEW s \in Session, Local(s), Keeps(s), link \in Link \cup {NoLink}
  PROVE  Local(s)'
<1> USE DEF Keeps
<1>1. HasRow(s)'
  BY ActsUnderWay DEF Local, HasRow, KeepsWords, KeepsActs, KeepsJobs
<1>2. (Launching(s)' <=> Launching(s)) /\ (Acted(s)' <=> Acted(s))
  BY DEF Launching, Acted, KeepsActs, KeepsJobs
<1>3. OneLaunch(s)'
  BY <1>2 DEF Local, OneLaunch, KeepsWords, KeepsActs, KeepsJobs
<1>4. Unheard(s)'
  BY DEF Local, Unheard, KeepsWords
<1>5. ActTells(s) => ActTells(s)'
  BY WordsUnderWay DEF ActTells, UnderWay, KeepsWords, KeepsJobs
<1>6. WordsTell(s) => WordsTell(s)'
  BY DEF WordsTell, KeepsWords, KeepsJobs
<1>7. Tells(s)'
  BY <1>2, <1>5, <1>6 DEF Local, Tells
<1>8. QED
  BY <1>1, <1>3, <1>4, <1>7 DEF Local

\* Queues that do not change keep their words, and so do jobs.
LEMMA SameQueues ==
  ASSUME NEW s
  PROVE  (UNCHANGED inbox => KeepsWords(s)) /\ (UNCHANGED outbox => KeepsActs(s))
           /\ (UNCHANGED job => KeepsJobs(s))
  BY DEF KeepsWords, KeepsActs, KeepsJobs, Works

\* A frame that another session is about, or that comes off the queue unread by this one.
LEMMA OtherSent ==
  ASSUME OutboxOK, NEW s, NEW c \in Link, NEW f \in Acts, s \notin f.about,
         outbox' = [outbox EXCEPT ![c] = Append(outbox[c], f)]
  PROVE  KeepsActs(s)
<1>1. \A d \in Link : outbox[d] \in Seq(Acts)
  BY DEF OutboxOK
<1>2. /\ outbox'[c] = Append(outbox[c], f)
      /\ \A d \in Link : d # c => outbox'[d] = outbox[d]
  BY DEF OutboxOK
<1>3. /\ \A kind : Carries(outbox'[c], kind, s) <=> Carries(outbox[c], kind, s)
      /\ LaunchedOnce(outbox[c], s) => LaunchedOnce(outbox'[c], s)
  BY <1>1, <1>2, AddsAct DEF Launches
<1>4. QED
  BY <1>2, <1>3 DEF KeepsActs

LEMMA OtherRead ==
  ASSUME OutboxOK, NEW s, NEW c \in Link, outbox[c] # <<>>, s \notin Head(outbox[c]).about,
         outbox' = [outbox EXCEPT ![c] = Tail(outbox[c])]
  PROVE  KeepsActs(s)
<1>1. outbox[c] \in Seq(Acts)
  BY DEF OutboxOK
<1>2. /\ outbox'[c] = Tail(outbox[c])
      /\ \A d \in Link : d # c => outbox'[d] = outbox[d]
  BY DEF OutboxOK
<1>3. /\ \A kind : Carries(outbox'[c], kind, s) <=> Carries(outbox[c], kind, s)
      /\ LaunchedOnce(outbox[c], s) => LaunchedOnce(outbox'[c], s)
  BY <1>1, <1>2, TakesAct
<1>4. QED
  BY <1>2, <1>3 DEF KeepsActs

LEMMA OtherEmitted ==
  ASSUME InboxOK, NEW s, NEW c \in Link, NEW f \in Words, ~Says(f, s), ~Omits(f, s),
         inbox' = [inbox EXCEPT ![c] = Append(inbox[c], f)]
  PROVE  KeepsWords(s)
<1>1. inbox[c] \in Seq(Words)
  BY DEF InboxOK
<1>2. /\ inbox'[c] = Append(inbox[c], f)
      /\ \A d \in Link : d # c => inbox'[d] = inbox[d]
  BY DEF InboxOK
<1>3. /\ Spoken(inbox'[c], s) <=> Spoken(inbox[c], s)
      /\ Omitted(inbox'[c], s) <=> Omitted(inbox[c], s)
      /\ LastTells(inbox[c], s, held[s]) => LastTells(inbox'[c], s, held[s])
      /\ Corrected(inbox[c], s) => Corrected(inbox'[c], s)
  BY <1>1, <1>2, AddsWord
<1>4. QED
  BY <1>2, <1>3 DEF KeepsWords

LEMMA OtherHandled ==
  ASSUME InboxOK, NEW s, NEW c \in Link, Handles(c), ~Says(Head(inbox[c]), s)
  PROVE  KeepsWords(s)
<1>1. inbox[c] \in Seq(Words) /\ inbox[c] # <<>>
  BY DEF InboxOK, Handles
<1>2. /\ inbox'[c] = Tail(inbox[c])
      /\ \A d \in Link : d # c => inbox'[d] = inbox[d]
  BY DEF InboxOK, Handles
<1>3. /\ Spoken(inbox'[c], s) <=> Spoken(inbox[c], s)
      /\ Omitted(inbox'[c], s) => Omitted(inbox[c], s)
      /\ LastTells(inbox[c], s, held[s]) => LastTells(inbox'[c], s, held[s])
      /\ Corrected(inbox[c], s) => Corrected(inbox'[c], s)
  BY <1>1, <1>2, TakesWord
<1>4. QED
  BY <1>2, <1>3 DEF KeepsWords

\* The rows, one at a time.
LEMMA SetsRow ==
  ASSUME Table, NEW s \in Session, NEW x \in Session, NEW status, SetRow(x, status)
  PROVE  /\ s # x => row'[s] = row[s]
         /\ row[s] \in {"absent", "deleted"} => row'[s] = row[s]
         /\ row[x] \notin {"absent", "deleted"} => row'[x] = status
  BY DEF Table, SetRow

-----------------------------------------------------------------------------
(* Every step keeps the invariant of a session. *)

\* Steps that are not about the session, or only about who has a socket.
LEMMA Quiet ==
  ASSUME Shapes, Shapes', NEW s \in Session, Local(s), \A c \in Link : Fresh(c),
         \/ \E c \in Link : DaemonDials(c) \/ PeerCloses(c) \/ SocketForgotten(c) \/ Registers(c)
         \/ \E t \in Tab : LaunchArrives(t) \/ \E x \in Session : ActArrives(t, x)
         \/ \E x \in Session : Archive(x)
         \/ \E x \in Session : x # s /\ (Delete(x) \/ GateExpires(x))
         \/ UNCHANGED registryVars
  PROVE  Local(s)'
<1>1. OutboxOK /\ OutboxOK' /\ link \in Link \cup {NoLink}
  BY DEF Shapes, DaemonOK
<1>2. row'[s] = row[s] /\ held'[s] = held[s] /\ (s \in filed' => s \in filed)
        /\ (s \in lagging => s \in lagging') /\ KeepsWords(s)
  <2>1. UNCHANGED inbox
    BY DEF DaemonDials, PeerCloses, SocketForgotten, Registers, LaunchArrives, ActArrives, Archive, Delete,
           GateExpires, daemonVars, registryVars
  <2>2. row'[s] = row[s]
    BY DEF DaemonDials, PeerCloses, SocketForgotten, Registers, LaunchArrives, ActArrives, Archive, Delete,
           GateExpires, relayVars, registryVars, Shapes, Table
  <2>3. held'[s] = held[s] /\ (s \in filed' => s \in filed)
    BY DEF DaemonDials, PeerCloses, SocketForgotten, Registers, LaunchArrives, ActArrives, Archive, Delete,
           GateExpires, Becomes, daemonVars, registryVars, Shapes, DaemonOK
  <2>4. lagging \subseteq lagging'
    BY DEF DaemonDials, PeerCloses, SocketForgotten, Registers, LaunchArrives, ActArrives, Archive, Delete,
           GateExpires, Excuse, registryVars
  <2>5. QED
    BY <2>1, <2>2, <2>3, <2>4, SameQueues
<1>3. KeepsActs(s)
  <2>1. UNCHANGED outbox \/ \E c \in Link : outbox' = [outbox EXCEPT ![c] = Append(outbox[c], Frame("ack", {}))]
    BY DEF DaemonDials, PeerCloses, SocketForgotten, Registers, LaunchArrives, ActArrives, Archive, Delete,
           GateExpires, registryVars
  <2>2. s \notin Frame("ack", {}).about /\ Frame("ack", {}) \in Acts
    BY MadeFrames DEF Frame
  <2>3. QED
    BY <1>1, <2>1, <2>2, OtherSent, SameQueues
<1>4. KeepsJobs(s)
  <2>1. CASE UNCHANGED job
    BY <2>1, SameQueues
  <2>2. ASSUME NEW t \in Tab, LaunchArrives(t)
        PROVE  KeepsJobs(s)
    <3>1. job' = [job EXCEPT ![t] = Job("launch", {}, holder)] /\ job[t] = Idle
      BY <2>2 DEF LaunchArrives
    <3>2. /\ job'[t].kind = "launch" /\ job'[t].about = {} /\ job[t].kind = "idle"
          /\ \A u \in Link \cup Tab : u # t => job'[u] = job[u]
      BY <3>1 DEF Job, Idle, Shapes, JobOK
    <3>3. QED
      BY <3>2 DEF KeepsJobs, Works
  <2>3. ASSUME NEW t \in Tab, NEW x \in Session, ActArrives(t, x)
        PROVE  KeepsJobs(s)
    <3>1. job' = [job EXCEPT ![t] = Job("act", {x}, holder)] /\ job[t] = Idle /\ row[x] # "absent"
      BY <2>3 DEF ActArrives
    <3>2. /\ job'[t].kind = "act" /\ job'[t].about = {x} /\ job[t].kind = "idle"
          /\ \A u \in Link \cup Tab : u # t => job'[u] = job[u]
      BY <3>1 DEF Job, Idle, Shapes, JobOK
    <3>3. t \notin Link
      BY <3>2 DEF Shapes, JobOK, LinkJob
    <3>4. QED
      BY <3>1, <3>2, <3>3 DEF KeepsJobs, Works
  <2>4. QED
    BY <2>1, <2>2, <2>3 DEF DaemonDials, PeerCloses, SocketForgotten, Registers, Archive, Delete,
                            GateExpires, relayVars, registryVars
<1>5. link' # NoLink => link' = link \/ ~Spoken(inbox'[link'], s)
  <2>1. ASSUME NEW c \in Link, DaemonDials(c)
        PROVE  ~Spoken(inbox'[c], s) /\ link' = c
    BY <2>1 DEF DaemonDials, Fresh, Spoken
  <2>2. QED
    BY <2>1 DEF PeerCloses, SocketForgotten, Registers, LaunchArrives, ActArrives, Archive, Delete,
                GateExpires, daemonVars, registryVars
<1>6. QED
  BY <1>1, <1>2, <1>3, <1>4, <1>5, Kept DEF Keeps

\* A deleted row, and an excused one, need tell nothing.
LEMMA Deletes ==
  ASSUME Shapes, Shapes', NEW s \in Session, Local(s), Delete(s)
  PROVE  Local(s)'
<1>1. row'[s] = "deleted"
  BY DEF Delete, Shapes, Table
<1>2. UNCHANGED <<held, filed, link, inbox, outbox, job>>
  BY DEF Delete, daemonVars
<1>3. OneLaunch(s)' /\ Unheard(s)'
  BY <1>2 DEF Local, OneLaunch, Unheard, Launching, Works
<1>4. QED
  BY <1>1, <1>3 DEF Local, HasRow, Tells

\* A session of the daemon's moves, and says so: its row follows from that frame, or is excused.
LEMMA Emits ==
  ASSUME Shapes, Shapes', NEW s \in Session, Local(s), UNCHANGED <<row, job, outbox, link>>,
         NEW kind \in {"started", "gate", "ended"}, Emit(kind, s),
         Leaves(kind, held'[s]), held[s] # "none", held'[s] # "none"
  PROVE  Local(s)'
<1>1. InboxOK /\ OutboxOK /\ DaemonOK
  BY DEF Shapes
<1>2. row[s] # "absent" /\ ~Launching(s)
  BY DEF Local, HasRow, OneLaunch
<1>3. (Launching(s)' <=> Launching(s)) /\ (Acted(s)' <=> Acted(s))
  BY DEF Launching, Acted, Works
<1>4. HasRow(s)'
  BY <1>2 DEF Local, HasRow
<1>5. OneLaunch(s)'
  BY <1>2, <1>3 DEF Local, OneLaunch, Works
<1>6. Unheard(s)'
  BY DEF Unheard, Leaves
<1>7. CASE s \in lagging'
  BY <1>4, <1>5, <1>6, <1>7 DEF Local, Tells
<1>8. CASE s \notin lagging'
  <2>1. /\ link \in Link
        /\ inbox' = [inbox EXCEPT ![link] = Append(inbox[link], Frame(kind, {s}))]
        /\ ~Crossed(link, s)
    BY <1>1, <1>8, EmitOK DEF Word
  <2>2. ~Acting(s) /\ \A d \in Link \ {link} : ~UnderWayOn(d, s)
    BY <2>1 DEF Crossed
  <2>3. ~Acted(s)
    BY <1>1, <2>2, ActsUnderWay DEF Acted, Works
  <2>4. \A d \in Link \ {link} : s \notin job[d].about /\ ~Spoken(inbox[d], s) /\ ~Omitted(inbox[d], s)
    BY <2>2, WordsUnderWay
  <2>5. inbox'[link] = Append(inbox[link], Frame(kind, {s})) /\ \A d \in Link \ {link} : inbox'[d] = inbox[d]
    BY <1>1, <2>1 DEF InboxOK
  <2>6. Frame(kind, {s}) \in Words /\ Says(Frame(kind, {s}), s) /\ Frame(kind, {s}).kind = kind
    BY MadeFrames DEF Frame, Says
  <2>7. /\ Spoken(inbox'[link], s) /\ Corrected(inbox'[link], s)
        /\ LastTells(inbox'[link], s, held'[s])
    <3>1. inbox[link] \in Seq(Words)
      BY <1>1, <2>1 DEF InboxOK
    <3>2. QED
      BY <2>5, <2>6, <3>1, AddsWord
  <2>8. \A d \in Link \ {link} : ~Spoken(inbox'[d], s) /\ Corrected(inbox'[d], s)
                                   /\ LastTells(inbox'[d], s, held'[s]) /\ s \notin job'[d].about
    BY <2>4, <2>5 DEF Spoken, Omitted, Corrected, LastTells
  <2>9. WordsTell(s)'
    BY <2>1, <2>7, <2>8 DEF WordsTell
  <2>10. Tells(s)'
    BY <1>2, <1>3, <2>3, <2>9 DEF Tells
  <2>11. QED
    BY <1>4, <1>5, <1>6, <2>10 DEF Local
<1>9. QED
  BY <1>7, <1>8

\* A frame about another session.
LEMMA EmitsElse ==
  ASSUME Shapes, NEW s \in Session, NEW x \in Session, x # s,
         NEW kind \in {"started", "gate", "ended"}, Emit(kind, x)
  PROVE  KeepsWords(s) /\ (s \in lagging => s \in lagging')
<1>1. InboxOK /\ DaemonOK
  BY DEF Shapes
<1>2. ~Says(Frame(kind, {x}), s) /\ ~Omits(Frame(kind, {x}), s) /\ Frame(kind, {x}) \in Words
  BY MadeFrames DEF Says, Omits, Frame
<1>3. KeepsWords(s)
  BY <1>1, <1>2, EmitOK, OtherEmitted, SameQueues
<1>4. s \in lagging => s \in lagging'
  BY <1>1, EmitOK DEF Word
<1>5. QED
  BY <1>3, <1>4

\* Starts, gates, ends, and gates that expire.
LEMMA SessionMoves ==
  ASSUME Shapes, Shapes', NEW s \in Session, Local(s), NEW x \in Session,
         Starts(x) \/ Gates(x) \/ Ends(x) \/ (GateExpires(x) /\ x = s)
  PROVE  Local(s)'
<1>0. DaemonOK /\ OutboxOK /\ OutboxOK' /\ link \in Link \cup {NoLink}
  BY DEF Shapes, DaemonOK
<1>1. CASE GateExpires(s)
  <2>1. UNCHANGED <<row, job, inbox, outbox, link>> /\ held[s] = "awaiting_input" /\ held'[s] = "running"
          /\ s \in lagging'
    BY <1>0, <1>1 DEF GateExpires, Becomes, Excuse, relayVars, DaemonOK
  <2>2. row[s] # "absent" /\ ~Launching(s) /\ ~Launching(s)'
    BY <2>1 DEF Local, HasRow, OneLaunch, Launching, Works
  <2>3. OneLaunch(s)'
    BY <2>1, <2>2 DEF Local, OneLaunch, Works
  <2>4. QED
    BY <2>1, <2>2, <2>3 DEF Local, HasRow, Unheard, Tells
<1>2. ASSUME Starts(x) \/ Gates(x) \/ Ends(x)
      PROVE  Local(s)'
  <2>1. PICK kind \in {"started", "gate", "ended"} :
          \E state : Becomes(x, state) /\ Emit(kind, x) /\ Leaves(kind, state) /\ state # "none"
    BY <1>2 DEF Starts, Gates, Ends, Leaves
  <2>2. held[x] # "none" /\ UNCHANGED <<row, job, outbox, link>>
    BY <1>2 DEF Starts, Gates, Ends, LiveRow, relayVars
  <2>3. Leaves(kind, held'[x]) /\ held'[x] # "none"
    BY <1>0, <2>1 DEF Becomes, DaemonOK
  <2>4. CASE x = s
    BY <2>1, <2>2, <2>3, <2>4, Emits
  <2>5. CASE x # s
    <3>1. held'[s] = held[s] /\ (s \in filed' => s \in filed)
      BY <1>0, <2>1, <2>5 DEF Becomes, DaemonOK
    <3>2. KeepsWords(s) /\ (s \in lagging => s \in lagging')
      BY <2>1, <2>5, EmitsElse
    <3>3. QED
      BY <1>0, <2>2, <3>1, <3>2, Kept, SameQueues DEF Keeps
  <2>6. QED
    BY <2>4, <2>5
<1>3. QED
  BY <1>1, <1>2

\* The daemon reads its next frame.
LEMMA Reads ==
  ASSUME Shapes, Shapes', NEW s \in Session, Local(s), NEW c \in Link, ReadsFrame(c)
  PROVE  Local(s)'
<1> DEFINE f == Head(outbox[c])
<1>0. /\ InboxOK /\ DaemonOK /\ OutboxOK /\ OutboxOK' /\ link \in Link \cup {NoLink}
      /\ f \in Acts /\ outbox[c] # <<>>
  BY HeadOK DEF Shapes, DaemonOK, ReadsFrame
<1>1. UNCHANGED <<row, job, link>> /\ outbox' = [outbox EXCEPT ![c] = Tail(outbox[c])]
  BY DEF ReadsFrame, relayVars
<1> HIDE DEF f
\* Not about s: KeepsActs.
<1>2. s \notin f.about => KeepsActs(s)
  BY <1>0, <1>1, OtherRead DEF f
\* What is left of it.
<1>3. /\ \A kind : Carries(outbox[c], kind, s) <=> Carries(outbox'[c], kind, s) \/ (f.kind = kind /\ s \in f.about)
      /\ LaunchedOnce(outbox[c], s) => LaunchedOnce(outbox'[c], s)
      /\ LaunchedOnce(outbox[c], s) /\ Launches(f, s) => ~Carries(outbox'[c], "launch", s)
      /\ \A d \in Link : d # c => outbox'[d] = outbox[d]
  <2>1. outbox[c] \in Seq(Acts) /\ outbox'[c] = Tail(outbox[c]) /\ \A d \in Link : d # c => outbox'[d] = outbox[d]
    BY <1>0, <1>1 DEF OutboxOK
  <2>2. QED
    BY <1>0, <2>1, TakesAct DEF f
<1>4. (Launching(s)' => Launching(s)) /\ (Acted(s)' => Acted(s))
  BY <1>1, <1>3 DEF Launching, Acted, Works
\* The record of another session moves.
<1>5. ASSUME s \notin f.about, held'[s] = held[s], s \in filed' => s \in filed, KeepsWords(s),
             s \in lagging => s \in lagging'
      PROVE  Local(s)'
  BY <1>0, <1>1, <1>2, <1>5, Kept, SameQueues DEF Keeps
<1>6. ASSUME f.kind = "ack", ReadsAck
      PROVE  Local(s)'
  <2>1. f.about = {} /\ UNCHANGED <<held, filed, lagging>>
    BY <1>0, <1>6 DEF Acts, ReadsAck
  <2>2. CASE UNCHANGED inbox
    BY <1>5, <2>1, <2>2, SameQueues
  <2>3. ASSUME NEW S \in SUBSET Session, S = {x \in Session : held[x] \notin {"none", "preparing"}}, link \in Link,
               inbox' = [inbox EXCEPT ![link] = Append(inbox[link], Frame("reconcile", S))]
        PROVE  Local(s)'
    <3>1. Frame("reconcile", S) \in Words /\ ~Says(Frame("reconcile", S), s)
            /\ (s \in S => ~Omits(Frame("reconcile", S), s))
      BY MadeFrames DEF Frame, Says, Omits
    <3>2. CASE s \in S
      BY <1>0, <1>5, <2>1, <2>3, <3>1, <3>2, OtherEmitted
    <3>3. CASE s \notin S
      <4>1. held[s] \in {"none", "preparing"} /\ held'[s] = held[s]
        BY <2>1, <2>3, <3>3
      <4>2. inbox[link] \in Seq(Words) /\ inbox'[link] = Append(inbox[link], Frame("reconcile", S))
              /\ \A d \in Link : d # link => inbox'[d] = inbox[d]
        BY <1>0, <2>3 DEF InboxOK
      <4>3. \A d \in Link : /\ Spoken(inbox'[d], s) <=> Spoken(inbox[d], s)
                            /\ LastTells(inbox[d], s, held[s]) => LastTells(inbox'[d], s, held[s])
        BY <2>3, <3>1, <4>2, AddsWord
      <4>4. KeepsActs(s) /\ (Launching(s)' <=> Launching(s)) /\ (Acted(s)' <=> Acted(s))
        BY <1>1, <1>2, <2>1 DEF Launching, Acted, Works, KeepsActs
      <4>5. HasRow(s)'
        BY <1>0, <1>1, <2>1, <4>3, <4>4, ActsUnderWay DEF Local, HasRow, KeepsActs
      <4>6. OneLaunch(s)'
        BY <1>1, <2>1, <4>3, <4>4 DEF Local, OneLaunch, KeepsActs, Works
      <4>7. Unheard(s)'
        BY <1>0, <1>1, <2>1, <4>3 DEF Local, Unheard
      <4>8. WordsTell(s) => WordsTell(s)'
        BY <1>1, <4>1, <4>3 DEF WordsTell, LiveRow
      <4>9. Tells(s)'
        BY <1>1, <2>1, <4>1, <4>4, <4>8 DEF Local, Tells, ActTells
      <4>10. QED
        BY <4>5, <4>6, <4>7, <4>9 DEF Local
    <3>4. QED
      BY <3>2, <3>3
  <2>4. QED
    BY <1>0, <1>6, <2>2, <2>3 DEF ReadsAck
<1>7. ASSUME NEW x \in Session, f.about = {x}, f.kind = "launch", ReadsLaunch(x)
      PROVE  Local(s)'
  <2>1. UNCHANGED <<inbox, lagging>> /\ held' = [held EXCEPT ![x] = "preparing"] /\ filed' = filed
    BY <1>7 DEF ReadsLaunch, Becomes
  <2>2. CASE x # s
    BY <1>0, <1>5, <1>7, <2>1, <2>2, SameQueues DEF DaemonOK
  <2>3. CASE x = s
    <3>1. Launches(f, s) /\ Carries(outbox[c], "launch", s) /\ Launching(s)
      BY <1>3, <1>7, <2>3 DEF Launches, Launching
    <3>2. held[s] = "none" /\ held'[s] = "preparing" /\ s \notin filed /\ \A d \in Link : ~Spoken(inbox[d], s)
      BY <1>0, <2>1, <2>3, <3>1 DEF Local, OneLaunch, DaemonOK
    <3>3. row[s] # "absent"
      BY <1>0, <3>1, ActsUnderWay DEF Local, HasRow
    <3>4. ~Launching(s)'
      BY <1>1, <1>3, <3>1 DEF Local, OneLaunch, Launching, Works
    <3>5. HasRow(s)'
      BY <1>1, <3>3 DEF Local, HasRow
    <3>6. OneLaunch(s)'
      BY <1>1, <1>3, <3>4 DEF Local, OneLaunch, Works
    <3>7. Unheard(s)'
      BY <2>1, <3>2 DEF Unheard
    <3>8. row[s] = "starting" => WordsTell(s)'
      BY <1>1, <2>1, <3>2 DEF WordsTell, Agreeing, LastTells, Spoken, LiveRow
    <3>9. Acted(s)' => ActTells(s)'
      BY <3>2 DEF ActTells
    <3>10. Acted(s) => Acted(s)'
      BY <1>1, <1>3, <1>7 DEF Acted, Works
    <3>11. Tells(s)'
      BY <1>1, <2>1, <3>1, <3>4, <3>8, <3>9, <3>10 DEF Local, Tells
    <3>12. QED
      BY <3>5, <3>6, <3>7, <3>11 DEF Local
  <2>4. QED
    BY <2>2, <2>3
<1>8. ASSUME NEW x \in Session, f.about = {x}, f.kind = "act", ReadsAct(x)
      PROVE  Local(s)'
  <2>1. CASE x # s
    <3>1. held'[s] = held[s] /\ (s \in filed' => s \in filed)
      BY <1>0, <1>8, <2>1 DEF ReadsAct, Becomes, DaemonOK
    <3>2. Emit("ended", x) \/ (UNCHANGED inbox /\ lagging \subseteq lagging')
      BY <1>8 DEF ReadsAct, Excuse
    <3>3. QED
      BY <1>5, <1>8, <2>1, <3>1, <3>2, EmitsElse, SameQueues
  <2>2. CASE x = s
    <3>1. Acted(s) /\ Acting(s)
      BY <1>0, <1>3, <1>8, <2>2, ActsUnderWay DEF Acted
    <3>2. row[s] # "absent"
      BY <3>1 DEF Local, HasRow
    <3>3. HasRow(s)'
      BY <1>1, <3>2 DEF Local, HasRow
    <3>4. CASE held[s] \in {"awaiting_input", "over"} /\ held' = [held EXCEPT ![s] = "running"]
                 /\ UNCHANGED <<filed, inbox, lagging>>
      <4>1. held'[s] = "running" /\ ~Launching(s) /\ ~Launching(s)'
        BY <1>0, <1>4, <3>4 DEF DaemonOK, Local, OneLaunch
      <4>2. OneLaunch(s)'
        BY <1>1, <1>3, <4>1 DEF Local, OneLaunch, Works
      <4>3. Unheard(s)'
        BY <4>1 DEF Unheard
      <4>4. row[s] = "deleted" \/ s \in lagging \/ (row[s] = "running" /\ ~UnderWay(s))
        BY <3>1, <3>4 DEF Local, Tells, ActTells
      <4>5. ASSUME row[s] = "running", ~UnderWay(s)
            PROVE  WordsTell(s)' /\ ActTells(s)'
        <5>1. \A d \in Link : s \notin job[d].about /\ ~Spoken(inbox[d], s) /\ ~Omitted(inbox[d], s)
          BY <4>5, WordsUnderWay DEF UnderWay
        <5>2. WordsTell(s)'
          BY <1>1, <3>4, <4>1, <4>5, <5>1
          DEF WordsTell, Agreeing, Spoken, Omitted, LastTells, Corrected
        <5>3. ~UnderWay(s)'
          BY <1>1, <3>4, <5>1, WordsUnderWay
        <5>4. QED
          BY <1>1, <4>5, <5>2, <5>3 DEF ActTells
      <4>6. Tells(s)'
        BY <1>1, <3>4, <4>1, <4>4, <4>5 DEF Tells
      <4>7. QED
        BY <3>3, <4>2, <4>3, <4>6 DEF Local
    <3>5. CASE held[s] = "over" /\ Emit("ended", s) /\ UNCHANGED <<held, filed>>
      <4>1. ~Launching(s) /\ ~Launching(s)'
        BY <1>4, <3>5 DEF Local, OneLaunch
      <4>2. OneLaunch(s)'
        BY <1>1, <1>3, <4>1 DEF Local, OneLaunch, Works
      <4>3. Unheard(s)'
        BY <3>5 DEF Unheard
      <4>4. s \in lagging'
        BY <1>0, <3>1, <3>5, EmitOK DEF Word, Crossed
      <4>5. QED
        BY <3>3, <4>2, <4>3, <4>4 DEF Local, Tells
    <3>6. CASE held[s] # "awaiting_input" /\ Excuse({s} \ {y \in {s} : held[y] = "running"})
                 /\ UNCHANGED <<held, filed, inbox>>
      <4>1. OneLaunch(s)'
        BY <1>1, <1>3, <1>4, <3>6 DEF Local, OneLaunch, Works
      <4>2. Unheard(s)'
        BY <1>1, <3>6 DEF Local, Unheard
      <4>3. CASE held[s] # "running"
        BY <3>3, <3>6, <4>1, <4>2, <4>3 DEF Local, Tells, Excuse
      <4>4. CASE held[s] = "running"
        <5>1. ~Launching(s) /\ ~Launching(s)'
          BY <1>4, <4>4 DEF Local, OneLaunch
        <5>2. row[s] = "deleted" \/ s \in lagging \/ (row[s] = "running" /\ ~UnderWay(s))
          BY <3>1, <4>4 DEF Local, Tells, ActTells
        <5>3. ASSUME row[s] = "running", ~UnderWay(s)
              PROVE  WordsTell(s)' /\ ActTells(s)'
          <6>1. \A d \in Link : s \notin job[d].about /\ ~Spoken(inbox[d], s) /\ ~Omitted(inbox[d], s)
            BY <5>3, WordsUnderWay DEF UnderWay
          <6>2. WordsTell(s)'
            BY <1>1, <3>6, <4>4, <5>3, <6>1
            DEF WordsTell, Agreeing, Spoken, Omitted, LastTells, Corrected
          <6>3. ~UnderWay(s)'
            BY <1>1, <3>6, <6>1, WordsUnderWay
          <6>4. QED
            BY <1>1, <5>3, <6>2, <6>3 DEF ActTells
        <5>4. Tells(s)'
          BY <1>1, <3>6, <5>1, <5>2, <5>3 DEF Tells, Excuse
        <5>5. QED
          BY <3>3, <4>1, <4>2, <5>4 DEF Local
      <4>5. QED
        BY <4>3, <4>4
    <3>7. QED
      BY <1>8, <2>2, <3>4, <3>5, <3>6 DEF ReadsAct, Becomes
  <2>3. QED
    BY <2>1, <2>2
<1>9. QED
  BY <1>0, <1>6, <1>7, <1>8, HeadOK DEF ReadsFrame, f

\* The link drops: what is lost is about s, and its row excused, or it is not.
LEMMA Drops ==
  ASSUME Shapes, Shapes', NEW s \in Session, Local(s), LinkDrops
  PROVE  Local(s)'
<1>0. InboxOK /\ OutboxOK /\ OutboxOK' /\ link \in Link /\ DaemonOK
  BY DEF Shapes, DaemonOK, LinkDrops
<1>1. PICK n \in 0 .. Len(inbox[link]), k \in 0 .. Len(outbox[link]) :
        /\ inbox'  = [inbox EXCEPT ![link] = SubSeq(inbox[link], 1, n)]
        /\ outbox' = [outbox EXCEPT ![link] = SubSeq(outbox[link], 1, k)]
        /\ Excuse({x \in Session : \/ \E i \in n + 1 .. Len(inbox[link]) : Touches(inbox[link][i], x)
                                   \/ \E i \in k + 1 .. Len(outbox[link]) : x \in outbox[link][i].about})
  BY DEF LinkDrops
<1>2. UNCHANGED <<row, job, held, filed>> /\ link' = NoLink
  BY DEF LinkDrops, relayVars
<1>3. /\ inbox[link] \in Seq(Words) /\ outbox[link] \in Seq(Acts)
      /\ inbox'[link] = SubSeq(inbox[link], 1, n) /\ outbox'[link] = SubSeq(outbox[link], 1, k)
      /\ \A d \in Link : d # link => inbox'[d] = inbox[d] /\ outbox'[d] = outbox[d]
  BY <1>0, <1>1 DEF InboxOK, OutboxOK
<1>4. CASE s \in lagging'
  <2>1. /\ \A d \in Link : Spoken(inbox'[d], s) => Spoken(inbox[d], s)
        /\ \A kind : \A d \in Link : Carries(outbox'[d], kind, s) => Carries(outbox[d], kind, s)
        /\ \A d \in Link : LaunchedOnce(outbox[d], s) => LaunchedOnce(outbox'[d], s)
    <3>1. Spoken(inbox'[link], s) => Spoken(inbox[link], s)
      BY <1>3, LosesWords
    <3>2. /\ \A kind : Carries(outbox'[link], kind, s) => Carries(outbox[link], kind, s)
          /\ LaunchedOnce(outbox[link], s) => LaunchedOnce(outbox'[link], s)
      <4>1. k \in 0 .. Len(outbox[link])
        BY <1>1
      <4>2. /\ \A kind : Carries(SubSeq(outbox[link], 1, k), kind, s) => Carries(outbox[link], kind, s)
            /\ LaunchedOnce(outbox[link], s) => LaunchedOnce(SubSeq(outbox[link], 1, k), s)
        BY <1>3, <4>1, LosesActs
      <4>3. QED
        BY <1>3, <4>2
    <3>3. QED
      BY <1>3, <3>1, <3>2
  <2>2. Launching(s)' => Launching(s)
    BY <1>2, <2>1 DEF Launching, Works
  <2>3. HasRow(s)'
    BY <1>0, <1>2, <2>1, ActsUnderWay DEF Local, HasRow
  <2>4. OneLaunch(s)'
    BY <1>2, <2>1, <2>2 DEF Local, OneLaunch, Works
  <2>5. Unheard(s)'
    BY <1>2, <2>1 DEF Local, Unheard
  <2>6. QED
    BY <1>4, <2>3, <2>4, <2>5 DEF Local, Tells
<1>5. CASE s \notin lagging'
  <2>1. /\ \A i \in n + 1 .. Len(inbox[link]) : ~Touches(inbox[link][i], s)
        /\ \A i \in k + 1 .. Len(outbox[link]) : s \notin outbox[link][i].about
        /\ s \notin lagging
    BY <1>1, <1>5 DEF Excuse
  <2>2. KeepsWords(s)
    <3>1. /\ Spoken(inbox'[link], s) <=> Spoken(inbox[link], s)
          /\ Omitted(inbox'[link], s) <=> Omitted(inbox[link], s)
          /\ LastTells(inbox[link], s, held[s]) => LastTells(inbox'[link], s, held[s])
          /\ Corrected(inbox[link], s) => Corrected(inbox'[link], s)
      <4>1. n \in 0 .. Len(inbox[link])
        BY <1>1
      <4>2. /\ Spoken(SubSeq(inbox[link], 1, n), s) <=> Spoken(inbox[link], s)
            /\ Omitted(SubSeq(inbox[link], 1, n), s) <=> Omitted(inbox[link], s)
            /\ LastTells(inbox[link], s, held[s]) => LastTells(SubSeq(inbox[link], 1, n), s, held[s])
            /\ Corrected(inbox[link], s) => Corrected(SubSeq(inbox[link], 1, n), s)
        BY <1>3, <2>1, <4>1, LosesWords
      <4>3. QED
        BY <1>3, <4>2
    <3>2. QED
      BY <1>3, <3>1 DEF KeepsWords
  <2>3. KeepsActs(s)
    <3>1. \A kind : Carries(outbox'[link], kind, s) <=> Carries(outbox[link], kind, s)
      <4>1. k \in 0 .. Len(outbox[link])
        BY <1>1
      <4>2. \A kind : Carries(SubSeq(outbox[link], 1, k), kind, s) <=> Carries(outbox[link], kind, s)
        BY <1>3, <2>1, <4>1, LosesActs
      <4>3. QED
        BY <1>3, <4>2
    <3>2. LaunchedOnce(outbox[link], s) => LaunchedOnce(outbox'[link], s)
      BY <1>3, LosesActs
    <3>3. QED
      BY <1>3, <3>1, <3>2 DEF KeepsActs
  <2>4. QED
    BY <1>0, <1>2, <2>1, <2>2, <2>3, Kept, SameQueues DEF Keeps
<1>6. QED
  BY <1>4, <1>5

\* The daemon starts again.
LEMMA StartsAgain ==
  ASSUME Shapes, Shapes', NEW s \in Session, Local(s), DaemonRestarts
  PROVE  Local(s)'
<1>0. InboxOK /\ OutboxOK /\ OutboxOK' /\ DaemonOK /\ link \in Link \cup {NoLink}
  BY DEF Shapes, DaemonOK
<1>1. PICK n \in 0 .. IF link = NoLink THEN 0 ELSE Len(inbox[link]) :
        /\ inbox' = [c \in Link |-> IF c = link THEN SubSeq(inbox[c], 1, n) ELSE inbox[c]]
        /\ Excuse({x \in Session :
             \/ held[x] \notin {"none", "over"} \/ Acting(x)
             \/ link # NoLink /\ \E i \in n + 1 .. Len(inbox[link]) : Touches(inbox[link][i], x)})
  BY DEF DaemonRestarts
<1>2. UNCHANGED <<row, job, filed>> /\ link' = NoLink /\ \A c \in Link : outbox'[c] = <<>>
  BY DEF DaemonRestarts, relayVars
<1>3. held'[s] = IF s \in filed THEN "over" ELSE "none"
  BY DEF DaemonRestarts
<1>4. \A c \in Link : /\ inbox[c] \in Seq(Words)
                      /\ inbox'[c] = IF c = link THEN SubSeq(inbox[c], 1, n) ELSE inbox[c]
                      /\ c = link => n \in 0 .. Len(inbox[c])
  <2>1. \A c \in Link : inbox[c] \in Seq(Words)
    BY <1>0 DEF InboxOK
  <2>2. \A c \in Link : inbox'[c] = IF c = link THEN SubSeq(inbox[c], 1, n) ELSE inbox[c]
    BY <1>1
  <2>3. \A c \in Link : c = link => n \in 0 .. Len(inbox[c])
    BY <1>1, RegistryConstants
  <2>4. QED
    BY <2>1, <2>2, <2>3
<1>5. /\ \A d \in Link : Spoken(inbox'[d], s) => Spoken(inbox[d], s)
      /\ \A kind : \A d \in Link : ~Carries(outbox'[d], kind, s)
      /\ \A d \in Link : LaunchedOnce(outbox'[d], s)
  <2>1. \A d \in Link : Spoken(inbox'[d], s) => Spoken(inbox[d], s)
    BY <1>4, LosesWords
  <2>2. QED
    BY <1>2, <2>1 DEF Carries, LaunchedOnce
<1>6. Launching(s)' => Launching(s)
  BY <1>2, <1>5 DEF Launching, Works
<1>7. HasRow(s)'
  BY <1>0, <1>2, <1>3, <1>5, ActsUnderWay DEF Local, HasRow
<1>8. OneLaunch(s)'
  BY <1>2, <1>3, <1>5, <1>6 DEF Local, OneLaunch, Works
<1>9. Unheard(s)'
  BY <1>2, <1>3 DEF Local, Unheard
<1>10. CASE s \notin lagging'
  <2>1. held[s] \in {"none", "over"} /\ ~Acting(s) /\ s \notin lagging
    BY <1>1, <1>10 DEF Excuse
  <2>2. ~Launching(s) /\ ~Acted(s) /\ ~Acted(s)'
    BY <1>0, <1>2, <1>5, <2>1, ActsUnderWay DEF Launching, Acted, Works
  <2>3. \A state : \A c \in Link :
          /\ Spoken(inbox'[c], s) <=> Spoken(inbox[c], s)
          /\ LastTells(inbox[c], s, state) => LastTells(inbox'[c], s, state)
    <3>1. SUFFICES ASSUME NEW c \in Link, NEW state
                   PROVE  /\ Spoken(inbox'[c], s) <=> Spoken(inbox[c], s)
                          /\ LastTells(inbox[c], s, state) => LastTells(inbox'[c], s, state)
      OBVIOUS
    <3>2. CASE c = link
      <4>1. \A i \in n + 1 .. Len(inbox[c]) : ~Touches(inbox[c][i], s)
        BY <1>1, <1>10, <3>2, RegistryConstants DEF Excuse
      <4>2. inbox[c] \in Seq(Words) /\ n \in 0 .. Len(inbox[c]) /\ inbox'[c] = SubSeq(inbox[c], 1, n)
        BY <1>4, <3>2
      <4>3. /\ Spoken(SubSeq(inbox[c], 1, n), s) <=> Spoken(inbox[c], s)
            /\ LastTells(inbox[c], s, state) => LastTells(SubSeq(inbox[c], 1, n), s, state)
        BY <4>1, <4>2, LosesWords
      <4>4. QED
        BY <4>2, <4>3
    <3>3. CASE c # link
      BY <1>4, <3>3
    <3>4. QED
      BY <3>2, <3>3
  <2>4. row[s] = "deleted" \/ WordsTell(s)
    BY <2>1, <2>2 DEF Local, Tells
  <2>5. \A kind : Leaves(kind, held[s]) => Leaves(kind, held'[s])
    BY <1>3, <2>1 DEF Leaves
  <2>6. \A q : LastTells(q, s, held[s]) => LastTells(q, s, held'[s])
    BY <2>5 DEF LastTells
  <2>7. Agreeing(held[s]) \subseteq Agreeing(held'[s])
    BY <1>3, <2>1 DEF Local, Unheard, Agreeing
  <2>8. WordsTell(s) => WordsTell(s)'
    <3>1. held'[s] \notin LiveRow
      BY <1>3 DEF LiveRow
    <3>2. QED
      BY <1>2, <2>3, <2>6, <2>7, <3>1 DEF WordsTell
  <2>9. Tells(s)'
    BY <1>2, <1>6, <2>2, <2>4, <2>8 DEF Tells
  <2>10. QED
    BY <1>7, <1>8, <1>9, <2>9 DEF Local
<1>11. QED
  BY <1>7, <1>8, <1>9, <1>10 DEF Local, Tells

\* What one step's frame says is off its socket's queue; the other sockets keep theirs.
LEMMA Taken ==
  ASSUME InboxOK, NEW c \in Link, Handles(c), NEW s, NEW state
  PROVE  /\ Head(inbox[c]) \in Words
         /\ \A d \in Link : d # c => inbox'[d] = inbox[d]
         /\ Spoken(inbox[c], s) <=> Spoken(inbox'[c], s) \/ Says(Head(inbox[c]), s)
         /\ Omitted(inbox[c], s) <=> Omitted(inbox'[c], s) \/ Omits(Head(inbox[c]), s)
         /\ LastTells(inbox[c], s, state) => LastTells(inbox'[c], s, state)
         /\ LastTells(inbox[c], s, state) /\ Says(Head(inbox[c]), s) /\ ~Spoken(inbox'[c], s) =>
              Leaves(Head(inbox[c]).kind, state)
         /\ Corrected(inbox[c], s) => Corrected(inbox'[c], s)
         /\ Corrected(inbox[c], s) /\ Omits(Head(inbox[c]), s) => Spoken(inbox'[c], s)
<1>1. inbox[c] \in Seq(Words) /\ inbox[c] # <<>>
  BY DEF InboxOK, Handles
<1>2. inbox'[c] = Tail(inbox[c]) /\ \A d \in Link : d # c => inbox'[d] = inbox[d]
  BY DEF InboxOK, Handles
<1>3. QED
  BY <1>1, <1>2, Shifted, TakesWord

\* A frame that says what x has become reaches the row.
LEMMA PersistsFrame ==
  ASSUME Shapes, Shapes', NEW s \in Session, Local(s), NEW c \in Link, NEW x \in Session, Persists(c, x)
  PROVE  Local(s)'
<1> DEFINE f == Head(inbox[c])
<1>0. InboxOK /\ OutboxOK /\ OutboxOK' /\ DaemonOK /\ link \in Link \cup {NoLink} /\ Table /\ Handles(c)
  BY DEF Shapes, DaemonOK, Persists
<1>1. UNCHANGED <<job, held, filed, link, outbox, lagging>>
  BY DEF Persists, daemonVars
<1>2. PICK status \in LiveRow \cup EndStatus :
        /\ SetRow(x, status)
        /\ \A state : Leaves(f.kind, state) => status \in Agreeing(state)
  BY DEF Persists, Leaves, LiveRow, EndStatus, Agreeing
<1>3. f \in Words /\ x \in f.about /\ f.kind # "reconcile"
  BY <1>0, Taken DEF Persists
<1>4. f.about = {x} /\ Says(f, x)
  BY <1>3 DEF Words, Singles, Says
<1>5. CASE x # s
  <2>1. ~Says(f, s)
    BY <1>4, <1>5 DEF Says
  <2>2. KeepsWords(s)
    BY <1>0, <2>1, OtherHandled
  <2>3. row'[s] = row[s]
    BY <1>0, <1>2, <1>5, SetsRow
  <2>4. QED
    BY <1>0, <1>1, <2>2, <2>3, Kept, SameQueues DEF Keeps
<1>6. CASE x = s
  <2>0. /\ \A d \in Link : d # c => inbox'[d] = inbox[d]
        /\ Spoken(inbox[c], s) /\ (Spoken(inbox'[c], s) => Spoken(inbox[c], s))
        /\ (Omitted(inbox'[c], s) => Omitted(inbox[c], s))
        /\ \A state : LastTells(inbox[c], s, state) => LastTells(inbox'[c], s, state)
        /\ \A state : LastTells(inbox[c], s, state) /\ ~Spoken(inbox'[c], s) => Leaves(f.kind, state)
        /\ (Corrected(inbox[c], s) => Corrected(inbox'[c], s))
    BY <1>0, <1>4, <1>6, Taken
  <2> HIDE DEF f
  <2>1. \A d \in Link : Spoken(inbox'[d], s) => Spoken(inbox[d], s)
    BY <2>0
  <2>2. row[s] # "absent" /\ ~Launching(s) /\ ~Launching(s)' /\ (Acted(s)' <=> Acted(s))
    BY <1>1, <2>0 DEF Local, HasRow, OneLaunch, Launching, Acted, Works
  <2>3. row'[s] # "absent" /\ (row'[s] = "starting" => row[s] = "starting")
          /\ (row[s] # "deleted" => row'[s] = status) /\ (row[s] = "deleted" => row'[s] = "deleted")
    BY <1>0, <1>2, <1>6, <2>2, SetsRow DEF LiveRow, EndStatus
  <2>4. HasRow(s)'
    BY <1>1, <2>3 DEF Local, HasRow
  <2>5. OneLaunch(s)'
    BY <1>1, <2>1, <2>2 DEF Local, OneLaunch, Works
  <2>6. Unheard(s)'
    BY <1>0, <1>1, <2>1 DEF Local, Unheard
  <2>7. UnderWay(s)
    BY <2>0, WordsUnderWay DEF UnderWay
  <2>8. ASSUME WordsTell(s), row[s] # "deleted"
        PROVE  WordsTell(s)'
    <3>1. \A d \in Link : d # c => ~Spoken(inbox[d], s) /\ ~Spoken(inbox'[d], s)
      BY <2>0, <2>8 DEF WordsTell
    <3>2. ~Spoken(inbox'[c], s) => row'[s] \in Agreeing(held[s])
      BY <1>2, <2>0, <2>3, <2>8 DEF WordsTell
    <3>3. \A d \in Link : LastTells(inbox'[d], s, held[s])
      BY <2>0, <2>8 DEF WordsTell
    <3>4. held[s] \in LiveRow => \A d \in Link : Corrected(inbox'[d], s) /\ s \notin job[c].about
      BY <2>0, <2>8 DEF WordsTell, Persists, Handles, Idle
    <3>5. QED
      BY <1>1, <2>0, <2>8, <3>1, <3>2, <3>3, <3>4 DEF WordsTell
  <2>9. Tells(s)'
    BY <1>1, <2>2, <2>3, <2>7, <2>8 DEF Local, Tells, ActTells
  <2>10. QED
    BY <2>4, <2>5, <2>6, <2>9 DEF Local
<1>7. QED
  BY <1>5, <1>6

\* The frame that lists what the daemon holds is read against the rows.
LEMMA ReadsList ==
  ASSUME Shapes, Shapes', NEW s \in Session, Local(s), NEW c \in Link, ReadsRows(c)
  PROVE  Local(s)'
<1> DEFINE f == Head(inbox[c])
<1>0. InboxOK /\ OutboxOK /\ OutboxOK' /\ DaemonOK /\ link \in Link \cup {NoLink} /\ Handles(c)
  BY DEF Shapes, DaemonOK, ReadsRows
<1>1. UNCHANGED <<row, held, filed, link, outbox, lagging>> /\ f.kind = "reconcile" /\ job[c] = Idle
  BY DEF ReadsRows, daemonVars, Handles
<1>2. /\ s \in job'[c].about => row[s] \in LiveRow /\ s \notin f.about
      /\ \A d \in (Link \cup Tab) \ {c} : job'[d] = job[d]
  <2>1. PICK S \in SUBSET Session :
          /\ S = {x \in Session \ f.about : row[x] \in LiveRow}
          /\ job' = [job EXCEPT ![c] = IF S = {} THEN Idle ELSE Job("retire", S, NoLink)]
    BY DEF ReadsRows
  <2>2. job'[c].about \subseteq S /\ \A d \in (Link \cup Tab) \ {c} : job'[d] = job[d]
    BY <2>1 DEF Shapes, JobOK, Idle, Job
  <2>3. QED
    BY <2>1, <2>2
<1>3. ~Says(f, s) /\ (s \notin f.about => Omits(f, s))
  BY <1>1 DEF Says, Omits
<1>4. KeepsWords(s)
  BY <1>0, <1>3, OtherHandled
<1>5. CASE s \notin job'[c].about
  <2>1. KeepsJobs(s)
    BY <1>2, <1>5, RegistryConstants DEF KeepsJobs, Works
  <2>2. QED
    BY <1>0, <1>1, <1>4, <2>1, Kept, SameQueues DEF Keeps
<1>6. CASE s \in job'[c].about
  <2>1. row[s] \in LiveRow /\ Omits(f, s)
    BY <1>2, <1>3, <1>6
  <2>2. Omitted(inbox[c], s) /\ (Corrected(inbox[c], s) => Spoken(inbox'[c], s))
    BY <1>0, <2>1, Taken
  <2>3. UnderWay(s)
    BY <2>2, WordsUnderWay DEF UnderWay
  <2>4. (Launching(s)' <=> Launching(s)) /\ (Acted(s)' <=> Acted(s))
    BY <1>1, <1>2, RegistryConstants DEF Launching, Acted, Works
  <2>5. HasRow(s)'
    BY <1>1, <2>1 DEF HasRow, LiveRow
  <2>6. OneLaunch(s)'
    BY <1>1, <1>2, <1>4, <2>4, RegistryConstants DEF Local, OneLaunch, Works, KeepsWords
  <2>7. Unheard(s)'
    BY <1>0, <1>1, <1>4 DEF Local, Unheard, KeepsWords
  <2>8. WordsTell(s) => WordsTell(s)'
    BY <1>1, <1>2, <1>4, <2>2 DEF WordsTell, KeepsWords
  <2>9. Tells(s)'
    BY <1>1, <2>3, <2>4, <2>8 DEF Local, Tells, ActTells
  <2>10. QED
    BY <2>5, <2>6, <2>7, <2>9 DEF Local
<1>7. QED
  BY <1>5, <1>6

\* A row that the daemon does not hold is retired.
LEMMA RetiresRow ==
  ASSUME Shapes, Shapes', NEW s \in Session, Local(s),
         NEW c \in Link, NEW x \in Session, Retires(c, x)
  PROVE  Local(s)'
<1>0. OutboxOK /\ OutboxOK' /\ DaemonOK /\ link \in Link \cup {NoLink} /\ Table
  BY DEF Shapes, DaemonOK
<1>1. /\ UNCHANGED <<inbox, outbox, held, filed, link>>
      /\ SetRow(x, "needs_restart") /\ x \in job[c].about
  BY DEF Retires, daemonVars
<1>2. /\ job'[c].about \subseteq job[c].about
      /\ \A d \in (Link \cup Tab) \ {c} : job'[d] = job[d]
  BY DEF Retires, Shapes, JobOK, Idle, Job
<1>3. KeepsJobs(s)
  BY <1>2, RegistryConstants DEF KeepsJobs, Works
<1>4. CASE x # s
  <2>1. row'[s] = row[s]
    BY <1>0, <1>1, <1>4, SetsRow
  <2>2. s \in lagging => s \in lagging'
    BY <1>4 DEF Retires, Word
  <2>3. QED
    BY <1>0, <1>1, <1>3, <2>1, <2>2, Kept, SameQueues DEF Keeps
<1>5. CASE x = s
  <2>1. UnderWay(s) /\ row[s] \notin {"absent", "starting"}
    BY <1>1, <1>5, WordsUnderWay DEF UnderWay, Local, HasRow
  <2>2. (Launching(s)' <=> Launching(s)) /\ (Acted(s)' <=> Acted(s))
    BY <1>1, <1>3 DEF Launching, Acted, KeepsJobs
  <2>3. (row[s] = "deleted" => row'[s] = "deleted") /\ (row[s] # "deleted" => row'[s] = "needs_restart")
    BY <1>0, <1>1, <1>5, <2>1, SetsRow
  <2>4. HasRow(s)'
    BY <2>1, <2>3 DEF HasRow
  <2>5. OneLaunch(s)'
    BY <1>1, <1>3, <2>2 DEF Local, OneLaunch, KeepsJobs
  <2>6. Unheard(s)'
    BY <1>1 DEF Local, Unheard
  <2>7. CASE row[s] = "deleted" \/ s \in lagging'
    BY <2>3, <2>4, <2>5, <2>6, <2>7 DEF Local, Tells
  <2>8. CASE row[s] # "deleted" /\ s \notin lagging' /\ c = link /\ held[s] = "none"
    <3>1. ~Acting(s) /\ \A d \in Link \ {c} : ~UnderWayOn(d, s)
      BY <1>5, <2>8 DEF Retires, Word, Crossed
    <3>2. ~Acted(s) /\ ~Launching(s)
      BY <1>0, <3>1, ActsUnderWay DEF Acted, Launching, Works
    <3>3. \A d \in Link : ~Spoken(inbox[d], s)
      BY <2>8, <3>1, WordsUnderWay, RegistryConstants DEF Local, Unheard
    <3>4. WordsTell(s)'
      BY <1>1, <2>3, <2>8, <3>3 DEF WordsTell, LastTells, Spoken, Agreeing, EndStatus, LiveRow
    <3>5. QED
      BY <2>2, <2>4, <2>5, <2>6, <3>2, <3>4 DEF Local, Tells
  <2>9. CASE row[s] # "deleted" /\ s \notin lagging' /\ ~(c = link /\ held[s] = "none")
    <3>1. s \notin lagging
      BY <1>5, <2>9 DEF Retires
    <3>2. CASE Acted(s)
      <4>1. held[s] \in {"none", "preparing"}
        BY <2>1, <2>9, <3>1, <3>2 DEF Local, Tells, ActTells
      <4>2. QED
        BY <1>1, <2>2, <2>4, <2>5, <2>6, <3>2, <4>1 DEF Local, Tells, ActTells
    <3>3. CASE ~Acted(s)
      <4>1. ~Launching(s) /\ WordsTell(s)
        BY <2>1, <2>9, <3>1, <3>3 DEF Local, Tells
      <4>2. held[s] # "preparing"
        BY <2>1, <4>1 DEF Local, Unheard, WordsTell, Agreeing
      <4>3. held[s] \in LiveRow => Spoken(inbox[c], s)
        BY <1>1, <1>5, <4>1 DEF WordsTell
      <4>4. held[s] \notin LiveRow => row'[s] \in Agreeing(held[s])
        BY <1>0, <2>3, <2>9, <4>2 DEF DaemonOK, Held, Agreeing, EndStatus
      <4>5. WordsTell(s)'
        BY <1>1, <1>3, <4>1, <4>3, <4>4 DEF WordsTell, KeepsJobs
      <4>6. QED
        BY <2>2, <2>4, <2>5, <2>6, <3>3, <4>1, <4>5 DEF Local, Tells
    <3>4. QED
      BY <3>2, <3>3
  <2>10. QED
    BY <2>7, <2>8, <2>9
<1>6. QED
  BY <1>4, <1>5

\* createSession.
LEMMA MintsRow ==
  ASSUME Shapes, Shapes', NEW s \in Session, Local(s),
         NEW t \in Tab, NEW x \in Session, Mints(t, x)
  PROVE  Local(s)'
<1>0. OutboxOK /\ OutboxOK' /\ DaemonOK /\ link \in Link \cup {NoLink} /\ Table
  BY DEF Shapes, DaemonOK
<1>1. /\ UNCHANGED <<inbox, outbox, held, filed, link, lagging>>
      /\ job[t].kind = "launch" /\ row[x] = "absent" /\ row' = [row EXCEPT ![x] = "starting"]
  BY DEF Mints, daemonVars
<1>2. /\ job'[t].kind = "minted" /\ job'[t].about = {x}
      /\ \A u \in (Link \cup Tab) \ {t} : job'[u] = job[u]
      /\ t \notin Link
  BY RegistryConstants DEF Mints, Shapes, JobOK, Job
<1>3. CASE x # s
  <2>1. row'[s] = row[s]
    BY <1>0, <1>1, <1>3 DEF Table
  <2>2. KeepsJobs(s)
    BY <1>1, <1>2, <1>3 DEF KeepsJobs, Works
  <2>3. QED
    BY <1>0, <1>1, <2>1, <2>2, Kept, SameQueues DEF Keeps
<1>4. CASE x = s
  <2>1. /\ held[s] = "none" /\ s \notin filed /\ ~Acting(s) /\ \A c \in Link : ~Spoken(inbox[c], s)
        /\ \A c \in Link : s \notin job[c].about
    BY <1>1, <1>4 DEF Local, HasRow
  <2>2. /\ \A u \in Tab : s \notin job[u].about
        /\ \A c \in Link : ~Carries(outbox[c], "launch", s) /\ ~Carries(outbox[c], "act", s)
    BY <1>0, <2>1, ActsUnderWay
  <2>3. row'[s] = "starting"
    BY <1>0, <1>1, <1>4 DEF Table
  <2>4. HasRow(s)'
    BY <1>2, <2>1, <2>3 DEF HasRow
  <2>5. OneLaunch(s)'
    BY <1>1, <1>2, <2>1, <2>2 DEF Local, OneLaunch, Works
  <2>6. Unheard(s)'
    BY <1>1 DEF Local, Unheard
  <2>7. ~Acted(s)' /\ Launching(s)'
    BY <1>1, <1>2, <1>4, <2>2 DEF Acted, Launching, Works
  <2>8. QED
    BY <2>3, <2>4, <2>5, <2>6, <2>7 DEF Local, Tells
<1>5. QED
  BY <1>3, <1>4

\* A tab's frame on the wire, or lost.
LEMMA Sent ==
  ASSUME Shapes, NEW to \in Link \cup {NoLink}, NEW x \in Session,
         NEW kind \in {"launch", "act"}, Send(to, kind, {x}), NEW s \in Session
  PROVE  \/ UNCHANGED outbox /\ lagging' = lagging \cup {x}
         \/ /\ lagging' = lagging
            /\ \A k : Carries(outbox'[to], k, s) <=> Carries(outbox[to], k, s) \/ (k = kind /\ x = s)
            /\ \A d \in Link \ {to} : outbox'[d] = outbox[d]
            /\ to \in Link
            /\ LaunchedOnce(outbox[to], s) /\ (kind # "launch" \/ x # s \/ ~Carries(outbox[to], "launch", s)) =>
                 LaunchedOnce(outbox'[to], s)
<1>1. CASE ~Reaches(to)
  BY <1>1 DEF Send, Excuse
<1>2. CASE Reaches(to)
  <2>1. to \in Link
    BY <1>2 DEF Reaches
  <2>2. outbox[to] \in Seq(Acts) /\ Frame(kind, {x}) \in Acts
    BY <2>1, MadeFrames DEF Shapes, OutboxOK, Singles
  <2>3. /\ outbox'[to] = Append(outbox[to], Frame(kind, {x})) /\ lagging' = lagging
        /\ \A d \in Link \ {to} : outbox'[d] = outbox[d]
    BY <1>2, <2>1 DEF Send, Shapes, OutboxOK
  <2>4. Frame(kind, {x}).kind = kind /\ Frame(kind, {x}).about = {x}
    BY DEF Frame
  <2> DEFINE f == Frame(kind, {x})
  <2> HIDE DEF f
  <2>5. /\ \A k : Carries(Append(outbox[to], f), k, s) <=> Carries(outbox[to], k, s) \/ (f.kind = k /\ s \in f.about)
        /\ LaunchedOnce(outbox[to], s) /\ (~Launches(f, s) \/ ~Carries(outbox[to], "launch", s)) =>
             LaunchedOnce(Append(outbox[to], f), s)
    <3>1. outbox[to] \in Seq(Acts) /\ f \in Acts
      BY <2>2 DEF f
    <3>2. QED
      BY <3>1, AddsAct
  <2>6. outbox'[to] = Append(outbox[to], f) /\ f.kind = kind /\ f.about = {x}
    BY <2>3, <2>4 DEF f
  <2>7. \A k : Carries(outbox'[to], k, s) <=> Carries(outbox[to], k, s) \/ (k = kind /\ x = s)
    BY <2>5, <2>6
  <2>8. LaunchedOnce(outbox[to], s) /\ (kind # "launch" \/ x # s \/ ~Carries(outbox[to], "launch", s)) =>
          LaunchedOnce(outbox'[to], s)
    BY <2>5, <2>6 DEF Launches
  <2>9. QED
    BY <2>1, <2>3, <2>7, <2>8
<1>3. QED
  BY <1>1, <1>2

\* A tab's frame moves on, for another session.
LEMMA OtherTab ==
  ASSUME Shapes, Shapes', NEW s \in Session, Local(s), NEW t \in Tab,
         ForwardsLaunch(t) \/ MarksRunning(t) \/ ForwardsAct(t), s \notin job[t].about
  PROVE  Local(s)'
<1>0. /\ OutboxOK /\ OutboxOK' /\ link \in Link \cup {NoLink} /\ Table /\ job[t].to \in Link \cup {NoLink}
      /\ t \notin Link
  BY RegistryConstants DEF Shapes, DaemonOK, JobOK, TabJob
<1>1. PICK x \in Session : job[t].about = {x}
  BY DEF ForwardsLaunch, MarksRunning, ForwardsAct, Shapes, JobOK, TabJob, Singles
<1>2. UNCHANGED <<inbox, held, filed, link>>
  BY DEF ForwardsLaunch, MarksRunning, ForwardsAct, daemonVars
<1>3. s \notin job'[t].about /\ \A u \in (Link \cup Tab) \ {t} : job'[u] = job[u]
  BY DEF ForwardsLaunch, MarksRunning, ForwardsAct, Shapes, JobOK, Job, Idle
<1>4. KeepsJobs(s)
  BY <1>0, <1>3 DEF KeepsJobs, Works
<1>5. row'[s] = row[s]
  <2>1. UNCHANGED row \/ \E status : SetRow(x, status)
    BY <1>1 DEF ForwardsLaunch, MarksRunning, ForwardsAct
  <2>2. QED
    BY <1>0, <1>1, <2>1, SetsRow
<1>6. KeepsActs(s) /\ (s \in lagging => s \in lagging')
  <2>1. CASE UNCHANGED outbox /\ lagging \subseteq lagging'
    BY <2>1, SameQueues
  <2>2. ASSUME NEW kind \in {"launch", "act"}, Send(job[t].to, kind, {x})
        PROVE  KeepsActs(s) /\ (s \in lagging => s \in lagging')
    <3>1. s # x
      BY <1>1
    <3>2. UNCHANGED outbox => KeepsActs(s)
      BY SameQueues
    <3> DEFINE to == job[t].to
    <3> HIDE DEF to
    <3>3. to \in Link \cup {NoLink} /\ Send(to, kind, {x})
      BY <1>0, <2>2 DEF to
    <3>4. \/ UNCHANGED outbox /\ lagging' = lagging \cup {x}
          \/ /\ lagging' = lagging
             /\ \A k : Carries(outbox'[to], k, s) <=> Carries(outbox[to], k, s) \/ (k = kind /\ x = s)
             /\ \A d \in Link \ {to} : outbox'[d] = outbox[d]
             /\ to \in Link
             /\ LaunchedOnce(outbox[to], s)
                  /\ (kind # "launch" \/ x # s \/ ~Carries(outbox[to], "launch", s)) =>
                  LaunchedOnce(outbox'[to], s)
      BY <3>3, Sent, Zenon
    <3>5. QED
      BY <3>1, <3>2, <3>4 DEF KeepsActs
  <2>3. QED
    BY <1>1, <2>1, <2>2 DEF ForwardsLaunch, MarksRunning, ForwardsAct, Excuse
<1>7. QED
  BY <1>0, <1>2, <1>4, <1>5, <1>6, Kept, SameQueues DEF Keeps

\* The launch goes to the daemon, is lost, or fails with no daemon there.
LEMMA Forwards ==
  ASSUME Shapes, Shapes', NEW s \in Session, Local(s),
         NEW t \in Tab, ForwardsLaunch(t), s \in job[t].about
  PROVE  Local(s)'
<1>0. /\ OutboxOK /\ OutboxOK' /\ DaemonOK /\ link \in Link \cup {NoLink} /\ Table /\ t \notin Link
      /\ job[t].to \in Link \cup {NoLink} /\ job[t].about = {s} /\ job[t].kind = "minted"
  BY RegistryConstants DEF ForwardsLaunch, Shapes, DaemonOK, JobOK, TabJob, Singles
<1>1. UNCHANGED <<inbox, held, filed, link>>
  BY DEF ForwardsLaunch, daemonVars
<1>2. /\ job'[t].kind = "idle" /\ job'[t].about = {}
      /\ \A u \in (Link \cup Tab) \ {t} : job'[u] = job[u]
  BY DEF ForwardsLaunch, Shapes, JobOK, Idle
<1>3. Works(t, "minted", s) /\ Launching(s) /\ row[s] # "absent"
  BY <1>0 DEF Works, Launching, Local, HasRow, Acting
<1>4. /\ held[s] = "none" /\ s \notin filed /\ \A c \in Link : ~Spoken(inbox[c], s)
      /\ \A c \in Link : ~Carries(outbox[c], "launch", s)
      /\ \A u \in Tab : ~Works(u, "minted", s)'
  BY <1>2, <1>3 DEF Local, OneLaunch, Works
<1>5. Unheard(s)'
  BY <1>1 DEF Local, Unheard
<1>6. \A c \in Link : job'[c] = job[c]
  BY <1>0, <1>2
<1>7. ASSUME UNCHANGED outbox
      PROVE  OneLaunch(s)' /\ ~Launching(s)' /\ (Acted(s)' <=> Acted(s))
  <2>1. ~Launching(s)'
    BY <1>4, <1>7 DEF Launching
  <2>2. OneLaunch(s)'
    BY <1>1, <1>4, <1>7, <2>1 DEF Local, OneLaunch
  <2>3. Acted(s)' <=> Acted(s)
    BY <1>0, <1>2, <1>7 DEF Acted, Works
  <2>4. QED
    BY <2>1, <2>2, <2>3
<1>8. CASE job[t].to = NoLink
  <2>1. SetRow(s, "over") /\ UNCHANGED <<outbox, lagging>>
    BY <1>0, <1>8 DEF ForwardsLaunch
  <2>2. row'[s] = "over" \/ (row[s] = "deleted" /\ row'[s] = "deleted")
    BY <1>0, <1>3, <2>1, SetsRow
  <2>3. HasRow(s)'
    BY <2>2 DEF HasRow
  <2>4. row'[s] = "over" => WordsTell(s)'
    BY <1>1, <1>4 DEF WordsTell, LastTells, Spoken, Agreeing, EndStatus, LiveRow
  <2>5. Tells(s)'
    BY <1>1, <1>4, <1>7, <2>1, <2>2, <2>4 DEF Tells, ActTells
  <2>6. QED
    BY <1>5, <1>7, <2>1, <2>3, <2>5 DEF Local
<1>9. CASE job[t].to # NoLink
  <2> DEFINE to == job[t].to
  <2> HIDE DEF to
  <2>1. to \in Link /\ Send(to, "launch", {s}) /\ UNCHANGED row
    BY <1>0, <1>9 DEF ForwardsLaunch, to
  <2>2. \/ UNCHANGED outbox /\ lagging' = lagging \cup {s}
        \/ /\ lagging' = lagging
           /\ \A k : Carries(outbox'[to], k, s) <=> Carries(outbox[to], k, s) \/ k = "launch"
           /\ \A d \in Link \ {to} : outbox'[d] = outbox[d]
           /\ LaunchedOnce(outbox[to], s) /\ ~Carries(outbox[to], "launch", s) => LaunchedOnce(outbox'[to], s)
    BY <2>1, Sent
  <2>3. HasRow(s)'
    BY <1>3, <1>6, <2>1 DEF Local, HasRow
  <2>4. CASE UNCHANGED outbox /\ lagging' = lagging \cup {s}
    BY <1>5, <1>7, <2>3, <2>4 DEF Local, Tells
  <2>5. CASE /\ lagging' = lagging
             /\ \A k : Carries(outbox'[to], k, s) <=> Carries(outbox[to], k, s) \/ k = "launch"
             /\ \A d \in Link \ {to} : outbox'[d] = outbox[d]
             /\ LaunchedOnce(outbox[to], s) /\ ~Carries(outbox[to], "launch", s) => LaunchedOnce(outbox'[to], s)
    <3>1. /\ Carries(outbox'[to], "launch", s)
          /\ \A d \in Link \ {to} : ~Carries(outbox'[d], "launch", s)
          /\ \A d \in Link : Carries(outbox'[d], "act", s) <=> Carries(outbox[d], "act", s)
          /\ \A d \in Link : LaunchedOnce(outbox'[d], s)
      BY <1>4, <2>1, <2>5 DEF Local, OneLaunch
    <3>2. Launching(s)' /\ (Acted(s)' <=> Acted(s))
      BY <1>0, <1>2, <2>1, <3>1 DEF Launching, Acted, Works
    <3>3. OneLaunch(s)'
      BY <1>1, <1>4, <3>1 DEF OneLaunch
    <3>4. Tells(s)'
      BY <1>1, <1>3, <1>4, <2>1, <2>5, <3>2 DEF Local, Tells, ActTells
    <3>5. QED
      BY <1>5, <2>3, <3>3, <3>4 DEF Local
  <2>6. QED
    BY <2>2, <2>4, <2>5
<1>10. QED
  BY <1>8, <1>9

\* An act sets the row, and goes to the daemon or is lost.
LEMMA ActMoves ==
  ASSUME Shapes, Shapes', NEW s \in Session, Local(s),
         NEW t \in Tab, MarksRunning(t) \/ ForwardsAct(t), s \in job[t].about
  PROVE  Local(s)'
<1>0. /\ OutboxOK /\ OutboxOK' /\ DaemonOK /\ link \in Link \cup {NoLink} /\ Table /\ t \notin Link
      /\ job[t].to \in Link \cup {NoLink} /\ job[t].about = {s} /\ job[t].kind \in {"act", "acted"}
  BY RegistryConstants DEF MarksRunning, ForwardsAct, Shapes, DaemonOK, JobOK, TabJob, Singles
<1>1. UNCHANGED <<inbox, held, filed, link>>
  BY DEF MarksRunning, ForwardsAct, daemonVars
<1>2. row[s] # "absent"
  BY <1>0 DEF Local, HasRow, Acting
<1>3. Unheard(s)'
  BY <1>1 DEF Local, Unheard
<1>4. /\ \A u \in (Link \cup Tab) \ {t} : job'[u] = job[u]
      /\ job'[t].kind \in {"idle", "acted"}
  BY DEF MarksRunning, ForwardsAct, Shapes, JobOK, Idle, Job
<1>5. /\ \A c \in Link : job'[c] = job[c]
      /\ \A u \in Tab : Works(u, "minted", s)' <=> Works(u, "minted", s)
  BY <1>0, <1>4 DEF Works
<1>6. UnderWay(s)' <=> UnderWay(s)
  BY <1>1, <1>5 DEF UnderWay, UnderWayOn
<1>7. CASE MarksRunning(t)
  <2>1. /\ SetRow(s, "running") /\ Excuse({x \in {s} : UnderWay(x)}) /\ UNCHANGED outbox
        /\ Works(t, "acted", s)'
    BY <1>0, <1>7 DEF MarksRunning, Works, Job, Shapes, JobOK
  <2>2. row'[s] = "running" \/ (row[s] = "deleted" /\ row'[s] = "deleted")
    BY <1>0, <1>2, <2>1, SetsRow
  <2>3. HasRow(s)'
    BY <2>2 DEF HasRow
  <2>4. OneLaunch(s)'
    BY <1>1, <1>5, <2>1 DEF Local, OneLaunch, Launching
  <2>5. Tells(s)'
    BY <1>6, <2>1, <2>2 DEF Tells, Acted, ActTells, Excuse
  <2>6. QED
    BY <1>3, <2>3, <2>4, <2>5 DEF Local
<1>8. CASE ForwardsAct(t)
  <2> DEFINE to == job[t].to
  <2> HIDE DEF to
  <2>1. Send(to, "act", {s}) /\ UNCHANGED row /\ Acted(s) /\ to \in Link \cup {NoLink}
    BY <1>0, <1>8 DEF ForwardsAct, Acted, Works, to
  <2>2. \/ UNCHANGED outbox /\ lagging' = lagging \cup {s}
        \/ /\ lagging' = lagging
           /\ \A k : Carries(outbox'[to], k, s) <=> Carries(outbox[to], k, s) \/ k = "act"
           /\ \A d \in Link \ {to} : outbox'[d] = outbox[d]
           /\ to \in Link
           /\ LaunchedOnce(outbox[to], s) => LaunchedOnce(outbox'[to], s)
    BY <2>1, Sent
  <2>3. HasRow(s)'
    BY <1>2, <1>5, <2>1 DEF Local, HasRow
  <2>4. /\ \A c \in Link : Carries(outbox'[c], "launch", s) <=> Carries(outbox[c], "launch", s)
        /\ \A c \in Link : LaunchedOnce(outbox[c], s) => LaunchedOnce(outbox'[c], s)
    BY <2>2
  <2>5. OneLaunch(s)'
    BY <1>1, <1>5, <2>4 DEF Local, OneLaunch, Launching
  <2>6. CASE s \in lagging'
    BY <1>3, <2>3, <2>5, <2>6 DEF Local, Tells
  <2>7. CASE s \notin lagging'
    <3>1. to \in Link /\ Carries(outbox'[to], "act", s) /\ s \notin lagging
      BY <2>2, <2>7
    <3>2. Acted(s)'
      BY <3>1 DEF Acted
    <3>3. Tells(s)'
      BY <1>1, <1>6, <2>1, <3>1, <3>2 DEF Local, Tells, ActTells
    <3>4. QED
      BY <1>3, <2>3, <2>5, <3>3 DEF Local
  <2>8. QED
    BY <2>6, <2>7
<1>9. QED
  BY <1>7, <1>8

LEMMA FreshStep ==
  ASSUME Shapes, NEW c \in Link, Fresh(c), [RegistryNext]_registryVars
  PROVE  Fresh(c)'
<1>0. InboxOK /\ OutboxOK /\ DaemonOK /\ link \in Link \cup {NoLink} /\ NoLink \notin Link
        /\ socket \in [Link -> {"new", "open", "peer", "closed"}]
  BY RegistryConstants DEF Shapes, DaemonOK, SocketOK
\* What the daemon sends goes to its own socket.
<1>1. ASSUME UNCHANGED <<socket, link>>, \A d \in Link : d # link => inbox'[d] = inbox[d]
      PROVE  Fresh(c)'
  BY <1>1 DEF Fresh
<1>2. ASSUME NEW s \in Session, Starts(s) \/ Gates(s) \/ Ends(s) \/ GateExpires(s)
      PROVE  Fresh(c)'
  <2>1. UNCHANGED inbox \/ \E kind \in {"started", "gate", "ended"} : Emit(kind, s)
    BY <1>2 DEF Starts, Gates, Ends, GateExpires
  <2>2. UNCHANGED <<socket, link>>
    BY <1>2 DEF Starts, Gates, Ends, GateExpires, relayVars
  <2>3. \A d \in Link : d # link => inbox'[d] = inbox[d]
    BY <1>0, <2>1, EmitOK DEF InboxOK
  <2>4. QED
    BY <1>1, <2>2, <2>3
<1>3. ASSUME NEW d \in Link, ReadsFrame(d)
      PROVE  Fresh(c)'
  <2>1. Head(outbox[d]).about = {} \/ \E s \in Session : Head(outbox[d]).about = {s}
    BY <1>0, <1>3, HeadOK DEF ReadsFrame
  <2>2. UNCHANGED <<socket, link>> /\ (ReadsAck \/ \E s \in Session : ReadsLaunch(s) \/ ReadsAct(s))
    BY <1>3, <2>1 DEF ReadsFrame, relayVars
  <2>3. UNCHANGED inbox \/ ReadsAck \/ \E s \in Session : Emit("ended", s)
    BY <2>2 DEF ReadsLaunch, ReadsAct
  <2>4. ReadsAck => \A e \in Link : e # link => inbox'[e] = inbox[e]
    BY <1>0 DEF ReadsAck, InboxOK
  <2>5. \A e \in Link : e # link => inbox'[e] = inbox[e]
    BY <1>0, <2>3, <2>4, EmitOK DEF InboxOK
  <2>6. QED
    BY <1>1, <2>2, <2>5
\* What is on its way from it is lost.
<1>4. ASSUME NEW q \in Seq(Words), NEW n \in 0 .. Len(q), q = <<>>
      PROVE  SubSeq(q, 1, n) = <<>>
  BY <1>4
<1>5. CASE LinkDrops
  <2>1. PICK n \in 0 .. Len(inbox[link]) : inbox' = [inbox EXCEPT ![link] = SubSeq(inbox[link], 1, n)]
    BY <1>5 DEF LinkDrops
  <2>2. link \in Link /\ link' = NoLink /\ UNCHANGED socket
    BY <1>0, <1>5 DEF LinkDrops, relayVars
  <2>3. inbox[link] = <<>> => inbox'[link] = <<>>
    BY <1>0, <1>4, <2>1, <2>2 DEF InboxOK
  <2>4. QED
    BY <1>0, <2>1, <2>2, <2>3 DEF Fresh, InboxOK
<1>6. CASE DaemonRestarts
  <2>1. PICK n \in 0 .. IF link = NoLink THEN 0 ELSE Len(inbox[link]) :
          inbox' = [d \in Link |-> IF d = link THEN SubSeq(inbox[d], 1, n) ELSE inbox[d]]
    BY <1>6 DEF DaemonRestarts
  <2>2. link' = NoLink /\ UNCHANGED socket
    BY <1>6 DEF DaemonRestarts, relayVars
  <2>3. CASE c = link
    <3>1. inbox[c] = <<>> => inbox'[c] = <<>>
      BY <1>0, <1>4, <2>1, <2>3 DEF InboxOK
    <3>2. QED
      BY <1>0, <2>2, <3>1 DEF Fresh
  <2>4. CASE c # link
    BY <1>0, <2>1, <2>2, <2>4 DEF Fresh
  <2>5. QED
    BY <2>3, <2>4
\* A socket that is dialled, registered, closed or forgotten.
<1>7. ASSUME NEW d \in Link, DaemonDials(d) \/ Registers(d) \/ PeerCloses(d) \/ SocketForgotten(d)
      PROVE  Fresh(c)'
  BY <1>0, <1>7 DEF DaemonDials, Registers, PeerCloses, SocketForgotten, Fresh, daemonVars
\* The frames of a socket that is new are not handled.
<1>8. ASSUME NEW d \in Link, ReadsRows(d) \/ \E s \in Session : Persists(d, s)
      PROVE  Fresh(c)'
  <2>1. UNCHANGED <<socket, link>> /\ Handles(d)
    BY <1>8 DEF ReadsRows, Persists, daemonVars
  <2>2. socket[d] # "new" /\ \A e \in Link : e # d => inbox'[e] = inbox[e]
    BY <1>0, <2>1 DEF Handles, InboxOK
  <2>3. QED
    BY <2>1, <2>2 DEF Fresh
<1>9. ASSUME \/ \E t \in Tab : LaunchArrives(t) \/ ForwardsLaunch(t) \/ MarksRunning(t) \/ ForwardsAct(t)
             \/ \E s \in Session : \/ Archive(s) \/ Delete(s)
                                   \/ \E t \in Tab : Mints(t, s) \/ ActArrives(t, s)
                                   \/ \E d \in Link : Retires(d, s)
             \/ UNCHANGED registryVars
      PROVE  Fresh(c)'
  <2>1. UNCHANGED <<socket, link, inbox>>
    BY <1>9 DEF LaunchArrives, ForwardsLaunch, MarksRunning, ForwardsAct, Archive, Delete, Mints,
                ActArrives, Retires, daemonVars, relayVars, registryVars
  <2>2. QED
    BY <2>1 DEF Fresh
<1>10. QED
  BY <1>2, <1>3, <1>5, <1>6, <1>7, <1>8, <1>9 DEF RegistryNext

LEMMA LocalStep ==
  ASSUME RInv, Shapes', [RegistryNext]_registryVars, NEW s \in Session
  PROVE  Local(s)'
<1>0. Shapes /\ Local(s) /\ \A c \in Link : Fresh(c)
  BY DEF RInv
<1>1. CASE LinkDrops
  BY <1>0, <1>1, Drops
<1>2. CASE DaemonRestarts
  BY <1>0, <1>2, StartsAgain
<1>3. ASSUME NEW c \in Link, ReadsFrame(c)
      PROVE  Local(s)'
  BY <1>0, <1>3, Reads
<1>4. ASSUME NEW c \in Link, ReadsRows(c)
      PROVE  Local(s)'
  BY <1>0, <1>4, ReadsList
<1>5. ASSUME NEW c \in Link, NEW x \in Session, Persists(c, x)
      PROVE  Local(s)'
  BY <1>0, <1>5, PersistsFrame
<1>6. ASSUME NEW c \in Link, NEW x \in Session, Retires(c, x)
      PROVE  Local(s)'
  BY <1>0, <1>6, RetiresRow
<1>7. ASSUME NEW t \in Tab, NEW x \in Session, Mints(t, x)
      PROVE  Local(s)'
  BY <1>0, <1>7, MintsRow
<1>8. ASSUME NEW t \in Tab, ForwardsLaunch(t) \/ MarksRunning(t) \/ ForwardsAct(t)
      PROVE  Local(s)'
  BY <1>0, <1>8, OtherTab, Forwards, ActMoves
<1>9. ASSUME NEW x \in Session, Starts(x) \/ Gates(x) \/ Ends(x) \/ (GateExpires(x) /\ x = s)
      PROVE  Local(s)'
  BY <1>0, <1>9, SessionMoves
<1>10. CASE Delete(s)
  BY <1>0, <1>10, Deletes
<1>11. ASSUME \/ \E c \in Link : DaemonDials(c) \/ PeerCloses(c) \/ SocketForgotten(c) \/ Registers(c)
              \/ \E t \in Tab : LaunchArrives(t) \/ \E x \in Session : ActArrives(t, x)
              \/ \E x \in Session : Archive(x)
              \/ \E x \in Session : x # s /\ (Delete(x) \/ GateExpires(x))
              \/ UNCHANGED registryVars
       PROVE  Local(s)'
  BY <1>0, <1>11, Quiet
<1>12. QED
  BY <1>1, <1>2, <1>3, <1>4, <1>5, <1>6, <1>7, <1>8, <1>9, <1>10, <1>11 DEF RegistryNext

LEMMA InitRInv == RegistryInit => RInv
<1> SUFFICES ASSUME RegistryInit PROVE RInv
  OBVIOUS
<1>1. Shapes
  <2>1. JobOK
    BY MadeJobs DEF RegistryInit, JobOK
  <2>2. QED
    BY <2>1 DEF RegistryInit, Shapes, Table, RowStatus, SocketOK, DaemonOK, Held, InboxOK, OutboxOK
<1>2. \A c \in Link : inbox[c] = <<>> /\ outbox[c] = <<>>
  BY DEF RegistryInit
<1>3. \A d \in Link \cup Tab : job[d].about = {} /\ job[d].kind = "idle"
  BY DEF RegistryInit, Idle
<1>4. ASSUME NEW s \in Session
      PROVE  Local(s)
  <2>1. row[s] = "absent" /\ held[s] = "none" /\ s \notin filed
    BY DEF RegistryInit
  <2>2. ~Acting(s) /\ ~Launching(s) /\ ~Acted(s)
    BY <1>2, <1>3 DEF Acting, Launching, Acted, Works, Carries
  <2>3. \A c \in Link : ~Spoken(inbox[c], s) /\ ~Carries(outbox[c], "launch", s) /\ LaunchedOnce(outbox[c], s)
                          /\ LastTells(inbox[c], s, held[s])
    BY <1>2 DEF Spoken, Carries, LaunchedOnce, LastTells
  <2>4. HasRow(s) /\ OneLaunch(s) /\ Unheard(s)
    BY <1>3, <2>1, <2>2, <2>3 DEF HasRow, OneLaunch, Unheard, Works, RegistryInit
  <2>5. WordsTell(s)
    BY <2>1, <2>3 DEF WordsTell, Agreeing, LiveRow
  <2>6. QED
    BY <2>2, <2>4, <2>5 DEF Local, Tells
<1>5. \A c \in Link : Fresh(c)
  BY <1>2, RegistryConstants DEF Fresh, RegistryInit
<1>6. QED
  BY <1>1, <1>4, <1>5 DEF RInv

LEMMA RInvStep == ShelfInv /\ RInv /\ [RegistryNext]_registryVars => RInv'
<1> SUFFICES ASSUME ShelfInv, RInv, [RegistryNext]_registryVars PROVE RInv'
  OBVIOUS
<1>1. Shapes'
  BY ShapesStep DEF RInv
<1>2. \A s \in Session : Local(s)'
  BY <1>1, LocalStep
<1>3. \A c \in Link : Fresh(c)'
  BY FreshStep DEF RInv
<1>4. QED
  BY <1>1, <1>2, <1>3 DEF RInv

\* With nothing under way, no word waits that the row has not had.
LEMMA Agree == RInv => RowAgreesWithTheDaemon
<1> SUFFICES ASSUME RInv, NEW s \in Session,
                    row[s] # "deleted", s \notin lagging, ~UnderWay(s), ~Acting(s)
             PROVE  row[s] \in Agreeing(held[s])
  BY DEF RowAgreesWithTheDaemon
<1>1. ~Acted(s) /\ ~Launching(s)
  BY ActsUnderWay DEF RInv, Shapes, Acted, Launching, Works
<1>2. \A c \in Link : ~Spoken(inbox[c], s)
  BY WordsUnderWay DEF UnderWay
<1>3. WordsTell(s)
  BY <1>1 DEF RInv, Local, Tells
<1>4. QED
  BY <1>2, <1>3 DEF WordsTell

-----------------------------------------------------------------------------
(* The theorems. *)

\* However resumes, retirements and daemon restarts cross the archiving of a session, its row
\* is archived only while it is ended (setStatus, setArchived).
THEOREM ArchivedIsEnded == RegistrySpec => []ShelvedIsEnded
<1>1. ShelfInv => ShelvedIsEnded
  BY DEF ShelfInv
<1>2. QED
  BY <1>1, InitShelfInv, ShelfStep, PTL DEF RegistrySpec

\* Every variable stays in its domain.
THEOREM RegistryTypeCorrect == RegistrySpec => []RegistryTypeOK
<1>1. RInv => RegistryTypeOK
  BY ShapesType DEF RInv
<1>2. QED
  BY <1>1, InitShelfInv, ShelfStep, InitRInv, RInvStep, PTL DEF RegistrySpec

\* Once nothing is under way about a session, its row (sessions.status) agrees with what the
\* daemon holds (sessionRecords), whichever sockets dropped, were replaced or closed with frames
\* waiting, and whichever launches, resumes and reconciles crossed; the exceptions are a row
\* that was deleted, and one whose last word was lost, crossed or never said.
THEOREM RowsAgree == RegistrySpec => []RowAgreesWithTheDaemon
<1>1. QED
  BY InitShelfInv, ShelfStep, InitRInv, RInvStep, Agree, PTL DEF RegistrySpec

-----------------------------------------------------------------------------
(* RelayChannel *)


\* Only a connection whose hello was accepted is in a map.
OnlyPeers == \A c \in Conn : c \in browsers \cup {daemons} => conn[c] = "peer"

\* The last frame on its way to the daemon that holds the channel says whether a tab is
\* there.
LastWordToTheDaemon ==
  \A c \in Daemon : c = daemons /\ Receives(c) /\ toDaemon[c] # <<>> =>
    Last(toDaemon[c]) = (browsers # {})

IInv == TypeOK /\ OnlyPeers /\ LastWordToTheDaemon /\ TabsShowTheMap

USE ChannelConstants

Frames == {"online", "offline"}

\* The last frame of a queue that grew is the frame added.
LEMMA LastOfAppend ==
  ASSUME NEW S, NEW q \in Seq(S), NEW e \in S
  PROVE  Append(q, e) \in Seq(S) /\ Append(q, e) # <<>> /\ Last(Append(q, e)) = e
<1>1. Append(q, e) \in Seq(S) /\ Append(q, e) # <<>>
  OBVIOUS
<1>2. Len(Append(q, e)) = Len(q) + 1 /\ Append(q, e)[Len(q) + 1] = e
  OBVIOUS
<1>3. QED
  BY <1>1, <1>2 DEF Last

\* Reading the head of a queue leaves its last frame, unless it was the only one.
LEMMA LastOfTail ==
  ASSUME NEW S, NEW q \in Seq(S), q # <<>>
  PROVE  /\ Head(q) \in S /\ Tail(q) \in Seq(S)
         /\ Tail(q) # <<>> => Last(Tail(q)) = Last(q)
         /\ Tail(q) = <<>> => Last(q) = Head(q)
<1>1. /\ Head(q) \in S /\ Tail(q) \in Seq(S) /\ Len(Tail(q)) = Len(q) - 1
      /\ \A i \in 1 .. Len(Tail(q)) : Tail(q)[i] = q[i + 1]
  BY HeadTailProperties
<1>2. Len(q) \in Nat \ {0} /\ Head(q) = q[1]
  BY EmptySeq, LenProperties
<1>3. ASSUME Tail(q) # <<>> PROVE Last(Tail(q)) = Last(q)
  <2>1. Len(Tail(q)) \in Nat \ {0}
    BY <1>1, <1>3, EmptySeq
  <2>2. QED
    BY <1>1, <1>2, <2>1 DEF Last
<1>4. ASSUME Tail(q) = <<>> PROVE Last(q) = Head(q)
  <2>1. Len(Tail(q)) = 0
    BY <1>4, EmptySeq, Zenon
  <2>2. Len(Tail(q)) = Len(q) - 1
    BY HeadTailProperties
  <2>3. Len(q) = 1
    BY <1>2, <2>1, <2>2
  <2>4. QED
    BY <1>2, <2>3 DEF Last
<1>5. QED
  BY <1>1, <1>3, <1>4

\* What a broadcast leaves in the tabs' queues.
LEMMA Broadcasting ==
  ASSUME TypeOK, NEW S, NEW up \in BOOLEAN, Broadcast(S, up)
  PROVE  /\ toBrowser' \in [Browser -> Seq(Frames)]
         /\ \A b \in Browser :
              IF b \in S /\ Receives(b)
              THEN toBrowser'[b] # <<>> /\ Last(toBrowser'[b]) = Presence(up)
              ELSE toBrowser'[b] = toBrowser[b]
<1>1. Presence(up) \in Frames
  BY DEF Presence, Frames
<1>2. \A b \in Browser : toBrowser[b] \in Seq(Frames)
  BY DEF TypeOK, Frames
<1>3. QED
  BY <1>1, <1>2, LastOfAppend DEF Broadcast

\* What a notification leaves in the daemon connections' queues.
LEMMA Notifying ==
  ASSUME TypeOK, NEW d, NEW watching \in BOOLEAN, Notify(d, watching)
  PROVE  /\ toDaemon' \in [Daemon -> Seq(BOOLEAN)]
         /\ \A c \in Daemon :
              IF c = d /\ Receives(c)
              THEN toDaemon'[c] # <<>> /\ Last(toDaemon'[c]) = watching
              ELSE toDaemon'[c] = toDaemon[c]
<1>1. \A c \in Daemon : toDaemon[c] \in Seq(BOOLEAN)
  BY DEF TypeOK
<1>2. \A c \in Daemon :
        /\ Append(toDaemon[c], watching) \in Seq(BOOLEAN)
        /\ Append(toDaemon[c], watching) # <<>>
        /\ Last(Append(toDaemon[c], watching)) = watching
  BY <1>1, LastOfAppend
<1>3. toDaemon' = [c \in Daemon |-> IF c = d /\ Receives(c)
                                   THEN Append(toDaemon[c], watching) ELSE toDaemon[c]]
  BY DEF Notify
<1>4. QED
  BY <1>1, <1>2, <1>3, Zenon

LEMMA InitIInv == Init => IInv
<1> SUFFICES ASSUME Init PROVE IInv
  OBVIOUS
<1>1. TypeOK
  <2>1. <<>> \in Seq(BOOLEAN) /\ <<>> \in Seq({"online", "offline"})
    BY EmptySeq
  <2>2. QED
    BY <2>1 DEF Init, TypeOK, Online
<1>2. OnlyPeers /\ LastWordToTheDaemon /\ TabsShowTheMap
  BY DEF Init, OnlyPeers, LastWordToTheDaemon, TabsShowTheMap, Conn
<1>3. QED
  BY <1>1, <1>2 DEF IInv

LEMMA TypeStep == TypeOK /\ [Next]_vars => TypeOK'
<1> SUFFICES ASSUME TypeOK, [Next]_vars PROVE TypeOK'
  OBVIOUS
<1>1. ASSUME NEW c \in Conn, Dial(c)
      PROVE  TypeOK'
  BY <1>1 DEF Dial, Online, TypeOK
<1>2. ASSUME NEW c \in Conn, ClientDrops(c)
      PROVE  TypeOK'
  <2>1. toBrowser' \in [Browser -> Seq({"online", "offline"})]
    BY <1>2, EmptySeq DEF ClientDrops, TypeOK
  <2>2. toDaemon' \in [Daemon -> Seq(BOOLEAN)]
    <3>1. ASSUME c \in Daemon, NEW n \in 0 .. Len(toDaemon[c])
          PROVE  SubSeq(toDaemon[c], 1, n) \in Seq(BOOLEAN)
      <4>1. toDaemon[c] \in Seq(BOOLEAN)
        BY <3>1 DEF TypeOK
      <4>2. \A i \in 1 .. n : toDaemon[c][i] \in BOOLEAN
        BY <3>1, <4>1, LenProperties
      <4>3. n \in Int
        BY <3>1
      <4>4. QED
        BY <4>2, <4>3, SubSeqProperties
    <3>2. CASE c \in Daemon
      <4>1. PICK n \in 0 .. Len(toDaemon[c]) :
              toDaemon' = [toDaemon EXCEPT ![c] = SubSeq(@, 1, n)]
        BY <1>2, <3>2 DEF ClientDrops
      <4>2. SubSeq(toDaemon[c], 1, n) \in Seq(BOOLEAN)
        BY <3>1, <3>2
      <4>3. toDaemon \in [Daemon -> Seq(BOOLEAN)]
        BY DEF TypeOK
      <4>4. QED
        BY <4>1, <4>2, <4>3, Zenon
    <3>3. CASE c \notin Daemon
      BY <1>2, <3>3 DEF ClientDrops, TypeOK
    <3>4. QED
      BY <3>2, <3>3
  <2>3. QED
    BY <1>2, <2>1, <2>2 DEF ClientDrops, TypeOK
<1>3. ASSUME NEW c \in Conn, HelloArrives(c)
      PROVE  TypeOK'
  BY <1>3 DEF HelloArrives, TypeOK
<1>4. ASSUME NEW c \in Conn, HelloRefused(c)
      PROVE  TypeOK'
  BY <1>4 DEF HelloRefused, TypeOK
<1>5. ASSUME NEW c \in Conn, SocketCloses(c)
      PROVE  TypeOK'
  BY <1>5, Broadcasting, Notifying DEF SocketCloses, DaemonClosed, BrowserClosed, TypeOK,
     Frames
<1>6. ASSUME NEW c \in Conn, Forgotten(c)
      PROVE  TypeOK'
  BY <1>6 DEF Forgotten, TypeOK
<1>7. ASSUME NEW c \in Daemon, DaemonAccepted(c)
      PROVE  TypeOK'
  BY <1>7, Broadcasting, Notifying DEF DaemonAccepted, TypeOK, Frames
<1>8. ASSUME NEW c \in Daemon, DaemonReads(c)
      PROVE  TypeOK'
  BY <1>8 DEF DaemonReads, TypeOK
<1>9. ASSUME NEW b \in Browser, BrowserAccepted(b)
      PROVE  TypeOK'
  BY <1>9, Broadcasting, Notifying DEF BrowserAccepted, TypeOK, Frames
<1>10. ASSUME NEW b \in Browser, BrowserReads(b)
       PROVE  TypeOK'
  BY <1>10 DEF BrowserReads, Online, TypeOK
<1>11. CASE UNCHANGED vars
  BY <1>11 DEF vars, TypeOK
<1>12. QED
  BY <1>1, <1>2, <1>3, <1>4, <1>5, <1>6, <1>7, <1>8, <1>9, <1>10, <1>11 DEF Next

LEMMA PeersStep == TypeOK /\ OnlyPeers /\ [Next]_vars => OnlyPeers'
<1> SUFFICES ASSUME TypeOK /\ OnlyPeers, [Next]_vars PROVE OnlyPeers'
  OBVIOUS
<1>1. ASSUME NEW c \in Conn, Dial(c)
      PROVE  OnlyPeers'
  BY <1>1 DEF Dial, OnlyPeers
<1>2. ASSUME NEW c \in Conn, ClientDrops(c)
      PROVE  OnlyPeers'
  BY <1>2 DEF ClientDrops, OnlyPeers
<1>3. ASSUME NEW c \in Conn, HelloArrives(c)
      PROVE  OnlyPeers'
  BY <1>3 DEF HelloArrives, OnlyPeers
<1>4. ASSUME NEW c \in Conn, HelloRefused(c)
      PROVE  OnlyPeers'
  BY <1>4 DEF HelloRefused, OnlyPeers
<1>5. ASSUME NEW c \in Conn, SocketCloses(c)
      PROVE  OnlyPeers'
  BY <1>5 DEF SocketCloses, DaemonClosed, BrowserClosed, Conn, OnlyPeers
<1>6. ASSUME NEW c \in Conn, Forgotten(c)
      PROVE  OnlyPeers'
  BY <1>6 DEF Forgotten, OnlyPeers
<1>7. ASSUME NEW c \in Daemon, DaemonAccepted(c)
      PROVE  OnlyPeers'
  BY <1>7 DEF DaemonAccepted, TypeOK, OnlyPeers
<1>8. ASSUME NEW c \in Daemon, DaemonReads(c)
      PROVE  OnlyPeers'
  BY <1>8 DEF DaemonReads, OnlyPeers
<1>9. ASSUME NEW b \in Browser, BrowserAccepted(b)
      PROVE  OnlyPeers'
  BY <1>9 DEF BrowserAccepted, TypeOK, OnlyPeers
<1>10. ASSUME NEW b \in Browser, BrowserReads(b)
       PROVE  OnlyPeers'
  BY <1>10 DEF BrowserReads, OnlyPeers
<1>11. CASE UNCHANGED vars
  BY <1>11 DEF vars, OnlyPeers
<1>12. QED
  BY <1>1, <1>2, <1>3, <1>4, <1>5, <1>6, <1>7, <1>8, <1>9, <1>10, <1>11 DEF Next

LEMMA LastWordStep == IInv /\ [Next]_vars => LastWordToTheDaemon'
<1> SUFFICES ASSUME IInv, [Next]_vars PROVE LastWordToTheDaemon'
  OBVIOUS
<1>1. ASSUME NEW c \in Conn, Dial(c)
      PROVE  LastWordToTheDaemon'
  BY <1>1, Broadcasting, Notifying, LastOfTail DEF Dial, Receives, IInv, OnlyPeers,
     LastWordToTheDaemon
<1>2. ASSUME NEW c \in Conn, ClientDrops(c)
      PROVE  LastWordToTheDaemon'
  BY <1>2, Broadcasting, Notifying, LastOfTail DEF ClientDrops, TypeOK, Receives, IInv,
     LastWordToTheDaemon
<1>3. ASSUME NEW c \in Conn, HelloArrives(c)
      PROVE  LastWordToTheDaemon'
  BY <1>3, Broadcasting, Notifying, LastOfTail DEF HelloArrives, Receives, IInv,
     LastWordToTheDaemon
<1>4. ASSUME NEW c \in Conn, HelloRefused(c)
      PROVE  LastWordToTheDaemon'
  BY <1>4, Broadcasting, Notifying, LastOfTail DEF HelloRefused, Receives, IInv,
     LastWordToTheDaemon
<1>5. ASSUME NEW c \in Conn, SocketCloses(c)
      PROVE  LastWordToTheDaemon'
  <2>1. CASE conn[c] = "peer" /\ c \in Daemon /\ DaemonClosed(c)
    BY <1>5, <2>1 DEF SocketCloses, DaemonClosed, Receives, IInv, LastWordToTheDaemon
  <2>2. CASE conn[c] = "peer" /\ c \in Browser /\ BrowserClosed(c)
    <3>1. CASE browsers = {c}
      BY <1>5, <2>2, <3>1, Notifying DEF SocketCloses, BrowserClosed, Receives, IInv,
         LastWordToTheDaemon
    <3>2. CASE browsers # {c}
      BY <1>5, <2>2, <3>2 DEF SocketCloses, BrowserClosed, Receives, IInv, LastWordToTheDaemon
    <3>3. QED
      BY <3>1, <3>2
  <2>3. CASE conn[c] # "peer" /\ UNCHANGED <<daemons, browsers, toDaemon, toBrowser>>
    BY <1>5, <2>3 DEF SocketCloses, Receives, IInv, LastWordToTheDaemon
  <2>4. QED
    BY <1>5, <2>1, <2>2, <2>3 DEF SocketCloses
<1>6. ASSUME NEW c \in Conn, Forgotten(c)
      PROVE  LastWordToTheDaemon'
  BY <1>6, Broadcasting, Notifying, LastOfTail DEF Forgotten, Receives, IInv,
     LastWordToTheDaemon
<1>7. ASSUME NEW c \in Daemon, DaemonAccepted(c)
      PROVE  LastWordToTheDaemon'
  BY <1>7, Broadcasting, Notifying, LastOfTail DEF DaemonAccepted, Receives, IInv,
     LastWordToTheDaemon
<1>8. ASSUME NEW c \in Daemon, DaemonReads(c)
      PROVE  LastWordToTheDaemon'
  BY <1>8, Broadcasting, Notifying, LastOfTail DEF DaemonReads, TypeOK, Receives, IInv,
     LastWordToTheDaemon
<1>9. ASSUME NEW b \in Browser, BrowserAccepted(b)
      PROVE  LastWordToTheDaemon'
  BY <1>9, Broadcasting, Notifying, LastOfTail DEF BrowserAccepted, Receives, IInv,
     LastWordToTheDaemon
<1>10. ASSUME NEW b \in Browser, BrowserReads(b)
       PROVE  LastWordToTheDaemon'
  BY <1>10, Broadcasting, Notifying, LastOfTail DEF BrowserReads, Receives, IInv,
     LastWordToTheDaemon
<1>11. CASE UNCHANGED vars
  BY <1>11, Broadcasting, Notifying, LastOfTail DEF vars, Receives, IInv,
     LastWordToTheDaemon
<1>12. QED
  BY <1>1, <1>2, <1>3, <1>4, <1>5, <1>6, <1>7, <1>8, <1>9, <1>10, <1>11 DEF Next

LEMMA TabsStep == IInv /\ [Next]_vars => TabsShowTheMap'
<1> SUFFICES ASSUME IInv, [Next]_vars PROVE TabsShowTheMap'
  OBVIOUS
<1>1. ASSUME NEW c \in Conn, Dial(c)
      PROVE  TabsShowTheMap'
  BY <1>1, Broadcasting, Notifying, LastOfTail DEF Dial, TypeOK, Receives, IInv, OnlyPeers,
     TabsShowTheMap
<1>2. ASSUME NEW c \in Conn, ClientDrops(c)
      PROVE  TabsShowTheMap'
  BY <1>2, Broadcasting, Notifying, LastOfTail DEF ClientDrops, TypeOK, Receives, IInv,
     TabsShowTheMap
<1>3. ASSUME NEW c \in Conn, HelloArrives(c)
      PROVE  TabsShowTheMap'
  BY <1>3, Broadcasting, Notifying, LastOfTail DEF HelloArrives, Receives, IInv,
     TabsShowTheMap
<1>4. ASSUME NEW c \in Conn, HelloRefused(c)
      PROVE  TabsShowTheMap'
  BY <1>4, Broadcasting, Notifying, LastOfTail DEF HelloRefused, Receives, IInv,
     TabsShowTheMap
<1>5. ASSUME NEW c \in Conn, SocketCloses(c)
      PROVE  TabsShowTheMap'
  <2>1. CASE conn[c] = "peer" /\ c \in Daemon /\ DaemonClosed(c)
    BY <1>5, <2>1, Broadcasting DEF SocketCloses, DaemonClosed, Conn, TypeOK, Receives,
       Presence, Newest, IInv, OnlyPeers, TabsShowTheMap
  <2>2. CASE conn[c] = "peer" /\ c \in Browser /\ BrowserClosed(c)
    BY <1>5, <2>2 DEF SocketCloses, BrowserClosed, Conn, TypeOK, Receives, Presence, Newest,
       IInv, OnlyPeers, TabsShowTheMap
  <2>3. CASE conn[c] # "peer" /\ UNCHANGED <<daemons, browsers, toDaemon, toBrowser>>
    BY <1>5, <2>3 DEF SocketCloses, Conn, Receives, IInv, OnlyPeers, TabsShowTheMap
  <2>4. QED
    BY <1>5, <2>1, <2>2, <2>3 DEF SocketCloses
<1>6. ASSUME NEW c \in Conn, Forgotten(c)
      PROVE  TabsShowTheMap'
  BY <1>6, Broadcasting, Notifying, LastOfTail DEF Forgotten, Receives, IInv, TabsShowTheMap
<1>7. ASSUME NEW c \in Daemon, DaemonAccepted(c)
      PROVE  TabsShowTheMap'
  BY <1>7, Broadcasting, Notifying, LastOfTail DEF DaemonAccepted, TypeOK, Receives, Newest,
     IInv, TabsShowTheMap
<1>8. ASSUME NEW c \in Daemon, DaemonReads(c)
      PROVE  TabsShowTheMap'
  BY <1>8, Broadcasting, Notifying, LastOfTail DEF DaemonReads, Receives, IInv,
     TabsShowTheMap
<1>9. ASSUME NEW b \in Browser, BrowserAccepted(b)
      PROVE  TabsShowTheMap'
  <2>1. \A t \in Browser :
          IF t = b /\ Receives(t)
          THEN toBrowser'[t] # <<>> /\ Last(toBrowser'[t]) = Presence(daemons # NoConn)
          ELSE toBrowser'[t] = toBrowser[t]
    <3>1. (daemons # NoConn) \in BOOLEAN
      OBVIOUS
    <3>2. TypeOK /\ Broadcast({b}, daemons # NoConn)
      BY <1>9 DEF BrowserAccepted, IInv
    <3>3. \A t \in Browser :
            IF t \in {b} /\ Receives(t)
            THEN toBrowser'[t] # <<>> /\ Last(toBrowser'[t]) = Presence(daemons # NoConn)
            ELSE toBrowser'[t] = toBrowser[t]
      BY <3>1, <3>2, Broadcasting
    <3>4. QED
      BY <3>3, Zenon
  <2>2. ASSUME NEW t \in browsers', Receives(t)'
        PROVE  Newest(toBrowser[t], shown[t])' = Presence(daemons # NoConn)'
    <3>1. t \in browsers \cup {b} /\ Receives(t) /\ shown' = shown /\ daemons' = daemons
      BY <1>9, <2>2 DEF BrowserAccepted, Receives
    <3>2. t \in Browser
      BY <1>9, <3>1 DEF IInv, TypeOK
    <3>3. CASE t = b
      BY <2>1, <3>1, <3>2, <3>3, Zenon DEF Newest
    <3>4. CASE t # b
      <4>1. t \in browsers /\ toBrowser'[t] = toBrowser[t]
        BY <2>1, <3>1, <3>2, <3>4
      <4>2. Newest(toBrowser[t], shown[t]) = Presence(daemons # NoConn)
        BY <3>1, <4>1 DEF IInv, TabsShowTheMap
      <4>3. QED
        BY <3>1, <4>1, <4>2, Zenon
    <3>5. QED
      BY <3>3, <3>4
  <2>3. QED
    BY <2>2 DEF TabsShowTheMap
<1>10. ASSUME NEW b \in Browser, BrowserReads(b)
       PROVE  TabsShowTheMap'
  BY <1>10, Broadcasting, Notifying, LastOfTail DEF BrowserReads, TypeOK, Receives, Newest,
     IInv, TabsShowTheMap
<1>11. CASE UNCHANGED vars
  BY <1>11, Broadcasting, Notifying, LastOfTail DEF vars, Receives, IInv, TabsShowTheMap
<1>12. QED
  BY <1>1, <1>2, <1>3, <1>4, <1>5, <1>6, <1>7, <1>8, <1>9, <1>10, <1>11 DEF Next

LEMMA Invariant == Spec => []IInv
<1>1. IInv /\ [Next]_vars => IInv'
  BY TypeStep, PeersStep, LastWordStep, TabsStep DEF IInv
<1>2. QED
  BY InitIInv, <1>1, PTL DEF Spec

-----------------------------------------------------------------------------
\* Every variable stays in its domain.
THEOREM TypeCorrect == Spec => []TypeOK
<1>1. IInv => TypeOK
  BY DEF IInv
<1>2. QED
  BY Invariant, <1>1, PTL

\* Once it has read its frames a connected tab shows the device as the relay has it,
\* whatever reconnects and late closes it went through (broadcastToBrowsers, handleHello).
THEOREM TabsToldTheTruth == Spec => []TabsShowTheMap
<1>1. IInv => TabsShowTheMap
  BY DEF IInv
<1>2. QED
  BY Invariant, <1>1, PTL

-----------------------------------------------------------------------------
(* The action properties. *)

\* Once the daemon that holds the channel has read its frames it knows whether any tab
\* watches (handleHello and the close handler's viewer.presence).
THEOREM ViewersKnown == Spec => DaemonKnowsItsViewers
<1>1. ASSUME IInv, Next, NEW c \in Daemon,
             DaemonReads(c) /\ c = daemons /\ Receives(c) /\ toDaemon'[c] = <<>>
      PROVE  watched' = (browsers # {})
  <2>1. /\ toDaemon[c] \in Seq(BOOLEAN) /\ toDaemon[c] # <<>>
        /\ watched' = Head(toDaemon[c]) /\ Tail(toDaemon[c]) = <<>>
    BY <1>1 DEF DaemonReads, IInv, TypeOK
  <2>2. Last(toDaemon[c]) = Head(toDaemon[c])
    BY <2>1, LastOfTail
  <2>3. Last(toDaemon[c]) = (browsers # {})
    BY <1>1, <2>1, Zenon DEF IInv, LastWordToTheDaemon
  <2>4. QED
    BY <2>1, <2>2, <2>3, Zenon
<1>2. IInv /\ [Next]_vars =>
        [\A c \in Daemon :
           DaemonReads(c) /\ c = daemons /\ Receives(c) /\ toDaemon'[c] = <<>>
             => watched' = (browsers # {})]_vars
  BY <1>1, Zenon
<1>3. QED
  BY Invariant, <1>2, PTL DEF Spec, DaemonKnowsItsViewers

\* A connection that closes leaves the maps, unless its hello was still being checked
\* (the close handler, handleHello).
THEOREM OnlyLateGhosts == Spec => OnlyALateHelloLeavesAGhost
<1> DEFINE Step == \A c \in gone' : c \in browsers' \cup {daemons'} =>
                       \/ conn[c] = "hello"
                       \/ c \in gone /\ c \in browsers \cup {daemons}
<1>1. ASSUME IInv, NEW c \in Conn, SocketCloses(c) PROVE Step
  BY <1>1 DEF IInv, TypeOK, OnlyPeers, SocketCloses, DaemonClosed, BrowserClosed, Conn
<1>2. ASSUME IInv, Next, \A c \in Conn : ~SocketCloses(c) PROVE Step
  BY <1>2 DEF Next, Dial, ClientDrops, HelloArrives, HelloRefused, Forgotten,
     DaemonAccepted, DaemonReads, BrowserAccepted, BrowserReads
<1>3. IInv /\ [Next]_vars => [Step]_vars
  BY <1>1, <1>2
<1>4. QED
  BY Invariant, <1>3, PTL DEF Spec, OnlyALateHelloLeavesAGhost

\* A close event unregisters nobody but its own connection; only a new daemon connection
\* takes another's place.
THEOREM ClosesAreLocal == Spec => CloseIsLocal
<1> DEFINE Stays == \A c \in Conn : c \in browsers \cup {daemons} =>
                      \/ c \in browsers' \cup {daemons'}
                      \/ c \in gone' \ gone
                      \/ c \in Daemon /\ daemons' \in Daemon \ {c}
<1>1. ASSUME IInv, NEW c \in Conn, SocketCloses(c) PROVE Stays
  BY <1>1 DEF SocketCloses, DaemonClosed, BrowserClosed
<1>2. ASSUME IInv, Next, \A c \in Conn : ~SocketCloses(c) PROVE Stays
  BY <1>2 DEF IInv, TypeOK, Next, Dial, ClientDrops, HelloArrives, HelloRefused, Forgotten,
              DaemonAccepted, DaemonReads, BrowserAccepted, BrowserReads, Conn
<1>3. IInv /\ [Next]_vars => [Stays]_vars
  BY <1>1, <1>2
<1>4. QED
  BY Invariant, <1>3, PTL DEF Spec, CloseIsLocal
=============================================================================
