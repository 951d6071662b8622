-------------------------- MODULE SessionListProofs --------------------------
(***************************************************************************)
(* What holds of a tab's list of sessions, for every set of sessions, tabs *)
(* and names and every bound.                                              *)
(*                                                                         *)
(* Of SessionBoard: pages leave out no session, and what the tab put away  *)
(* stays away.                                                             *)
(*                                                                         *)
(* Of SessionTitle: a tab shows the name the row has.                      *)
(*                                                                         *)
(* Of SessionMeta: daemon, row and tab agree on the session's labels.      *)
(***************************************************************************)
EXTENDS SessionBoard, SessionTitle, SessionMeta, FiniteSetTheorems, WellFoundedInduction,
        SequenceTheorems, TLAPS

-----------------------------------------------------------------------------
(* SessionBoard *)

USE BoardConstants

-----------------------------------------------------------------------------
(* Pages. *)

\* A set of naturals has a least element.
LEMMA LeastNumber ==
  ASSUME NEW T, T \subseteq Nat, T # {}
  PROVE  \E n \in T : \A m \in T : n <= m
<1>1. PICK n \in T : \A m \in T : ~(<<m, n>> \in OpToRel(<, Nat))
  BY NatLessThanWellFounded, WFMin
<1>2. ASSUME NEW m \in T PROVE n <= m
  <2>1. ~(m < n)
    BY <1>1, <1>2 DEF OpToRel
  <2>2. QED
    BY <2>1
<1>3. QED
  BY <1>2

\* Ended rows are ordered, whatever times they share.
LEMMA Ordered ==
  ASSUME TypeOK
  PROVE  /\ \A s \in Session :
              ~After(KeyOf(s), KeyOf(s)) /\ KeyOf(s) # Drained /\ KeyOf(s) \in Key
         /\ \A s, t \in Session :
              s # t => After(KeyOf(s), KeyOf(t)) \/ After(KeyOf(t), KeyOf(s))
         /\ \A s, t \in Session : \A k \in Key :
              After(KeyOf(s), KeyOf(t)) /\ After(KeyOf(t), k) => After(KeyOf(s), k)
<1>1. \A s \in Session : rows[s].at \in 0 .. MaxTime /\ s \in Nat
  BY DEF TypeOK, RegistryOK, Row
<1>2. QED
  BY <1>1 DEF After, KeyOf, Drained, Key

\* A page shows what is behind its cursor, or the next one does (listPage).
LEMMA PageLeavesNoGap ==
  ASSUME TypeOK, NEW c \in Key
  PROVE  /\ ReadPage(c).cursor \in Key
         /\ ReadPage(c).rows \subseteq {s \in Session : Listed(s)}
         /\ \A s \in Session : Listed(s) /\ Behind(s, c) =>
              \/ s \in ReadPage(c).rows
              \/ ReadPage(c).cursor # Drained /\ After(KeyOf(s), ReadPage(c).cursor)
<1> DEFINE after    == {s \in Session : Listed(s) /\ Behind(s, c)}
           ahead(s) == {t \in after : After(KeyOf(s), KeyOf(t))}
           served   == {s \in after : Cardinality(ahead(s)) < PageSize}
           last     == CHOOSE s \in served :
                         \A t \in served : t = s \/ After(KeyOf(s), KeyOf(t))
<1>1. ReadPage(c) = [rows |-> served, cursor |-> NextCursor(after, last)]
  BY DEF ReadPage
<1>2. /\ IsFiniteSet(after) /\ Cardinality(after) \in Nat
      /\ \A s \in Session : IsFiniteSet(ahead(s)) /\ Cardinality(ahead(s)) \in Nat
  <2>1. IsFiniteSet(after)
    <3>1. after \in SUBSET Session
      OBVIOUS
    <3>2. QED
      BY <3>1, FS_Subset
  <2>2. \A s \in Session : ahead(s) \in SUBSET after
    OBVIOUS
  <2>3. \A s \in Session : IsFiniteSet(ahead(s))
    BY <2>1, <2>2, FS_Subset
  <2>4. QED
    BY <2>1, <2>3, FS_CardinalityType
<1>3. ASSUME NEW s \in after, NEW t \in after, After(KeyOf(s), KeyOf(t))
      PROVE  Cardinality(ahead(t)) < Cardinality(ahead(s))
  <2>1. ahead(t) \in SUBSET ahead(s) /\ t \in ahead(s) /\ t \notin ahead(t)
    BY <1>3, Ordered
  <2>2. /\ Cardinality(ahead(t)) <= Cardinality(ahead(s))
        /\ Cardinality(ahead(t)) # Cardinality(ahead(s))
    <3>1. IsFiniteSet(ahead(s))
      BY <1>2
    <3> HIDE DEF ahead
    <3>2. QED
      BY <2>1, <3>1, FS_Subset
  <2>3. Cardinality(ahead(t)) \in Nat /\ Cardinality(ahead(s)) \in Nat
    BY <1>2
  <2> HIDE DEF ahead
  <2>4. QED
    BY <2>2, <2>3
<1>4. CASE Cardinality(after) <= PageSize
  <2>1. ASSUME NEW s \in after PROVE Cardinality(ahead(s)) < PageSize
    <3>1. ahead(s) \in SUBSET after /\ s \notin ahead(s)
      BY Ordered
    <3>2. /\ Cardinality(ahead(s)) <= Cardinality(after)
          /\ Cardinality(ahead(s)) # Cardinality(after)
      <4>1. IsFiniteSet(after)
        BY <1>2
      <4> HIDE DEF ahead, after
      <4>2. QED
        BY <2>1, <3>1, <4>1, FS_Subset
    <3>3. Cardinality(ahead(s)) \in Nat /\ Cardinality(after) \in Nat
      BY <1>2
    <3> HIDE DEF ahead, after
    <3>4. QED
      BY <1>4, <3>2, <3>3
  <2>2. served = after
    BY <2>1
  <2>3. NextCursor(after, last) = Drained
    <3>1. Cardinality(after) \in Nat
      BY <1>2
    <3> HIDE DEF after, last
    <3>2. QED
      BY <1>4, <3>1 DEF NextCursor
  <2>4. ReadPage(c).rows = after /\ ReadPage(c).cursor = Drained
    BY <1>1, <2>2, <2>3
  <2>5. QED
    BY <2>4 DEF Key, Drained
<1>5. CASE Cardinality(after) > PageSize
  <2>1. PICK first \in after : \A t \in after : ~After(KeyOf(first), KeyOf(t))
    <3> DEFINE T == {Cardinality(ahead(s)) : s \in after}
    <3>1. after # {}
      BY <1>5, <1>2, FS_EmptySet
    <3>2. T \subseteq Nat /\ T # {}
      BY <1>2, <3>1
    <3>3. PICK n \in T : \A m \in T : n <= m
      <4> HIDE DEF T
      <4>1. QED
        BY <3>2, LeastNumber
    <3>4. PICK first \in after : n = Cardinality(ahead(first))
      OBVIOUS
    <3>5. ASSUME NEW t \in after, After(KeyOf(first), KeyOf(t)) PROVE FALSE
      <4>1. Cardinality(ahead(t)) < n
        BY <1>3, <3>4, <3>5
      <4>2. n <= Cardinality(ahead(t))
        BY <3>3
      <4>3. n \in Nat /\ Cardinality(ahead(t)) \in Nat
        BY <1>2, <3>2
      <4> HIDE DEF ahead, after
      <4>4. QED
        BY <4>1, <4>2, <4>3
    <3>6. QED
      BY <3>5
  <2>2. first \in served
    <3>1. ahead(first) = {}
      BY <2>1
    <3>2. QED
      BY <3>1, FS_EmptySet
  <2>3. PICK l \in served : \A t \in served : t = l \/ After(KeyOf(l), KeyOf(t))
    <3> DEFINE T == {PageSize - Cardinality(ahead(s)) : s \in served}
    <3>1. T \subseteq Nat /\ T # {}
      <4>1. ASSUME NEW s \in served PROVE PageSize - Cardinality(ahead(s)) \in Nat
        <5>1. Cardinality(ahead(s)) \in Nat /\ Cardinality(ahead(s)) < PageSize
          BY <1>2
        <5> HIDE DEF ahead, after
        <5>2. QED
          BY <5>1
      <4>2. QED
        BY <2>2, <4>1
    <3>2. PICK n \in T : \A m \in T : n <= m
      <4> HIDE DEF T
      <4>1. QED
        BY <3>1, LeastNumber
    <3>3. PICK l \in served : n = PageSize - Cardinality(ahead(l))
      OBVIOUS
    <3>4. ASSUME NEW t \in served, t # l, ~After(KeyOf(l), KeyOf(t)) PROVE FALSE
      <4>1. After(KeyOf(t), KeyOf(l))
        BY <3>4, Ordered
      <4>2. Cardinality(ahead(l)) < Cardinality(ahead(t))
        BY <1>3, <4>1
      <4>3. n <= PageSize - Cardinality(ahead(t))
        BY <3>2
      <4>4. Cardinality(ahead(l)) \in Nat /\ Cardinality(ahead(t)) \in Nat
        BY <1>2
      <4> HIDE DEF ahead, after
      <4>5. QED
        BY <3>3, <4>2, <4>3, <4>4
    <3>5. QED
      BY <3>4
  <2>4. last \in served /\ \A t \in served : t = last \/ After(KeyOf(last), KeyOf(t))
    <3> HIDE DEF served
    <3>1. QED
      BY <2>3
  <2>5. NextCursor(after, last) = KeyOf(last)
    <3> HIDE DEF after, last
    <3>1. QED
      BY <1>5 DEF NextCursor
  <2>6. ASSUME NEW s \in after, s \notin served PROVE After(KeyOf(s), KeyOf(last))
    <3>1. last \in after /\ s # last
      BY <2>4, <2>6
    <3>2. CASE After(KeyOf(last), KeyOf(s))
      <4>1. Cardinality(ahead(s)) < Cardinality(ahead(last))
        BY <1>3, <3>1, <3>2
      <4>2. Cardinality(ahead(last)) < PageSize /\ ~(Cardinality(ahead(s)) < PageSize)
        BY <2>4, <2>6
      <4>3. Cardinality(ahead(last)) \in Nat /\ Cardinality(ahead(s)) \in Nat
        BY <1>2, <3>1
      <4> HIDE DEF ahead, last, after
      <4>4. QED
        BY <4>1, <4>2, <4>3
    <3>3. QED
      BY <3>1, <3>2, Ordered
  <2>7. ReadPage(c).rows = served /\ ReadPage(c).cursor = KeyOf(last) /\ last \in Session
    BY <1>1, <2>4, <2>5
  <2> HIDE DEF last
  <2>8. QED
    BY <2>6, <2>7, Ordered
<1>6. Cardinality(after) <= PageSize \/ Cardinality(after) > PageSize
  <2>1. Cardinality(after) \in Nat
    BY <1>2
  <2> HIDE DEF after
  <2>2. QED
    BY <2>1
<1>7. QED
  BY <1>4, <1>5, <1>6

-----------------------------------------------------------------------------
(* The invariant. *)

\* What a load owes goes on or is listed still.
Standing(s) == rows[s].is = "running" \/ Listed(s)

\* Session s is among these rows, or behind this cursor.
Reached(s, R, c) == s \in R \/ (rows[s].is = "ended" /\ c # Drained /\ After(KeyOf(s), c))

Unmoved ==
  /\ \A s \in owed : Standing(s)
  /\ load # NoLoad => \A s \in load.owed : Standing(s)

\* A load under way or delivered reaches what it owes ...
Loads ==
  /\ load.at = "half" =>
       \A s \in load.owed : rows[s].is = "running" \/ Reached(s, load.rows, load.cursor)
  /\ load.at = "served" => \A s \in load.owed : Reached(s, load.rows, load.cursor)
  /\ \A s \in owed : Reached(s, data.rows, data.cursor)

\* ... and so do the pages appended to it, and one under way that is asked for after it.
Pages ==
  /\ skewed \/ \A s \in owed : Reached(s, data.rows \cup extra, cursor)
  /\ page.at = "asked" /\ ~page.late => page.from = cursor
  /\ page.at = "served" /\ ~page.late =>
       skewed \/ \A s \in owed : Reached(s, data.rows \cup extra \cup page.rows, page.cursor)

\* What was put away is archived or deleted still, and in nothing the tab has or awaits
\* since; a row on the shelf has ended.
Gone ==
  /\ \A s \in Session : rows[s].archived => rows[s].is \in {"ended", "deleted"}
  /\ away \subseteq put
  /\ \A s \in put : Away(s) /\ (s \in live => s \in echoed)
  /\ load # NoLoad => put \subseteq load.put /\ put \cap load.rows = {}
  /\ away \cap data.rows = {}
  /\ away \cap extra # {} => skewed
  /\ page.at = "served" /\ ~page.late => away \cap page.rows = {}

IInv == TypeOK /\ Unmoved /\ Loads /\ Pages /\ Gone

LEMMA DrainedIsAKey == Drained \in Key /\ Top \in Key
  BY DEF Drained, Top, Key

\* Everything is behind the top.
LEMMA TopIsAbove ==
  ASSUME TypeOK, NEW s \in Session
  PROVE  Top \in Key /\ Behind(s, Top)
  BY DEF TypeOK, RegistryOK, Row, Top, Behind, After, KeyOf, Key

LEMMA InitIInv == Init => IInv
<1> SUFFICES ASSUME Init PROVE IInv
  OBVIOUS
<1>1. TypeOK
  <2>1. Drained \in Key
    BY DEF Drained, Key
  <2>2. RegistryOK
    <3>1. ASSUME NEW s \in Session PROVE rows[s] \in Row
      <4>1. rows[s] \in [is : {"none", "running", "ended"}, at : {0}, archived : {FALSE}]
        BY DEF Init
      <4>2. /\ rows[s] = [is |-> rows[s].is, at |-> 0, archived |-> FALSE]
            /\ rows[s].is \in {"none", "running", "ended"}
        BY <4>1
      <4>3. 0 \in 0 .. MaxTime
        OBVIOUS
      <4>4. ASSUME NEW i \in {"none", "running", "ended"}
            PROVE  [is |-> i, at |-> 0, archived |-> FALSE] \in Row
        BY <4>3 DEF Row
      <4>5. QED
        BY <4>2, <4>4
    <3>2. rows = [s \in Session |-> rows[s]]
      BY DEF Init
    <3>3. rows \in [Session -> Row]
      BY <3>1, <3>2
    <3>4. QED
      BY <3>3 DEF Init, RegistryOK
  <2>3. QED
    BY <2>1, <2>2 DEF Init, TypeOK, TabOK, LoadOK, PageOK, PastOK
<1>2. Unmoved /\ Loads /\ Pages /\ Gone
  BY DEF Init, Unmoved, Loads, Pages, Gone, NoLoad, NoPage
<1>3. QED
  BY <1>1, <1>2 DEF IInv

\* A row put on the shelf or taken off it is a row.
LEMMA ShelvedRow ==
  ASSUME TypeOK, NEW s \in Session, NEW shelf \in BOOLEAN
  PROVE  [rows EXCEPT ![s].archived = shelf] \in [Session -> Row]
<1>1. [rows[s] EXCEPT !.archived = shelf] \in Row
  <2>1. rows[s] \in Row
    BY DEF TypeOK, RegistryOK
  <2>2. QED
    BY <2>1 DEF Row
<1>2. QED
  BY <1>1 DEF TypeOK, RegistryOK

LEMMA RegistryStep == TypeOK /\ [Next]_vars => RegistryOK'
<1> SUFFICES ASSUME TypeOK, [Next]_vars PROVE RegistryOK'
  OBVIOUS
<1>1. ASSUME NEW s \in Session, Begins(s)
      PROVE  RegistryOK'
  BY <1>1 DEF Begins, Stamp, Moves, TypeOK, RegistryOK, Row
<1>2. ASSUME NEW s \in Session, Updates(s)
      PROVE  RegistryOK'
  BY <1>2 DEF Updates, Stamp, Moves, TypeOK, RegistryOK, Row
<1>3. ASSUME NEW s \in Session, ElseArchives(s)
      PROVE  RegistryOK'
  <2>1. rows' \in [Session -> Row]
    BY <1>3, ShelvedRow DEF ElseArchives, Shelved
  <2>2. QED
    BY <1>3, <2>1 DEF ElseArchives, Shelved, Moves, TypeOK, RegistryOK
<1>4. ASSUME NEW s \in Session, Restores(s)
      PROVE  RegistryOK'
  <2>1. rows' \in [Session -> Row]
    BY <1>4, ShelvedRow DEF Restores, Shelved
  <2>2. QED
    BY <1>4, <2>1 DEF Restores, Shelved, Moves, TypeOK, RegistryOK
<1>5. ASSUME NEW s \in Session, ElseDeletes(s)
      PROVE  RegistryOK'
  BY <1>5 DEF ElseDeletes, Deleted, Moves, TypeOK, RegistryOK, Row
<1>6. ASSUME NEW s \in Session, PutAway(s)
      PROVE  RegistryOK'
  <2>1. CASE Shelved(s, TRUE)
    <3>1. rows' \in [Session -> Row]
      BY <2>1, ShelvedRow DEF Shelved
    <3>2. QED
      BY <1>6, <2>1, <3>1 DEF PutAway, Shelved, Moves, TypeOK, RegistryOK
  <2>2. CASE Deleted(s)
    BY <1>6, <2>2 DEF PutAway, Deleted, Moves, TypeOK, RegistryOK, Row
  <2>3. QED
    BY <1>6, <2>1, <2>2 DEF PutAway
<1>7. ASSUME NEW s \in Session, FrameArrives(s)
      PROVE  RegistryOK'
  BY <1>7 DEF FrameArrives, relay, TypeOK, RegistryOK
<1>8. CASE LoadReads
  BY <1>8 DEF LoadReads, relay, TypeOK, RegistryOK
<1>9. CASE LoadServed
  BY <1>9 DEF LoadServed, relay, TypeOK, RegistryOK
<1>10. CASE LoadArrives
  BY <1>10 DEF LoadArrives, relay, TypeOK, RegistryOK
<1>11. CASE LoadMore
  BY <1>11 DEF LoadMore, relay, TypeOK, RegistryOK
<1>12. CASE PageServed
  BY <1>12 DEF PageServed, relay, TypeOK, RegistryOK
<1>13. CASE PageArrives
  BY <1>13 DEF PageArrives, relay, TypeOK, RegistryOK
<1>14. CASE PageFails
  BY <1>14 DEF PageFails, relay, TypeOK, RegistryOK
<1>15. CASE PutAwayDone
  BY <1>15 DEF PutAwayDone, relay, TypeOK, RegistryOK
<1>16. CASE UNCHANGED vars
  BY <1>16 DEF vars, relay, TypeOK, RegistryOK
<1>17. QED
  BY <1>1, <1>2, <1>3, <1>4, <1>5, <1>6, <1>7, <1>8, <1>9, <1>10, <1>11, <1>12, <1>13, <1>14,
     <1>15, <1>16 DEF Next

LEMMA TabStep == TypeOK /\ [Next]_vars => TabOK'
<1> SUFFICES ASSUME TypeOK, [Next]_vars PROVE TabOK'
  OBVIOUS
<1>1. ASSUME NEW s \in Session, Begins(s)
      PROVE  TabOK'
  BY <1>1 DEF Begins, Stamp, pager, TabOK, TypeOK
<1>2. ASSUME NEW s \in Session, Updates(s)
      PROVE  TabOK'
  BY <1>2 DEF Updates, Stamp, pager, TabOK, TypeOK
<1>3. ASSUME NEW s \in Session, ElseArchives(s)
      PROVE  TabOK'
  BY <1>3 DEF ElseArchives, pager, TabOK, TypeOK
<1>4. ASSUME NEW s \in Session, Restores(s)
      PROVE  TabOK'
  BY <1>4 DEF Restores, pager, TabOK, TypeOK
<1>5. ASSUME NEW s \in Session, ElseDeletes(s)
      PROVE  TabOK'
  BY <1>5 DEF ElseDeletes, pager, TabOK, TypeOK
<1>6. ASSUME NEW s \in Session, PutAway(s)
      PROVE  TabOK'
  BY <1>6 DEF PutAway, pager, TabOK, TypeOK
<1>7. ASSUME NEW s \in Session, FrameArrives(s)
      PROVE  TabOK'
  BY <1>7 DEF FrameArrives, pager, TabOK, TypeOK
<1>8. CASE LoadReads
  BY <1>8 DEF LoadReads, pager, TabOK, TypeOK
<1>9. CASE LoadServed
  BY <1>9 DEF LoadServed, pager, TabOK, TypeOK
<1>10. CASE LoadArrives
  BY <1>10, DrainedIsAKey DEF LoadArrives, Reset, TabOK, TypeOK, LoadOK, NoLoad
<1>11. CASE LoadMore
  BY <1>11 DEF LoadMore, TabOK, TypeOK
<1>12. CASE PageServed
  BY <1>12 DEF PageServed, TabOK, TypeOK
<1>13. CASE PageArrives
  <2>1. page.rows \in SUBSET Session /\ page.cursor \in Key
    BY <1>13 DEF PageArrives, TypeOK, PageOK, NoPage
  <2>2. QED
    BY <1>13, <2>1 DEF PageArrives, TypeOK, TabOK
<1>14. CASE PageFails
  BY <1>14 DEF PageFails, TabOK, TypeOK
<1>15. CASE PutAwayDone
  BY <1>15, DrainedIsAKey DEF PutAwayDone, Forgets, TabOK, TypeOK
<1>16. CASE UNCHANGED vars
  BY <1>16 DEF vars, pager, TabOK, TypeOK
<1>17. QED
  BY <1>1, <1>2, <1>3, <1>4, <1>5, <1>6, <1>7, <1>8, <1>9, <1>10, <1>11, <1>12, <1>13, <1>14,
     <1>15, <1>16 DEF Next

LEMMA LoadStep == TypeOK /\ [Next]_vars => LoadOK'
<1> SUFFICES ASSUME TypeOK, [Next]_vars PROVE LoadOK'
  OBVIOUS
<1>1. ASSUME NEW s \in Session, Begins(s)
      PROVE  LoadOK'
  BY <1>1 DEF Begins, Stamp, Moves, LoadOK, TypeOK
<1>2. ASSUME NEW s \in Session, Updates(s)
      PROVE  LoadOK'
  BY <1>2 DEF Updates, Stamp, Moves, LoadOK, TypeOK
<1>3. ASSUME NEW s \in Session, ElseArchives(s)
      PROVE  LoadOK'
  BY <1>3 DEF ElseArchives, Shelved, Moves, LoadOK, TypeOK
<1>4. ASSUME NEW s \in Session, Restores(s)
      PROVE  LoadOK'
  BY <1>4 DEF Restores, Shelved, Moves, LoadOK, TypeOK
<1>5. ASSUME NEW s \in Session, ElseDeletes(s)
      PROVE  LoadOK'
  BY <1>5 DEF ElseDeletes, Deleted, Moves, LoadOK, TypeOK
<1>6. ASSUME NEW s \in Session, PutAway(s)
      PROVE  LoadOK'
  BY <1>6 DEF PutAway, Shelved, Deleted, Moves, LoadOK, TypeOK
<1>7. ASSUME NEW s \in Session, FrameArrives(s)
      PROVE  LoadOK'
  BY <1>7 DEF FrameArrives, LoadOK, TypeOK
<1>8. CASE LoadReads
  BY <1>8, PageLeavesNoGap, DrainedIsAKey DEF LoadReads, Active, LoadOK, TypeOK, PastOK
<1>9. CASE LoadServed
  <2>1. load \in [at : {"half", "served"}, rows : SUBSET Session, cursor : Key,
                 put : SUBSET Session, owed : SUBSET Session]
    BY <1>9 DEF LoadServed, TypeOK, LoadOK, NoLoad
  <2>2. Active \in SUBSET Session
    BY DEF Active
  <2>3. QED
    BY <1>9, <2>1, <2>2 DEF LoadServed, LoadOK
<1>10. CASE LoadArrives
  BY <1>10 DEF LoadArrives, LoadOK
<1>11. CASE LoadMore
  BY <1>11 DEF LoadMore, LoadOK, TypeOK
<1>12. CASE PageServed
  BY <1>12, PageLeavesNoGap, DrainedIsAKey DEF PageServed, LoadOK, TypeOK
<1>13. CASE PageArrives
  BY <1>13 DEF PageArrives, LoadOK, TypeOK
<1>14. CASE PageFails
  BY <1>14 DEF PageFails, LoadOK, TypeOK
<1>15. CASE PutAwayDone
  BY <1>15 DEF PutAwayDone, LoadOK
<1>16. CASE UNCHANGED vars
  BY <1>16 DEF vars, LoadOK, TypeOK
<1>17. QED
  BY <1>1, <1>2, <1>3, <1>4, <1>5, <1>6, <1>7, <1>8, <1>9, <1>10, <1>11, <1>12, <1>13, <1>14,
     <1>15, <1>16 DEF Next

LEMMA PageStep == TypeOK /\ [Next]_vars => PageOK'
<1> SUFFICES ASSUME TypeOK, [Next]_vars PROVE PageOK'
  OBVIOUS
<1>1. ASSUME NEW s \in Session, Begins(s)
      PROVE  PageOK'
  BY <1>1 DEF Begins, pager, PageOK, TypeOK
<1>2. ASSUME NEW s \in Session, Updates(s)
      PROVE  PageOK'
  BY <1>2 DEF Updates, pager, PageOK, TypeOK
<1>3. ASSUME NEW s \in Session, ElseArchives(s)
      PROVE  PageOK'
  BY <1>3 DEF ElseArchives, pager, PageOK, TypeOK
<1>4. ASSUME NEW s \in Session, Restores(s)
      PROVE  PageOK'
  BY <1>4 DEF Restores, pager, PageOK, TypeOK
<1>5. ASSUME NEW s \in Session, ElseDeletes(s)
      PROVE  PageOK'
  BY <1>5 DEF ElseDeletes, pager, PageOK, TypeOK
<1>6. ASSUME NEW s \in Session, PutAway(s)
      PROVE  PageOK'
  BY <1>6 DEF PutAway, pager, PageOK, TypeOK
<1>7. ASSUME NEW s \in Session, FrameArrives(s)
      PROVE  PageOK'
  BY <1>7 DEF FrameArrives, pager, PageOK, TypeOK
<1>8. CASE LoadReads
  BY <1>8, PageLeavesNoGap, DrainedIsAKey DEF LoadReads, pager, PageOK, TypeOK
<1>9. CASE LoadServed
  BY <1>9 DEF LoadServed, pager, PageOK, TypeOK
<1>10. CASE LoadArrives
  BY <1>10 DEF LoadArrives, PageOK, TypeOK
<1>11. CASE LoadMore
  BY <1>11 DEF LoadMore, PageOK, TypeOK, TabOK
<1>12. CASE PageServed
  BY <1>12, PageLeavesNoGap, DrainedIsAKey DEF PageServed, PageOK, TypeOK, NoPage
<1>13. CASE PageArrives
  BY <1>13 DEF PageArrives, PageOK
<1>14. CASE PageFails
  BY <1>14 DEF PageFails, PageOK
<1>15. CASE PutAwayDone
  BY <1>15 DEF PutAwayDone, PageOK, TypeOK
<1>16. CASE UNCHANGED vars
  BY <1>16 DEF vars, pager, PageOK, TypeOK
<1>17. QED
  BY <1>1, <1>2, <1>3, <1>4, <1>5, <1>6, <1>7, <1>8, <1>9, <1>10, <1>11, <1>12, <1>13, <1>14,
     <1>15, <1>16 DEF Next

LEMMA PastStep == TypeOK /\ [Next]_vars => PastOK'
<1> SUFFICES ASSUME TypeOK, [Next]_vars PROVE PastOK'
  OBVIOUS
<1>1. ASSUME NEW s \in Session, Begins(s)
      PROVE  PastOK'
  BY <1>1 DEF Begins, Stamp, Moves, PastOK, TypeOK
<1>2. ASSUME NEW s \in Session, Updates(s)
      PROVE  PastOK'
  BY <1>2 DEF Updates, Stamp, Moves, PastOK, TypeOK
<1>3. ASSUME NEW s \in Session, ElseArchives(s)
      PROVE  PastOK'
  BY <1>3 DEF ElseArchives, Shelved, Moves, PastOK, TypeOK
<1>4. ASSUME NEW s \in Session, Restores(s)
      PROVE  PastOK'
  BY <1>4 DEF Restores, Shelved, Moves, PastOK, TypeOK
<1>5. ASSUME NEW s \in Session, ElseDeletes(s)
      PROVE  PastOK'
  BY <1>5 DEF ElseDeletes, Deleted, Moves, PastOK, TypeOK
<1>6. ASSUME NEW s \in Session, PutAway(s)
      PROVE  PastOK'
  BY <1>6 DEF PutAway, Shelved, Deleted, Moves, PastOK, TypeOK
<1>7. ASSUME NEW s \in Session, FrameArrives(s)
      PROVE  PastOK'
  BY <1>7 DEF FrameArrives, PastOK, TypeOK
<1>8. CASE LoadReads
  BY <1>8 DEF LoadReads, past, PastOK, TypeOK
<1>9. CASE LoadServed
  BY <1>9 DEF LoadServed, past, PastOK, TypeOK
<1>10. CASE LoadArrives
  <2>1. load.owed \in SUBSET Session /\ load.put \in SUBSET Session
    BY <1>10 DEF LoadArrives, TypeOK, LoadOK, NoLoad
  <2>2. QED
    BY <1>10, <2>1 DEF LoadArrives, TypeOK, PastOK
<1>11. CASE LoadMore
  BY <1>11 DEF LoadMore, past, PastOK, TypeOK
<1>12. CASE PageServed
  BY <1>12 DEF PageServed, past, PastOK, TypeOK
<1>13. CASE PageArrives
  BY <1>13 DEF PageArrives, PastOK, TypeOK
<1>14. CASE PageFails
  BY <1>14 DEF PageFails, past, PastOK, TypeOK
<1>15. CASE PutAwayDone
  BY <1>15 DEF PutAwayDone, PastOK, TypeOK, TabOK
<1>16. CASE UNCHANGED vars
  BY <1>16 DEF vars, past, PastOK, TypeOK
<1>17. QED
  BY <1>1, <1>2, <1>3, <1>4, <1>5, <1>6, <1>7, <1>8, <1>9, <1>10, <1>11, <1>12, <1>13, <1>14,
     <1>15, <1>16 DEF Next

\* One row changes; what is owed of it is not owed any more.
RowMoves(s) ==
  /\ \A t \in Session \ {s} : rows'[t] = rows[t]
  /\ owed' = owed \ {s}
  /\ load' = IF load = NoLoad THEN load ELSE [load EXCEPT !.owed = @ \ {s}]
  /\ UNCHANGED <<data, pager, skewed>>

LEMMA RegistryMoves ==
  ASSUME TypeOK, NEW s \in Session,
         Begins(s) \/ Updates(s) \/ ElseArchives(s) \/ Restores(s) \/ ElseDeletes(s) \/
            PutAway(s)
  PROVE  RowMoves(s)
  BY DEF TypeOK, RegistryOK, Begins, Updates, ElseArchives, Restores, ElseDeletes, PutAway,
     Stamp, Shelved, Deleted, Moves, RowMoves

LEMMA MovesKeep ==
  ASSUME IInv, NEW s \in Session, RowMoves(s)
  PROVE  Unmoved' /\ Loads' /\ Pages'
<1>1. Unmoved'
  BY DEF RowMoves, Standing, Listed, IInv, Unmoved, TypeOK, LoadOK, PastOK
<1>2. Loads'
  BY DEF RowMoves, Reached, KeyOf, IInv, Loads, TypeOK, LoadOK, PastOK, NoLoad
<1>3. Pages'
  BY DEF RowMoves, Reached, KeyOf, IInv, Pages, TypeOK, PastOK, pager
<1>4. QED
  BY <1>1, <1>2, <1>3

LEMMA UnmovedStep == IInv /\ [Next]_vars => Unmoved'
<1> SUFFICES ASSUME IInv, [Next]_vars PROVE Unmoved'
  OBVIOUS
<1>1. ASSUME NEW s \in Session, Begins(s) \/ Updates(s) \/ ElseArchives(s) \/ Restores(s) \/
   ElseDeletes(s) \/ PutAway(s)
      PROVE  Unmoved'
  BY <1>1, RegistryMoves, MovesKeep DEF IInv
<1>2. ASSUME NEW s \in Session, FrameArrives(s)
      PROVE  Unmoved'
  BY <1>2 DEF FrameArrives, relay, IInv, Unmoved, Standing, Listed
<1>3. CASE LoadReads
  BY <1>3 DEF LoadReads, Active, relay, past, IInv, Unmoved, Standing, Listed
<1>4. CASE LoadServed
  BY <1>4 DEF LoadServed, relay, past, IInv, Unmoved, Standing, Listed, NoLoad
<1>5. CASE LoadArrives
  BY <1>5 DEF LoadArrives, relay, IInv, Unmoved, Standing, Listed, NoLoad
<1>6. CASE LoadMore
  BY <1>6 DEF LoadMore, relay, past, IInv, Unmoved, Standing, Listed
<1>7. CASE PageServed
  BY <1>7 DEF PageServed, relay, past, IInv, Unmoved, Standing, Listed
<1>8. CASE PageArrives
  BY <1>8 DEF PageArrives, relay, IInv, Unmoved, Standing, Listed
<1>9. CASE PageFails
  BY <1>9 DEF PageFails, relay, past, IInv, Unmoved, Standing, Listed
<1>10. CASE PutAwayDone
  BY <1>10 DEF PutAwayDone, relay, IInv, Unmoved, Standing, Listed
<1>11. CASE UNCHANGED vars
  BY <1>11 DEF vars, relay, past, IInv, Unmoved, Standing, Listed
<1>12. QED
  BY <1>1, <1>2, <1>3, <1>4, <1>5, <1>6, <1>7, <1>8, <1>9, <1>10, <1>11 DEF Next

LEMMA LoadsStep == IInv /\ [Next]_vars => Loads'
<1> SUFFICES ASSUME IInv, [Next]_vars PROVE Loads'
  OBVIOUS
<1>1. ASSUME NEW s \in Session, Begins(s) \/ Updates(s) \/ ElseArchives(s) \/ Restores(s) \/
   ElseDeletes(s) \/ PutAway(s)
      PROVE  Loads'
  BY <1>1, RegistryMoves, MovesKeep DEF IInv
<1>2. ASSUME NEW s \in Session, FrameArrives(s)
      PROVE  Loads'
  BY <1>2 DEF FrameArrives, relay, IInv, Loads, Reached, KeyOf
<1>3. CASE LoadReads
  BY <1>3, PageLeavesNoGap, TopIsAbove DEF LoadReads, Active, relay, past, IInv, Loads,
     Reached, KeyOf, Listed
<1>4. CASE LoadServed
  BY <1>4 DEF LoadServed, Active, relay, past, IInv, Loads, Reached, KeyOf, TypeOK, LoadOK,
     NoLoad
<1>5. CASE LoadArrives
  BY <1>5 DEF LoadArrives, relay, IInv, Loads, Reached, KeyOf, NoLoad
<1>6. CASE LoadMore
  BY <1>6 DEF LoadMore, relay, past, IInv, Loads, Reached, KeyOf
<1>7. CASE PageServed
  BY <1>7 DEF PageServed, relay, past, IInv, Loads, Reached, KeyOf
<1>8. CASE PageArrives
  BY <1>8 DEF PageArrives, relay, IInv, Loads, Reached, KeyOf
<1>9. CASE PageFails
  BY <1>9 DEF PageFails, relay, past, IInv, Loads, Reached, KeyOf
<1>10. CASE PutAwayDone
  BY <1>10 DEF PutAwayDone, relay, IInv, Loads, Reached, KeyOf, NoLoad
<1>11. CASE UNCHANGED vars
  BY <1>11 DEF vars, relay, past, IInv, Loads, Reached, KeyOf
<1>12. QED
  BY <1>1, <1>2, <1>3, <1>4, <1>5, <1>6, <1>7, <1>8, <1>9, <1>10, <1>11 DEF Next

LEMMA PagesStep == IInv /\ [Next]_vars => Pages'
<1> SUFFICES ASSUME IInv, [Next]_vars PROVE Pages'
  OBVIOUS
<1>1. ASSUME NEW s \in Session, Begins(s) \/ Updates(s) \/ ElseArchives(s) \/ Restores(s) \/
   ElseDeletes(s) \/ PutAway(s)
      PROVE  Pages'
  BY <1>1, RegistryMoves, MovesKeep DEF IInv
<1>2. ASSUME NEW s \in Session, FrameArrives(s)
      PROVE  Pages'
  BY <1>2 DEF FrameArrives, relay, pager, IInv, Pages, Reached, KeyOf
<1>3. CASE LoadReads
  BY <1>3 DEF LoadReads, relay, pager, past, IInv, Pages, Reached, KeyOf
<1>4. CASE LoadServed
  BY <1>4 DEF LoadServed, relay, pager, past, IInv, Pages, Reached, KeyOf
<1>5. CASE LoadArrives
  BY <1>5 DEF LoadArrives, Reset, relay, IInv, Pages, Reached, KeyOf, NoPage, Loads
<1>6. CASE LoadMore
  BY <1>6 DEF LoadMore, relay, past, IInv, Pages, Reached, KeyOf
<1>7. CASE PageServed
  BY <1>7, PageLeavesNoGap, DrainedIsAKey DEF PageServed, relay, past, IInv, Pages, Reached,
     KeyOf, TypeOK, Unmoved, Standing, Behind, PastOK, TabOK
<1>8. CASE PageArrives
  BY <1>8 DEF PageArrives, relay, IInv, Pages, Reached, KeyOf, NoPage
<1>9. CASE PageFails
  BY <1>9 DEF PageFails, relay, past, IInv, Pages, Reached, KeyOf, NoPage
<1>10. CASE PutAwayDone
  BY <1>10 DEF PutAwayDone, relay, IInv, Pages, Reached, KeyOf, NoPage, Loads
<1>11. CASE UNCHANGED vars
  BY <1>11 DEF vars, relay, pager, past, IInv, Pages, Reached, KeyOf
<1>12. QED
  BY <1>1, <1>2, <1>3, <1>4, <1>5, <1>6, <1>7, <1>8, <1>9, <1>10, <1>11 DEF Next

LEMMA GoneStep == IInv /\ [Next]_vars => Gone'
<1> SUFFICES ASSUME IInv, [Next]_vars PROVE Gone'
  OBVIOUS
<1>1. ASSUME NEW s \in Session, Begins(s)
      PROVE  Gone'
  BY <1>1 DEF Begins, Stamp, Moves, pager, IInv, Gone, Away, TypeOK, RegistryOK, Row
<1>2. ASSUME NEW s \in Session, Updates(s)
      PROVE  Gone'
  <2>1. PICK is \in {"running", "ended"} : Stamp(s, is)
    BY <1>2 DEF Updates
  <2>2. /\ UNCHANGED <<live, data, extra, page, echoed, skewed>>
        /\ rows[s].is \in {"running", "ended"}
    BY <1>2 DEF Updates, pager, Exists
  <2>3. /\ rows'[s].is = is /\ rows'[s].archived = (rows[s].archived /\ is = "ended")
        /\ \A t \in Session \ {s} : rows'[t] = rows[t]
    BY <2>1 DEF Stamp, TypeOK, RegistryOK, IInv
  <2>4. /\ load = NoLoad => load' = NoLoad
        /\ load # NoLoad => load'.put = load.put /\ load'.rows = load.rows
    BY <2>1 DEF Stamp, Moves
  <2>5. CASE is = "running"
    <3>1. put' = put \ {s} /\ away' = away \ {s}
      BY <2>1, <2>5 DEF Stamp
    <3>2. QED
      BY <2>2, <2>3, <2>4, <2>5, <3>1 DEF IInv, Gone, Away, TypeOK, PastOK
  <2>6. CASE is = "ended"
    <3>1. put' = put /\ away' = away
      BY <2>1, <2>6 DEF Stamp
    <3>2. \A t \in Session : Away(t) => Away(t)'
      BY <2>2, <2>3, <2>6 DEF Away
    <3>3. QED
      BY <2>2, <2>3, <2>4, <2>6, <3>1, <3>2 DEF IInv, Gone, TypeOK, PastOK
  <2>7. QED
    BY <2>5, <2>6
<1>3. ASSUME NEW s \in Session, ElseArchives(s)
      PROVE  Gone'
  BY <1>3 DEF ElseArchives, Shelved, Moves, pager, IInv, Gone, Away
<1>4. ASSUME NEW s \in Session, Restores(s)
      PROVE  Gone'
  BY <1>4 DEF Restores, Shelved, Moves, pager, IInv, Gone, Away
<1>5. ASSUME NEW s \in Session, ElseDeletes(s)
      PROVE  Gone'
  BY <1>5 DEF ElseDeletes, Deleted, Moves, pager, IInv, Gone, Away
<1>6. ASSUME NEW s \in Session, PutAway(s)
      PROVE  Gone'
  BY <1>6 DEF PutAway, Shelved, Deleted, Moves, pager, IInv, Gone, Away, TypeOK, PastOK,
     LoadOK, RegistryOK, Row
<1>7. ASSUME NEW s \in Session, FrameArrives(s)
      PROVE  Gone'
  BY <1>7 DEF FrameArrives, relay, pager, IInv, Gone, Away
<1>8. CASE LoadReads
  BY <1>8, PageLeavesNoGap, DrainedIsAKey DEF LoadReads, relay, pager, past, IInv, Gone,
     Away, Listed
<1>9. CASE LoadServed
  BY <1>9 DEF LoadServed, Active, relay, pager, past, IInv, Gone, Away, NoLoad
<1>10. CASE LoadArrives
  BY <1>10 DEF LoadArrives, Reset, relay, IInv, Gone, Away, NoLoad, NoPage
<1>11. CASE LoadMore
  BY <1>11 DEF LoadMore, relay, past, IInv, Gone, Away
<1>12. CASE PageServed
  <2>1. page.from \in Key
    BY <1>12 DEF PageServed, IInv, TypeOK, PageOK, NoPage
  <2>2. page'.rows \subseteq {s \in Session : Listed(s)}
    BY <1>12, <2>1, PageLeavesNoGap DEF PageServed, IInv
  <2>3. away \cap page'.rows = {}
    BY <2>2 DEF IInv, Gone, Away, Listed
  <2>4. QED
    BY <1>12, <2>3 DEF PageServed, relay, past, IInv, Gone, Away
<1>13. CASE PageArrives
  BY <1>13 DEF PageArrives, relay, IInv, Gone, Away, NoPage
<1>14. CASE PageFails
  BY <1>14 DEF PageFails, relay, past, IInv, Gone, Away, NoPage
<1>15. CASE PutAwayDone
  BY <1>15 DEF PutAwayDone, Forgets, relay, IInv, Gone, Away, NoPage
<1>16. CASE UNCHANGED vars
  BY <1>16 DEF vars, relay, pager, past, IInv, Gone, Away
<1>17. QED
  BY <1>1, <1>2, <1>3, <1>4, <1>5, <1>6, <1>7, <1>8, <1>9, <1>10, <1>11, <1>12, <1>13, <1>14,
     <1>15, <1>16 DEF Next

LEMMA Invariant == Spec => []IInv
<1>1. IInv /\ [Next]_vars => IInv'
  BY RegistryStep, TabStep, LoadStep, PageStep, PastStep, UnmovedStep, LoadsStep, PagesStep,
     GoneStep DEF IInv, TypeOK
<1>2. QED
  BY InitIInv, <1>1, PTL DEF Spec

-----------------------------------------------------------------------------
\* Every variable stays in its domain.
THEOREM TypeCorrect == Spec => []TypeOK
<1>1. IInv => TypeOK
  BY DEF IInv
<1>2. QED
  BY Invariant, <1>1, PTL

\* For every set of sessions, every size of page and however many rows share a time: no
\* session is left out between a load and its pages (listPage, afterCursor, loadMore, reset).
THEOREM NothingLeftOut == Spec => []ListHasNoGap
<1>1. IInv => ListHasNoGap
  BY DEF IInv, Pages, Reached, ListHasNoGap, Shown
<1>2. QED
  BY Invariant, <1>1, PTL

\* What the tab archived or deleted stays off its board (archiveSession, forgetSession).
THEOREM StaysPutAway == Spec => []PutAwayStaysAway
<1>1. IInv => PutAwayStaysAway
  BY DEF IInv, Gone, PutAwayStaysAway, Shown
<1>2. QED
  BY Invariant, <1>1, PTL

-----------------------------------------------------------------------------
(* SessionTitle *)

\* Renames that do not run side by side run alone.
OneRenames == ~raced => \A t, b \in Busy : t = b

\* A rename the relay has saved is the row's name.
SavedIsTheRows ==
  ~raced => \A t \in Tab : patch[t].at \in {"saved", "told"} => patch[t].title = title

\* A tab without a socket, or that missed the last broadcast, has no frame on its way.
NothingForTheDeaf == \A t \in Tab : t \in unheard \/ t \notin up => inbox[t] = <<>>

\* What a tab will show: the last frame on its way, or its entry with what is being opened.
WillShow(t) == IF inbox[t] = <<>> THEN OverlayTitle(t) ELSE Last(inbox[t])

\* Once the last rename has been broadcast, a tab that heard it will show the row's name.
HeardIsShown ==
  ~raced /\ (\A t \in Tab : patch[t].at # "saved") =>
    \A t \in Tab \ unheard : WillShow(t) = title \/ (inbox[t] = <<>> /\ t \in undone)

TInv == TitleTypeOK /\ OneRenames /\ SavedIsTheRows /\ NothingForTheDeaf /\ HeardIsShown

\* The last frame of a queue that grew is the frame added.
LEMMA AppendsLast ==
  ASSUME NEW S, NEW q \in Seq(S), NEW e \in S
  PROVE  Append(q, e) \in Seq(S) /\ Append(q, e) # <<>> /\ Last(Append(q, e)) = e
<1>1. Append(q, e) \in Seq(S) /\ Append(q, e) # <<>>
  OBVIOUS
<1>2. Len(Append(q, e)) = Len(q) + 1 /\ Append(q, e)[Len(q) + 1] = e
  OBVIOUS
<1>3. QED
  BY <1>1, <1>2 DEF Last

\* Reading the head of a queue leaves its last frame, unless it was the only one.
LEMMA ReadsHead ==
  ASSUME NEW S, NEW q \in Seq(S), q # <<>>
  PROVE  /\ Head(q) \in S /\ Tail(q) \in Seq(S)
         /\ Tail(q) # <<>> => Last(Tail(q)) = Last(q)
         /\ Tail(q) = <<>> => Last(q) = Head(q)
<1>1. /\ Head(q) \in S /\ Tail(q) \in Seq(S) /\ Len(Tail(q)) = Len(q) - 1
      /\ \A i \in 1 .. Len(Tail(q)) : Tail(q)[i] = q[i + 1]
  BY HeadTailProperties
<1>2. Len(q) \in Nat \ {0} /\ Head(q) = q[1]
  BY EmptySeq, LenProperties
<1>3. ASSUME Tail(q) # <<>> PROVE Last(Tail(q)) = Last(q)
  <2>1. Len(Tail(q)) \in Nat \ {0}
    BY <1>1, <1>3, EmptySeq
  <2>2. QED
    BY <1>1, <1>2, <2>1 DEF Last
<1>4. ASSUME Tail(q) = <<>> PROVE Last(q) = Head(q)
  <2>1. Len(Tail(q)) = 0
    BY <1>4, EmptySeq, Zenon
  <2>2. Len(Tail(q)) = Len(q) - 1
    BY HeadTailProperties
  <2>3. Len(q) = 1
    BY <1>2, <2>1, <2>2
  <2>4. QED
    BY <1>2, <2>3 DEF Last
<1>5. QED
  BY <1>1, <1>3, <1>4

LEMMA InitTInv == TitleInit => TInv
<1> SUFFICES ASSUME TitleInit PROVE TInv
  OBVIOUS
<1>1. <<>> \in Seq(Override)
  BY EmptySeq
<1>2. TitleTypeOK
  BY <1>1 DEF TitleInit, TitleTypeOK, NoPatch, Override
<1>3. QED
  BY <1>2 DEF TitleInit, TInv, NoPatch, OneRenames, Busy, SavedIsTheRows, NothingForTheDeaf,
     HeardIsShown, WillShow, OverlayTitle

\* How far a PATCH is, moved on.
LEMMA MovedOn ==
  ASSUME NEW r \in [title : Override, at : {"none", "asked", "saved", "told"}], NEW far
  PROVE  [r EXCEPT !.at = far] = [title |-> r.title, at |-> far]
  OBVIOUS

\* A step of a tab's PATCH: one leaf a part of the invariant.
LEMMA PatchStep ==
  ASSUME TInv, NEW t \in Tab
  PROVE  /\ \A name \in Override : Rename(t, name) => TInv'
         /\ SaveTitle(t) \/ Tell(t) \/ Answered(t) \/ Refused(t) => TInv'
<1> USE DEF TInv
<1>0. /\ title \in Override /\ patch \in [Tab -> [title : Override, at : {"none", "asked", "saved", "told"}]]
      /\ inbox \in [Tab -> Seq(Override)] /\ shows \in [Tab -> Override] /\ up \subseteq Tab
      /\ renames \in Nat /\ raced \in BOOLEAN /\ patch[t].title \in Override
  BY DEF TitleTypeOK
<1>1. ASSUME NEW name \in Override, Rename(t, name) PROVE TInv'
  <2>1. /\ patch' = [patch EXCEPT ![t] = [title |-> name, at |-> "asked"]]
        /\ raced' = (raced \/ Busy # {}) /\ patch[t].at = "none"
        /\ UNCHANGED <<title, mapVars, unheard, undone, visits>> /\ renames' = renames + 1
    BY <1>1 DEF Rename, Busy
  <2>2. TitleTypeOK'
    BY <1>0, <2>1 DEF TitleTypeOK, mapVars
  <2>3. OneRenames'
    BY <1>0, <2>1 DEF OneRenames, Busy
  <2>4. SavedIsTheRows'
    BY <1>0, <2>1 DEF SavedIsTheRows
  <2>5. NothingForTheDeaf'
    BY <2>1 DEF NothingForTheDeaf, mapVars
  <2>6. (\A b \in Tab : patch'[b].at # "saved") => \A b \in Tab : patch[b].at # "saved"
    BY <1>0, <2>1
  <2>7. HeardIsShown'
    BY <2>1, <2>6 DEF HeardIsShown, WillShow, OverlayTitle, mapVars
  <2>8. QED
    BY <2>2, <2>3, <2>4, <2>5, <2>7
<1>2. ASSUME SaveTitle(t) PROVE TInv'
  <2>1. /\ patch' = [patch EXCEPT ![t].at = "saved"] /\ patch[t].at = "asked"
        /\ title' = patch[t].title /\ raced' = (raced /\ Busy # {t})
        /\ UNCHANGED <<mapVars, unheard, undone, renames, visits>>
    BY <1>2 DEF SaveTitle
  <2>2. patch' = [patch EXCEPT ![t] = [title |-> patch[t].title, at |-> "saved"]]
    <3>1. [patch[t] EXCEPT !.at = "saved"] = [title |-> patch[t].title, at |-> "saved"]
      BY <1>0, MovedOn
    <3>2. QED
      BY <1>0, <2>1, <3>1
  <2>3. TitleTypeOK'
    <3>1. patch' \in [Tab -> [title : Override, at : {"none", "asked", "saved", "told"}]]
      BY <1>0, <2>2
    <3>2. raced' \in BOOLEAN /\ title' \in Override
      BY <1>0, <2>1
    <3>3. QED
      BY <2>1, <3>1, <3>2 DEF TitleTypeOK, mapVars
  <2>4. OneRenames' /\ (~raced' => Busy' = {t}) /\ patch'[t].at = "saved"
    BY <1>0, <2>1, <2>2 DEF OneRenames, Busy
  <2>5. SavedIsTheRows'
    BY <1>0, <2>1, <2>2, <2>4 DEF SavedIsTheRows, Busy
  <2>6. NothingForTheDeaf'
    BY <2>1 DEF NothingForTheDeaf, mapVars
  <2>7. HeardIsShown'
    BY <2>4 DEF HeardIsShown
  <2>8. QED
    BY <2>3, <2>4, <2>5, <2>6, <2>7
<1>3. ASSUME Tell(t) PROVE TInv'
  <2>1. /\ patch' = [patch EXCEPT ![t].at = "told"] /\ patch[t].at = "saved"
        /\ inbox' = [b \in Tab |-> IF b \in up THEN Append(inbox[b], patch[t].title) ELSE inbox[b]]
        /\ unheard' = Tab \ up
        /\ UNCHANGED <<title, up, shows, opening, raced, undone, renames, visits>>
    BY <1>3 DEF Tell
  <2>2. patch' = [patch EXCEPT ![t] = [title |-> patch[t].title, at |-> "told"]]
    <3>1. [patch[t] EXCEPT !.at = "told"] = [title |-> patch[t].title, at |-> "told"]
      BY <1>0, MovedOn
    <3>2. QED
      BY <1>0, <2>1, <3>1
  <2>3. \A b \in up : /\ inbox'[b] \in Seq(Override) /\ inbox'[b] # <<>>
                     /\ Last(inbox'[b]) = patch[t].title
    BY <1>0, <2>1, AppendsLast
  <2>4. \A b \in Tab \ up : inbox'[b] = inbox[b]
    BY <2>1
  <2>5. TitleTypeOK'
    <3>1. inbox' \in [Tab -> Seq(Override)]
      BY <1>0, <2>1, <2>3, <2>4
    <3>2. patch' \in [Tab -> [title : Override, at : {"none", "asked", "saved", "told"}]]
      BY <1>0, <2>2
    <3>3. QED
      BY <2>1, <3>1, <3>2 DEF TitleTypeOK
  <2>6. OneRenames'
    BY <1>0, <2>1, <2>2 DEF OneRenames, Busy
  <2>7. SavedIsTheRows'
    BY <1>0, <2>1, <2>2 DEF SavedIsTheRows
  <2>8. NothingForTheDeaf'
    BY <2>1, <2>4 DEF NothingForTheDeaf
  <2>9. HeardIsShown'
    BY <2>1, <2>3 DEF HeardIsShown, WillShow, SavedIsTheRows
  <2>10. QED
    BY <2>5, <2>6, <2>7, <2>8, <2>9
<1>4. ASSUME Answered(t) PROVE TInv'
  <2>1. /\ patch' = [patch EXCEPT ![t] = NoPatch] /\ patch[t].at = "told"
        /\ shows' = shows \/ shows' = [shows EXCEPT ![t] = patch[t].title]
        /\ UNCHANGED <<title, up, inbox, opening, titlePast, renames, visits>>
    BY <1>4 DEF Answered, ShowIfSaved
  <2>2. TitleTypeOK'
    BY <1>0, <2>1 DEF TitleTypeOK, NoPatch, Override, titlePast
  <2>3. OneRenames' /\ SavedIsTheRows' /\ NothingForTheDeaf'
    BY <1>0, <2>1 DEF OneRenames, Busy, SavedIsTheRows, NothingForTheDeaf, NoPatch, titlePast
  <2>4. HeardIsShown'
    <3> SUFFICES ASSUME ~raced, \A b \in Tab : patch'[b].at # "saved", NEW b \in Tab \ unheard
                 PROVE  WillShow(b)' = title \/ (inbox[b] = <<>> /\ b \in undone)
      BY <2>1 DEF HeardIsShown, titlePast
    <3>1. \A c \in Tab : patch[c].at # "saved"
      BY <1>0, <2>1
    <3>2. WillShow(b) = title \/ (inbox[b] = <<>> /\ b \in undone)
      BY <3>1 DEF HeardIsShown
    <3>3. patch[t].title = title
      BY <2>1 DEF SavedIsTheRows
    <3>4. shows'[b] = shows[b] \/ shows'[b] = title
      BY <1>0, <2>1, <3>3
    <3>5. QED
      BY <2>1, <3>2, <3>4 DEF WillShow, OverlayTitle
  <2>5. QED
    BY <2>2, <2>3, <2>4
<1>5. ASSUME Refused(t) PROVE TInv'
  <2>1. /\ patch' = [patch EXCEPT ![t] = NoPatch] /\ patch[t].at = "asked"
        /\ UNCHANGED <<title, up, inbox, shows, opening, titlePast, renames, visits>>
    BY <1>5 DEF Refused, ShowIfSaved
  <2>2. TitleTypeOK'
    BY <1>0, <2>1 DEF TitleTypeOK, NoPatch, Override, titlePast
  <2>3. OneRenames' /\ SavedIsTheRows' /\ NothingForTheDeaf'
    BY <1>0, <2>1 DEF OneRenames, Busy, SavedIsTheRows, NothingForTheDeaf, NoPatch, titlePast
  <2>4. (\A b \in Tab : patch'[b].at # "saved") => \A b \in Tab : patch[b].at # "saved"
    BY <1>0, <2>1
  <2>5. HeardIsShown'
    BY <2>1, <2>4 DEF HeardIsShown, WillShow, OverlayTitle, titlePast
  <2>6. QED
    BY <2>2, <2>3, <2>5
<1>6. QED
  BY <1>1, <1>2, <1>3, <1>4, <1>5

LEMMA EntryStep ==
  ASSUME TInv, NEW t \in Tab
  PROVE  TakeTitle(t) \/ SeedTitle(t) \/ LoadTitles(t) \/ Drop(t) \/ Connect(t) => TInv'
<1> USE DEF TInv
<1>0. /\ title \in Override /\ inbox \in [Tab -> Seq(Override)] /\ up \subseteq Tab
      /\ shows \in [Tab -> Override] /\ opening \in [Tab -> Override]
      /\ unheard \subseteq Tab /\ undone \subseteq Tab /\ visits \in Nat
  BY DEF TitleTypeOK
<1>1. ASSUME UNCHANGED <<raced, patch, title>>
      PROVE  OneRenames' /\ SavedIsTheRows'
  BY <1>1 DEF OneRenames, SavedIsTheRows, Busy
<1>2. ASSUME TakeTitle(t) PROVE TInv'
  <2>1. /\ inbox[t] # <<>> /\ inbox' = [inbox EXCEPT ![t] = Tail(inbox[t])]
        /\ shows' = [shows EXCEPT ![t] = Head(inbox[t])]
        /\ undone' = (IF shows'[t] = Default /\ opening[t] # Default
                        THEN undone \cup {t} ELSE undone \ {t})
        /\ UNCHANGED <<title, patch, up, opening, raced, unheard, renames, visits>>
    BY <1>2 DEF TakeTitle
  <2>2. /\ Head(inbox[t]) \in Override /\ Tail(inbox[t]) \in Seq(Override)
        /\ Tail(inbox[t]) # <<>> => Last(Tail(inbox[t])) = Last(inbox[t])
        /\ Tail(inbox[t]) = <<>> => Last(inbox[t]) = Head(inbox[t])
    BY <1>0, <2>1, ReadsHead
  <2>3. /\ shows'[t] = Head(inbox[t]) /\ inbox'[t] = Tail(inbox[t])
        /\ \A b \in Tab : b # t => /\ shows'[b] = shows[b] /\ inbox'[b] = inbox[b]
                                 /\ b \in undone' <=> b \in undone
    BY <1>0, <2>1
  <2>4. TitleTypeOK'
    <3>1. inbox' \in [Tab -> Seq(Override)] /\ shows' \in [Tab -> Override]
      BY <1>0, <2>1, <2>2
    <3>2. undone' \subseteq Tab
      BY <1>0, <2>1
    <3>3. QED
      BY <2>1, <3>1, <3>2 DEF TitleTypeOK
  <2>5. NothingForTheDeaf'
    BY <2>1, <2>3 DEF NothingForTheDeaf
  <2>6. HeardIsShown'
    <3> SUFFICES ASSUME ~raced, \A b \in Tab : patch[b].at # "saved", NEW b \in Tab \ unheard
                 PROVE  WillShow(b)' = title \/ (inbox'[b] = <<>> /\ b \in undone')
      BY <2>1 DEF HeardIsShown
    <3>1. WillShow(b) = title \/ (inbox[b] = <<>> /\ b \in undone)
      BY DEF HeardIsShown
    <3>2. CASE b # t
      BY <2>1, <2>3, <3>1, <3>2 DEF WillShow, OverlayTitle
    <3>3. CASE b = t /\ Tail(inbox[t]) # <<>>
      BY <2>1, <2>2, <2>3, <3>1, <3>3 DEF WillShow
    <3>4. CASE b = t /\ Tail(inbox[t]) = <<>>
      <4>1. shows'[t] = title /\ inbox'[t] = <<>>
        BY <2>1, <2>2, <2>3, <3>1, <3>4 DEF WillShow
      <4>2. QED
        BY <2>1, <3>4, <4>1 DEF WillShow, OverlayTitle
    <3>5. QED
      BY <3>2, <3>3, <3>4
  <2>7. QED
    BY <1>1, <2>1, <2>4, <2>5, <2>6
<1>3. ASSUME SeedTitle(t) PROVE TInv'
  <2>1. /\ opening[t] # Default
        /\ shows' = [shows EXCEPT ![t] = OverlayTitle(t)]
        /\ opening' = [opening EXCEPT ![t] = Default]
        /\ UNCHANGED <<title, patch, up, inbox, titlePast, renames, visits>>
    BY <1>3 DEF SeedTitle
  <2>2. OverlayTitle(t) \in Override
    BY <1>0 DEF OverlayTitle
  <2>3. TitleTypeOK'
    BY <1>0, <2>1, <2>2 DEF TitleTypeOK, Override, titlePast
  <2>4. NothingForTheDeaf'
    BY <2>1 DEF NothingForTheDeaf, titlePast
  <2>5. \A b \in Tab : OverlayTitle(b)' = OverlayTitle(b)
    BY <1>0, <2>1 DEF OverlayTitle
  <2>6. HeardIsShown'
    BY <2>1, <2>5 DEF HeardIsShown, WillShow, titlePast
  <2>7. QED
    BY <1>1, <2>1, <2>3, <2>4, <2>6 DEF titlePast
<1>4. ASSUME LoadTitles(t) PROVE TInv'
  <2>0. PICK brings \in IF shows[t] = Default THEN {title} ELSE {shows[t], Default} :
          opening' = [opening EXCEPT ![t] = brings]
    BY <1>4 DEF LoadTitles
  <2>1. /\ opening[t] = Default /\ opening' = [opening EXCEPT ![t] = brings]
        /\ brings \in Override /\ (shows[t] = Default => brings = title)
        /\ visits' = visits + 1
        /\ unheard' = (IF shows[t] = Default THEN unheard \ {t} ELSE unheard)
        /\ UNCHANGED <<title, patch, up, inbox, shows, raced, undone, renames>>
    BY <1>0, <1>4, <2>0 DEF LoadTitles, Override
  <2>2. TitleTypeOK'
    BY <1>0, <2>1 DEF TitleTypeOK
  <2>3. NothingForTheDeaf'
    BY <1>0, <2>1 DEF NothingForTheDeaf
  <2>4. HeardIsShown'
    <3> SUFFICES ASSUME ~raced, \A b \in Tab : patch[b].at # "saved", NEW b \in Tab \ unheard'
                 PROVE  WillShow(b)' = title \/ (inbox[b] = <<>> /\ b \in undone)
      BY <2>1 DEF HeardIsShown
    <3>1. CASE b # t
      BY <1>0, <2>1, <3>1 DEF HeardIsShown, WillShow, OverlayTitle
    <3>2. CASE b = t /\ shows[t] = Default /\ inbox[t] = <<>>
      BY <1>0, <2>1, <3>2 DEF WillShow, OverlayTitle
    <3>3. CASE b = t /\ ~(shows[t] = Default /\ inbox[t] = <<>>)
      <4>1. t \notin unheard
        BY <2>1, <3>3 DEF NothingForTheDeaf
      <4>2. QED
        BY <1>0, <2>1, <3>3, <4>1 DEF HeardIsShown, WillShow, OverlayTitle
    <3>4. QED
      BY <3>1, <3>2, <3>3
  <2>5. QED
    BY <1>1, <2>1, <2>2, <2>3, <2>4
<1>5. ASSUME Drop(t) PROVE TInv'
  <2>1. /\ up' = up \ {t} /\ inbox' = [inbox EXCEPT ![t] = <<>>] /\ visits' = visits + 1
        /\ unheard' = (IF inbox[t] = <<>> THEN unheard ELSE unheard \cup {t})
        /\ UNCHANGED <<title, patch, shows, opening, raced, undone, renames>>
    BY <1>5 DEF Drop
  <2>2. TitleTypeOK'
    BY <1>0, <2>1, EmptySeq DEF TitleTypeOK
  <2>3. NothingForTheDeaf'
    BY <1>0, <2>1 DEF NothingForTheDeaf
  <2>4. \A b \in Tab \ unheard' : b \notin unheard /\ inbox'[b] = inbox[b]
    BY <1>0, <2>1
  <2>5. HeardIsShown'
    BY <2>1, <2>4 DEF HeardIsShown, WillShow, OverlayTitle
  <2>6. QED
    BY <1>1, <2>1, <2>2, <2>3, <2>5
<1>6. ASSUME Connect(t) PROVE TInv'
  <2>1. /\ up' = up \cup {t}
        /\ UNCHANGED <<title, patch, inbox, shows, opening, titlePast, renames, visits>>
    BY <1>6 DEF Connect
  <2>2. TitleTypeOK'
    BY <1>0, <2>1 DEF TitleTypeOK, titlePast
  <2>3. NothingForTheDeaf' /\ HeardIsShown'
    BY <2>1 DEF NothingForTheDeaf, HeardIsShown, WillShow, OverlayTitle, titlePast
  <2>4. QED
    BY <1>1, <2>1, <2>2, <2>3 DEF titlePast
<1>7. QED
  BY <1>2, <1>3, <1>4, <1>5, <1>6

LEMMA TInvStep == TInv /\ [TitleNext]_titleVars => TInv'
<1>1. TInv /\ TitleNext => TInv'
  BY PatchStep, EntryStep DEF TitleNext
<1>2. TInv /\ UNCHANGED titleVars => TInv'
  BY DEF titleVars, mapVars, titlePast, TInv, TitleTypeOK, OneRenames, Busy, SavedIsTheRows,
     NothingForTheDeaf, HeardIsShown, WillShow, OverlayTitle
<1>3. QED
  BY <1>1, <1>2

\* Type correctness of the rename, the broadcast and the seeding of names.
THEOREM TitleTypeCorrect == TitleSpec => []TitleTypeOK
<1>1. TInv => TitleTypeOK
  BY DEF TInv
<1>2. QED
  BY <1>1, InitTInv, TInvStep, PTL DEF TitleSpec

\* Once nothing is under way a tab shows the row's name, but for the excuses the code has,
\* whichever tab gave it and whatever page loads raced with it (session-title.ts,
\* applyTitleFrame and overlayMissingTitles; session-routes.ts, the rename's broadcast).
THEOREM NameIsShown == TitleSpec => []TabShowsTheName
<1>1. TInv => TabShowsTheName
  BY DEF TInv, TitleTypeOK, TabShowsTheName, HeardIsShown, WillShow, OverlayTitle, Busy
<1>2. QED
  BY <1>1, InitTInv, TInvStep, PTL DEF TitleSpec

-----------------------------------------------------------------------------
(* SessionMeta *)

AtMostOne(S) == \A x, y \in S : x = y

\* A read that is current found the branch the terminal has.
ReadsAreHonest == \A i \in DOMAIN reads : reads[i].current => reads[i].found = head

\* The session's file has the branch the daemon has.
BranchIsFiled == disk.meta.branch = meta.branch

\* A daemon without a socket has sent nothing on one; a title waits for the next one.
Unlinked == (~linked => frames.new = <<>>) /\ (backfill => ~linked)

\* The frame whose metadata is in the row, not yet broadcast, is the first of its socket.
Storing ==
  /\ \A s \in stored : frames[s] # <<>> /\ (row = {Head(frames[s])} \/ crossed)
  /\ "new" \in stored /\ frames.old # <<>> => crossed

\* The last word of the daemon is the last frame on its way, or the row.
LastSaid ==
  ~unsent /\ ~backfill =>
    /\ frames.new # <<>> => Last(frames.new) = meta
    /\ frames.new = <<>> /\ frames.old # <<>> => Last(frames.old) = meta \/ crossed
    /\ frames.new = <<>> /\ frames.old = <<>> => row = {meta} \/ crossed

\* Between a broadcast and the next row, the cache and the tab have what the row has.
CacheIsTheRow == stored = {} => cache = row \/ crossed

TabHasTheRow ==
  stored = {} =>
    /\ tab.has # {} => EntryIsTheRow
    /\ tab.has = {} /\ tab.opening # {} => tab.opening = row \/ missed \/ crossed

BranchInv == ReadsAreHonest /\ BranchIsFiled /\ BranchIsTheTerminals

WireInv == Unlinked /\ Storing /\ LastSaid

CopyInv ==
  /\ AtMostOne(row) /\ AtMostOne(cache) /\ AtMostOne(tab.has) /\ AtMostOne(tab.opening)
  /\ CacheIsTheRow /\ TabHasTheRow

MInv == MetaTypeOK /\ BranchInv /\ WireInv /\ CopyInv

-----------------------------------------------------------------------------
(* The operators of SessionMeta *)

LEMMA MetaKinds ==
  ASSUME NEW m \in Meta, NEW b \in Branch \cup {Unknown}, NEW p
  PROVE  /\ [m EXCEPT !.branch = b] \in Meta /\ [m EXCEPT !.branch = b].branch = b
         /\ [m EXCEPT !.branch = b].title = m.title
         /\ (m.branch = b => [m EXCEPT !.branch = b] = m)
         /\ Refined(m, p) \in Meta /\ Refined(m, p).branch = m.branch
         /\ m.branch \in Branch \cup {Unknown} /\ m.title \in Name
  BY DEF Meta, Refined, Name

LEMMA QueueGrows ==
  ASSUME NEW q \in Seq(Meta), NEW m \in Meta
  PROVE  /\ Append(q, m) \in Seq(Meta) /\ Append(q, m) # <<>> /\ Last(Append(q, m)) = m
         /\ q # <<>> => Head(Append(q, m)) = Head(q)
<1>1. Append(q, m) \in Seq(Meta) /\ Append(q, m) # <<>> /\ Last(Append(q, m)) = m
  BY AppendsLast
<1>2. ASSUME q # <<>> PROVE Head(Append(q, m)) = Head(q)
  <2>1. Len(q) \in Nat \ {0} /\ Append(q, m)[1] = q[1]
    BY <1>2, EmptySeq, LenProperties, AppendProperties
  <2>2. Head(Append(q, m)) = Append(q, m)[1] /\ Head(q) = q[1]
    BY <1>1, <1>2
  <2>3. QED
    BY <2>1, <2>2
<1>3. QED
  BY <1>1, <1>2

\* sendForSession: the frame is the last of a socket that lives, and lost without one.
Sent(m) ==
  /\ frames' \in [Socket -> Seq(Meta)] /\ unsent' = ~linked
  /\ linked => /\ frames'.old = frames.old /\ frames'.new # <<>> /\ Last(frames'.new) = m
               /\ frames.new # <<>> => Head(frames'.new) = Head(frames.new)
  /\ ~linked => frames' = frames

LEMMA Sending ==
  ASSUME MetaTypeOK, NEW m \in Meta, Send(m)
  PROVE  Sent(m)
<1>1. /\ frames \in [Socket -> Seq(Meta)] /\ frames.new \in Seq(Meta) /\ unsent' = ~linked
      /\ frames' = IF linked THEN [frames EXCEPT !.new = Append(frames.new, m)] ELSE frames
  BY DEF MetaTypeOK, Send, Socket
<1>2. /\ Append(frames.new, m) \in Seq(Meta) /\ Append(frames.new, m) # <<>>
      /\ Last(Append(frames.new, m)) = m
      /\ frames.new # <<>> => Head(Append(frames.new, m)) = Head(frames.new)
  BY <1>1, QueueGrows
<1>3. ASSUME linked
      PROVE  /\ frames' \in [Socket -> Seq(Meta)]
             /\ frames'.old = frames.old /\ frames'.new = Append(frames.new, m)
  BY <1>1, <1>2, <1>3 DEF Socket
<1>4. QED
  BY <1>1, <1>2, <1>3 DEF Sent

\* A socket dies with some of its frames at the relay.
LEMMA Dying ==
  ASSUME MetaTypeOK, Storing, NEW n \in 0 .. Len(frames.new), DiesAfter(n)
  PROVE  /\ frames' \in [Socket -> Seq(Meta)] /\ frames.old = <<>> /\ frames'.new = <<>>
         /\ n < Len(frames.new) \/ frames'.old = frames.new
         /\ "old" \notin stored /\ (stored = {} <=> stored' = {})
         /\ stored' \subseteq {"old"} /\ linked' = FALSE
         /\ stored' # {} =>
              /\ "new" \in stored /\ frames'.old # <<>> /\ Head(frames'.old) = Head(frames.new)
<1>1. /\ frames.new \in Seq(Meta) /\ frames.old = <<>> /\ Len(frames.new) \in Nat
      /\ frames' = [old |-> SubSeq(frames.new, 1, n), new |-> <<>>]
      /\ "new" \in stored => n > 0
      /\ stored' = (IF "new" \in stored THEN {"old"} ELSE {})
      /\ stored \subseteq {"old", "new"}
  BY LenProperties DEF MetaTypeOK, DiesAfter, Socket
<1>2. SubSeq(frames.new, 1, n) \in Seq(Meta) /\ Len(SubSeq(frames.new, 1, n)) = n
  <2>1. \A i \in 1 .. n : frames.new[i] \in Meta
    BY <1>1, LenProperties
  <2>2. n \in Int
    OBVIOUS
  <2>3. QED
    BY <1>1, <2>1, <2>2, SubSeqProperties
<1>3. frames' \in [Socket -> Seq(Meta)] /\ frames'.new = <<>>
  <2>1. <<>> \in Seq(Meta)
    BY EmptySeq
  <2>2. ASSUME NEW x \in Seq(Meta), NEW y \in Seq(Meta)
        PROVE  [old |-> x, new |-> y] \in [Socket -> Seq(Meta)]
    BY DEF Socket
  <2>3. [old |-> SubSeq(frames.new, 1, n), new |-> <<>>] \in [Socket -> Seq(Meta)]
    BY <1>2, <2>1, <2>2
  <2>4. QED
    BY <1>1, <2>3
<1>4. ASSUME n = Len(frames.new) PROVE frames'.old = frames.new
  <2>1. SubSeq(frames.new, 1, Len(frames.new)) = frames.new
    BY <1>1, SubSeqProperties
  <2>2. QED
    BY <1>1, <1>4, <2>1
<1>5. "old" \notin stored
  BY <1>1 DEF Storing
<1>6. ASSUME n > 0 PROVE frames'.old # <<>> /\ Head(frames'.old) = Head(frames.new)
  <2>1. SubSeq(frames.new, 1, n) # <<>> /\ frames.new # <<>>
    BY <1>1, <1>2, <1>6, EmptySeq
  <2>2. SubSeq(frames.new, 1, n)[1] = frames.new[1]
    BY <1>1, <1>6, SubSeqProperties
  <2>3. Head(SubSeq(frames.new, 1, n)) = Head(frames.new)
    BY <1>1, <1>2, <2>1, <2>2
  <2>4. QED
    BY <1>1, <2>1, <2>3
<1>7. n < Len(frames.new) \/ frames'.old = frames.new
  BY <1>1, <1>4
<1>8. /\ stored = {} <=> stored' = {}
      /\ stored' \subseteq {"old"} /\ linked' = FALSE
      /\ stored' # {} => "new" \in stored /\ n > 0
  BY <1>1, <1>5 DEF DiesAfter
<1>9. QED
  BY <1>1, <1>3, <1>5, <1>6, <1>7, <1>8

\* A frame reaches the tab: its labels are the tab's, but for a branch that was cleared.
Taken(m) ==
  /\ tab' \in [up : BOOLEAN, has : SUBSET Meta, opening : SUBSET Meta]
  /\ missed' \in BOOLEAN /\ cleared' \in BOOLEAN /\ AtMostOne(tab'.has)
  /\ tab'.opening = tab.opening /\ tab'.up = tab.up
  /\ tab.up => /\ tab'.has # {}
               /\ tab'.has = {m} \/ (cleared' /\ {e.title : e \in tab'.has} = {m.title})
  /\ ~tab.up => missed' = TRUE /\ tab' = tab

LEMMA Taking ==
  ASSUME MetaTypeOK, AtMostOne(tab.has), NEW m \in Meta, Take(m)
  PROVE  Taken(m)
<1>1. /\ tab \in [up : BOOLEAN, has : SUBSET Meta, opening : SUBSET Meta]
      /\ missed \in BOOLEAN /\ cleared \in BOOLEAN
  BY DEF MetaTypeOK
<1>2. CASE ~tab.up
  BY <1>1, <1>2 DEF Take, Taken
<1>3. CASE tab.up
  <2>1. /\ tab' = [tab EXCEPT !.has = Merged(m)] /\ cleared' = (m \notin Merged(m))
        /\ missed' = FALSE
    BY <1>3 DEF Take
  <2>2. \/ Merged(m) = {m}
        \/ \E e \in tab.has : Merged(m) = {[m EXCEPT !.branch = e.branch]}
    <3>1. CASE m.branch # Unknown \/ tab.has = {}
      BY <3>1 DEF Merged
    <3>2. CASE m.branch = Unknown /\ tab.has # {}
      <4>1. PICK e \in tab.has : tab.has = {e}
        BY <3>2 DEF AtMostOne
      <4>2. QED
        BY <3>2, <4>1 DEF Merged
    <3>3. QED
      BY <3>1, <3>2
  <2> DEFINE Fits ==
        /\ Merged(m) \subseteq Meta /\ AtMostOne(Merged(m)) /\ Merged(m) # {}
        /\ Merged(m) = {m} \/ (m \notin Merged(m) /\ {e.title : e \in Merged(m)} = {m.title})
  <2>3. Fits
    <3>1. CASE Merged(m) = {m}
      BY <3>1 DEF AtMostOne
    <3>2. ASSUME NEW e \in tab.has, Merged(m) = {[m EXCEPT !.branch = e.branch]}
          PROVE  Fits
      <4>1. e.branch \in Branch \cup {Unknown}
        BY <1>1, <3>2 DEF Meta
      <4>2. /\ [m EXCEPT !.branch = e.branch] \in Meta
            /\ [m EXCEPT !.branch = e.branch].title = m.title
        BY <4>1, MetaKinds
      <4>3. PICK k \in Meta : Merged(m) = {k} /\ k.title = m.title
        BY <3>2, <4>2
      <4>4. CASE k = m
        BY <3>1, <4>3, <4>4
      <4>5. CASE k # m
        <5>1. /\ Merged(m) \subseteq Meta /\ Merged(m) # {} /\ m \notin Merged(m)
              /\ AtMostOne(Merged(m))
          BY <4>3, <4>5 DEF AtMostOne
        <5>2. {x.title : x \in Merged(m)} = {m.title}
          BY <4>3
        <5>3. QED
          BY <5>1, <5>2
      <4>6. QED
        BY <4>4, <4>5
    <3>3. QED
      BY <2>2, <3>1, <3>2
  <2>4. /\ tab'.has = Merged(m) /\ tab'.opening = tab.opening /\ tab'.up = tab.up
        /\ tab' \in [up : BOOLEAN, has : SUBSET Meta, opening : SUBSET Meta]
    BY <1>1, <2>1, <2>3
  <2>5. missed' \in BOOLEAN /\ cleared' \in BOOLEAN
    BY <2>1
  <2>6. QED
    BY <1>3, <2>1, <2>3, <2>4, <2>5 DEF Taken
<1>4. QED
  BY <1>2, <1>3

-----------------------------------------------------------------------------
(* The metadata: the steps *)

\* The variables and their kinds, one by one.
LEMMA Kinds ==
  ASSUME MetaTypeOK
  PROVE  /\ head \in Branch \cup {Unknown} /\ meta \in Meta /\ prompted \in BOOLEAN
         /\ reads \in Seq([found : Branch \cup {Unknown}, current : BOOLEAN])
         /\ disk \in [meta : Meta, prompted : BOOLEAN] /\ disk.meta \in Meta
         /\ disk.prompted \in BOOLEAN /\ backfill \in BOOLEAN /\ linked \in BOOLEAN
         /\ frames \in [Socket -> Seq(Meta)]
         /\ frames.new \in Seq(Meta) /\ frames.old \in Seq(Meta)
         /\ stored \subseteq Socket /\ row \subseteq Meta /\ cache \subseteq Meta
         /\ tab \in [up : BOOLEAN, has : SUBSET Meta, opening : SUBSET Meta]
         /\ seen \in BOOLEAN /\ misled \in BOOLEAN /\ unsent \in BOOLEAN
         /\ crossed \in BOOLEAN /\ missed \in BOOLEAN /\ cleared \in BOOLEAN
         /\ events \in Nat
<1>1. /\ {seen, misled, unsent, crossed, missed, cleared} \subseteq BOOLEAN
      /\ disk \in [meta : Meta, prompted : BOOLEAN] /\ frames \in [Socket -> Seq(Meta)]
  BY DEF MetaTypeOK
<1>2. /\ disk.meta \in Meta /\ disk.prompted \in BOOLEAN
      /\ frames.new \in Seq(Meta) /\ frames.old \in Seq(Meta)
  BY <1>1 DEF Socket
<1>3. /\ seen \in BOOLEAN /\ misled \in BOOLEAN /\ unsent \in BOOLEAN
      /\ crossed \in BOOLEAN /\ missed \in BOOLEAN /\ cleared \in BOOLEAN
  BY <1>1
<1>4. QED
  BY <1>2, <1>3 DEF MetaTypeOK

\* What a step leaves alone, it keeps.
LEMMA BranchStays ==
  BranchInv /\ UNCHANGED <<head, meta, reads, disk, seen, misled>> => BranchInv'
  BY DEF BranchInv, ReadsAreHonest, BranchIsFiled, BranchIsTheTerminals

LEMMA WireStays ==
  WireInv /\ UNCHANGED <<meta, backfill, linked, frames, stored, row, unsent, crossed>> => WireInv'
  BY DEF WireInv, Unlinked, Storing, LastSaid

LEMMA CopyStays ==
  CopyInv /\ UNCHANGED <<tab, missed, cleared, row, cache, stored, crossed>> => CopyInv'
  BY DEF CopyInv, AtMostOne, CacheIsTheRow, TabHasTheRow, EntryIsTheRow

\* What the daemon says last stays what is said last.
LEMMA Said ==
  ASSUME MetaTypeOK, WireInv, NEW m \in Meta, Send(m), meta' = m,
         UNCHANGED <<backfill, linked, stored, row, crossed>>
  PROVE  /\ WireInv' /\ frames' \in [Socket -> Seq(Meta)] /\ unsent' \in BOOLEAN
<1>1. Sent(m)
  BY Sending
<1>2. Unlinked'
  BY <1>1 DEF Sent, WireInv, Unlinked
<1>3. Storing'
  <2>1. ASSUME NEW s \in stored
        PROVE  frames'[s] # <<>> /\ Head(frames'[s]) = Head(frames[s])
    <3>1. s \in Socket /\ frames[s] # <<>>
      BY DEF MetaTypeOK, WireInv, Storing
    <3>2. QED
      BY <1>1, <3>1 DEF Sent, Socket
  <2>2. frames'.old = frames.old
    BY <1>1 DEF Sent
  <2>3. QED
    BY <2>1, <2>2 DEF WireInv, Storing
<1>4. LastSaid'
  BY <1>1 DEF Sent, LastSaid
<1>5. QED
  BY <1>1, <1>2, <1>3, <1>4, Kinds DEF Sent, WireInv

LEMMA InitMInv == MetaInit => MInv
<1> SUFFICES ASSUME MetaInit PROVE MInv
  OBVIOUS
<1>1. meta \in Meta /\ head \in Branch \cup {Unknown}
  BY DEF MetaInit, Meta, Name
<1>2. <<meta>> \in Seq(Meta) /\ <<>> \in Seq(Meta) /\ <<meta>> # <<>> /\ Last(<<meta>>) = meta
  BY <1>1 DEF Last
<1>3. frames \in [Socket -> Seq(Meta)]
  <2>1. ASSUME NEW x \in Seq(Meta), NEW y \in Seq(Meta)
        PROVE  [old |-> x, new |-> y] \in [Socket -> Seq(Meta)]
    BY DEF Socket
  <2>2. QED
    BY <1>2, <2>1 DEF MetaInit
<1>4. reads \in Seq([found : Branch \cup {Unknown}, current : BOOLEAN]) /\ DOMAIN reads = {}
  BY EmptySeq, LenProperties DEF MetaInit
<1>5. MetaTypeOK
  BY <1>1, <1>3, <1>4 DEF MetaInit, MetaTypeOK
<1>6. BranchInv
  BY <1>4 DEF MetaInit, BranchInv, ReadsAreHonest, BranchIsFiled, BranchIsTheTerminals
<1>7. WireInv
  BY <1>2 DEF MetaInit, WireInv, Unlinked, Storing, LastSaid
<1>8. CopyInv
  BY DEF MetaInit, CopyInv, AtMostOne, CacheIsTheRow, TabHasTheRow
<1>9. QED
  BY <1>5, <1>6, <1>7, <1>8 DEF MInv

Read == [found : Branch \cup {Unknown}, current : BOOLEAN]

\* One more read, one replaced, or one that ends: the others are what they were.
LEMMA ReadsAppend ==
  ASSUME MetaTypeOK, ReadsAreHonest, BeginRead
  PROVE  /\ reads' \in Seq(Read)
         /\ \A i \in DOMAIN reads' : reads'[i].current => reads'[i].found = head
<1> DEFINE r == [found |-> head, current |-> TRUE]
<1>1. reads \in Seq(Read) /\ r \in Read /\ r.found = head
  BY DEF MetaTypeOK, Read
<1>2. reads' = Append(reads, r)
  BY DEF BeginRead
<1> HIDE DEF r
<1>3. /\ reads' \in Seq(Read) /\ Len(reads') = Len(reads) + 1
      /\ \A i \in 1 .. Len(reads) : reads'[i] = reads[i]
      /\ reads'[Len(reads) + 1] = r
      /\ DOMAIN reads' = 1 .. Len(reads') /\ DOMAIN reads = 1 .. Len(reads) /\ Len(reads) \in Nat
  BY <1>1, <1>2, AppendProperties, LenProperties
<1>4. ASSUME NEW i \in DOMAIN reads', reads'[i].current PROVE reads'[i].found = head
  <2>1. CASE i \in 1 .. Len(reads)
    BY <1>3, <1>4, <2>1 DEF ReadsAreHonest
  <2>2. CASE i = Len(reads) + 1
    BY <1>1, <1>3, <2>2
  <2>3. QED
    BY <1>3, <2>1, <2>2
<1>5. QED
  BY <1>3, <1>4

LEMMA ReadRemoved ==
  ASSUME NEW q \in Seq(Read), NEW i \in DOMAIN q
  PROVE  /\ RemoveAt(q, i) \in Seq(Read)
         /\ \A j \in DOMAIN RemoveAt(q, i) : \E k \in DOMAIN q : RemoveAt(q, i)[j] = q[k]
<1> DEFINE a == SubSeq(q, 1, i - 1)
           b == SubSeq(q, i + 1, Len(q))
<1>1. /\ Len(q) \in Nat /\ i \in 1 .. Len(q) /\ DOMAIN q = 1 .. Len(q)
      /\ \A j \in 1 .. Len(q) : q[j] \in Read
  BY LenProperties, ElementOfSeq
<1>2. /\ a \in Seq(Read) /\ Len(a) = i - 1 /\ \A j \in 1 .. i - 1 : a[j] = q[j]
  <2>1. /\ a \in Seq(Read) /\ Len(a) = (IF 1 <= i - 1 THEN i - 1 - 1 + 1 ELSE 0)
        /\ \A j \in 1 .. i - 1 - 1 + 1 : a[j] = q[1 + j - 1]
    BY <1>1, SubSeqProperties
  <2>2. QED
    BY <1>1, <2>1
<1>3. /\ b \in Seq(Read) /\ Len(b) = Len(q) - i /\ \A j \in 1 .. Len(q) - i : b[j] = q[i + j]
  <2>1. /\ b \in Seq(Read)
        /\ Len(b) = (IF i + 1 <= Len(q) THEN Len(q) - (i + 1) + 1 ELSE 0)
        /\ \A j \in 1 .. Len(q) - (i + 1) + 1 : b[j] = q[i + 1 + j - 1]
    BY <1>1, SubSeqProperties
  <2>2. QED
    BY <1>1, <2>1
<1>4. RemoveAt(q, i) = a \o b
  BY DEF RemoveAt
<1> HIDE DEF a, b
<1>5. /\ a \o b \in Seq(Read) /\ Len(a \o b) = Len(a) + Len(b)
      /\ \A j \in 1 .. Len(a) + Len(b) :
           (a \o b)[j] = IF j <= Len(a) THEN a[j] ELSE b[j - Len(a)]
  BY <1>2, <1>3, ConcatProperties
<1>6. DOMAIN (a \o b) = 1 .. Len(a) + Len(b)
  BY <1>5, LenProperties
<1>7. ASSUME NEW j \in DOMAIN (a \o b) PROVE \E k \in DOMAIN q : (a \o b)[j] = q[k]
  <2>1. j \in 1 .. Len(q) - 1
    BY <1>1, <1>2, <1>3, <1>6
  <2>2. CASE j <= i - 1
    BY <1>1, <1>2, <1>3, <1>5, <2>1, <2>2
  <2>3. CASE j > i - 1
    <3>1. j - (i - 1) \in 1 .. Len(q) - i /\ j + 1 \in 1 .. Len(q)
      BY <1>1, <2>1, <2>3
    <3>2. (a \o b)[j] = b[j - (i - 1)]
      BY <1>1, <1>2, <1>3, <1>5, <2>1, <2>3
    <3>3. b[j - (i - 1)] = q[i + (j - (i - 1))] /\ i + (j - (i - 1)) = j + 1
      BY <1>1, <1>3, <2>1, <3>1
    <3>4. QED
      BY <1>1, <3>1, <3>2, <3>3
  <2>4. QED
    BY <1>1, <2>1, <2>2, <2>3
<1>8. QED
  BY <1>4, <1>5, <1>7

LEMMA SwitchBranchStep == MInv /\ SwitchBranch => MInv'
<1> SUFFICES ASSUME MInv, SwitchBranch PROVE MInv'
  OBVIOUS
<1> USE DEF MInv
<1>1. /\ head' \in Branch \cup {Unknown} /\ seen' = FALSE /\ misled' = FALSE
      /\ reads' = [i \in DOMAIN reads |-> [reads[i] EXCEPT !.current = FALSE]]
      /\ events' = events + 1
      /\ UNCHANGED <<meta, prompted, hook, disk, backfill, linked, frames, stored, row, cache,
                     tab, missed, cleared, unsent, crossed>>
  BY DEF SwitchBranch, Event, relayVars, entryVars
<1>2. /\ reads \in Seq(Read) /\ Len(reads) \in Nat /\ DOMAIN reads = 1 .. Len(reads)
      /\ \A i \in DOMAIN reads : reads[i] \in Read
  <2>1. reads \in Seq(Read)
    BY DEF MetaTypeOK, Read
  <2>2. QED
    BY <2>1, LenProperties, ElementOfSeq
<1>3. \A i \in DOMAIN reads : /\ [reads[i] EXCEPT !.current = FALSE] \in Read
                             /\ [reads[i] EXCEPT !.current = FALSE].current = FALSE
  BY <1>2 DEF Read
<1>4. reads' \in Seq(Read) /\ \A i \in DOMAIN reads' : ~reads'[i].current
  <2>1. reads' \in [1 .. Len(reads) -> Read]
    BY <1>1, <1>2, <1>3
  <2>2. reads' \in Seq(Read)
    BY <1>2, <2>1
  <2>3. QED
    BY <1>1, <1>2, <1>3, <2>2
<1>5. MetaTypeOK'
  <2>1. {seen, misled, unsent, crossed, missed, cleared}' \subseteq BOOLEAN
    BY <1>1, Kinds
  <2>2. QED
    BY <1>1, <1>4, <2>1 DEF MetaTypeOK, Read
<1>6. BranchInv'
  BY <1>1, <1>4 DEF BranchInv, ReadsAreHonest, BranchIsFiled, BranchIsTheTerminals
<1>7. QED
  BY <1>1, <1>5, <1>6, WireStays, CopyStays

LEMMA HookStep == MInv /\ (NotificationHook \/ MirrorTranscript) => MInv'
<1> SUFFICES ASSUME MInv, NotificationHook \/ MirrorTranscript PROVE MInv'
  OBVIOUS
<1> USE DEF MInv
<1>1. UNCHANGED <<head, meta, disk, seen, misled, backfill, linked, frames, stored, row, cache,
                  tab, missed, cleared, unsent, crossed, events>>
  BY DEF NotificationHook, MirrorTranscript, relayVars, entryVars
<1>2. WireInv' /\ CopyInv'
  BY <1>1, WireStays, CopyStays
<1>3. CASE NotificationHook
  <2>1. /\ reads' \in Seq(Read) /\ UNCHANGED <<prompted, hook>>
        /\ \A i \in DOMAIN reads' : reads'[i].current => reads'[i].found = head
    BY <1>3, ReadsAppend DEF NotificationHook, BranchInv
  <2>2. MetaTypeOK'
    BY <1>1, <2>1 DEF MetaTypeOK, Read
  <2>3. BranchInv'
    BY <1>1, <2>1 DEF BranchInv, ReadsAreHonest, BranchIsFiled, BranchIsTheTerminals
  <2>4. QED
    BY <1>2, <2>2, <2>3
<1>4. CASE MirrorTranscript
  <2>1. /\ prompted' \in BOOLEAN /\ hook' = "mirrored" /\ UNCHANGED reads
    BY <1>4 DEF MirrorTranscript, MetaTypeOK
  <2>2. MetaTypeOK'
    BY <1>1, <2>1 DEF MetaTypeOK
  <2>3. QED
    BY <1>1, <1>2, <2>1, <2>2, BranchStays
<1>5. QED
  BY <1>3, <1>4

LEMMA FinishHookStep == MInv /\ FinishHook => MInv'
<1> SUFFICES ASSUME MInv, FinishHook PROVE MInv'
  OBVIOUS
<1> USE DEF MInv
<1>1. /\ hook' = "no"
      /\ UNCHANGED <<head, prompted, backfill, linked, stored, row, cache, tab, missed, cleared,
                     seen, misled, crossed, events>>
  BY DEF FinishHook, relayVars, entryVars
<1>2. CopyInv'
  BY <1>1, CopyStays
<1>3. CASE UNCHANGED <<meta, reads, disk, frames, unsent>>
  <2>1. MetaTypeOK'
    BY <1>1, <1>3 DEF MetaTypeOK
  <2>2. QED
    BY <1>1, <1>2, <1>3, <2>1, BranchStays, WireStays
<1> DEFINE r == Refined(meta, prompted)
<1>4. r \in Meta /\ r.branch = meta.branch
  <2>1. meta \in Meta /\ Unknown \in Branch \cup {Unknown}
    BY Kinds
  <2>2. QED
    BY <2>1, MetaKinds
<1>5. ASSUME /\ BeginRead
             /\ IF r # meta THEN Emit(r) ELSE UNCHANGED <<meta, frames, unsent>>
             /\ Save(r, prompted) \/ UNCHANGED disk
      PROVE  MInv'
  <2> HIDE DEF r
  <2>1. /\ reads' \in Seq(Read)
        /\ \A i \in DOMAIN reads' : reads'[i].current => reads'[i].found = head
    BY <1>5, ReadsAppend DEF BranchInv
  <2>2. meta' = r /\ (Send(r) \/ UNCHANGED <<meta, frames, unsent>>)
    BY <1>5 DEF Emit
  <2>3. WireInv' /\ frames' \in [Socket -> Seq(Meta)] /\ unsent' \in BOOLEAN
    <3>1. CASE Send(r)
      BY <1>1, <1>4, <2>2, <3>1, Said
    <3>2. CASE UNCHANGED <<meta, frames, unsent>>
      BY <1>1, <3>2, WireStays, Kinds
    <3>3. QED
      BY <2>2, <3>1, <3>2
  <2>4. /\ disk' \in [meta : Meta, prompted : BOOLEAN]
        /\ disk'.meta.branch = meta'.branch
    BY <1>4, <1>5, <2>2, Kinds DEF Save, BranchInv, BranchIsFiled
  <2>5. MetaTypeOK'
    BY <1>1, <1>4, <2>1, <2>2, <2>3, <2>4 DEF MetaTypeOK, Read
  <2>6. BranchInv'
    BY <1>1, <1>4, <2>1, <2>2, <2>4
       DEF BranchInv, ReadsAreHonest, BranchIsFiled, BranchIsTheTerminals
  <2>7. QED
    BY <1>2, <2>3, <2>5, <2>6
<1>6. QED
  BY <1>3, <1>5 DEF FinishHook

LEMMA ReadStep ==
  ASSUME MInv, NEW i \in DOMAIN reads
  PROVE  GiveUpRead(i) \/ FinishRead(i) => MInv'
<1> USE DEF MInv
<1>0. /\ reads \in Seq(Read) /\ reads[i] \in Read /\ Len(reads) \in Nat
      /\ DOMAIN reads = 1 .. Len(reads) /\ i \in 1 .. Len(reads)
  <2>1. reads \in Seq(Read)
    BY DEF MetaTypeOK, Read
  <2>2. QED
    BY <2>1, LenProperties, ElementOfSeq
<1>1. ASSUME GiveUpRead(i) PROVE MInv'
  <2> DEFINE r == [found |-> Unknown, current |-> head = Unknown]
  <2>1. /\ reads' = [reads EXCEPT ![i] = r] /\ events' = events + 1
        /\ UNCHANGED <<head, meta, prompted, hook, disk, backfill, linked, frames, stored, row,
                       cache, tab, missed, cleared, seen, misled, unsent, crossed>>
    BY <1>1 DEF GiveUpRead, Event, relayVars, entryVars
  <2>2. r \in Read /\ (r.current => r.found = head)
    BY DEF Read
  <2> HIDE DEF r
  <2>3. /\ reads' \in Seq(Read) /\ DOMAIN reads' = DOMAIN reads
        /\ \A j \in DOMAIN reads : reads'[j] = IF j = i THEN r ELSE reads[j]
    BY <1>0, <2>1, <2>2, ExceptSeq
  <2>4. MetaTypeOK'
    <3>1. events' \in Nat
      BY <2>1, Kinds
    <3>2. QED
      BY <2>1, <2>3, <3>1 DEF MetaTypeOK, Read
  <2>5. BranchInv'
    BY <2>1, <2>2, <2>3 DEF BranchInv, ReadsAreHonest, BranchIsFiled, BranchIsTheTerminals
  <2>6. QED
    BY <2>1, <2>4, <2>5, WireStays, CopyStays
<1>2. ASSUME FinishRead(i) PROVE MInv'
  <2> DEFINE b == reads[i].found
             m == [meta EXCEPT !.branch = b]
  <2>1. /\ TakeBranch(b) /\ reads' = RemoveAt(reads, i)
        /\ seen' = (seen \/ reads[i].current)
        /\ misled' = (~reads[i].current /\ (seen \/ misled))
        /\ UNCHANGED <<head, prompted, hook, backfill, linked, stored, row, cache, tab, missed,
                       cleared, crossed, events>>
    BY <1>2 DEF FinishRead, relayVars, entryVars
  <2>2. b \in Branch \cup {Unknown} /\ reads[i].current \in BOOLEAN
    BY <1>0 DEF Read
  <2>3. m \in Meta /\ m.branch = b
    <3>1. meta \in Meta
      BY Kinds
    <3>2. QED
      BY <2>2, <3>1, MetaKinds
  <2>4. /\ meta' \in Meta /\ meta'.branch = b
        /\ WireInv' /\ frames' \in [Socket -> Seq(Meta)] /\ unsent' \in BOOLEAN
        /\ disk' \in [meta : Meta, prompted : BOOLEAN] /\ disk'.meta.branch = meta'.branch
    <3>1. CASE b = meta.branch
      <4>1. UNCHANGED <<meta, frames, unsent, disk>>
        BY <2>1, <3>1 DEF TakeBranch
      <4>2. WireInv'
        BY <2>1, <4>1, WireStays
      <4>3. QED
        BY <3>1, <4>1, <4>2, Kinds DEF BranchInv, BranchIsFiled
    <3>2. CASE b # meta.branch
      <4>1. Send(m) /\ meta' = m /\ disk' = [meta |-> meta', prompted |-> prompted]
        BY <2>1, <3>2 DEF TakeBranch, Emit, Save
      <4> HIDE DEF m, b
      <4>2. WireInv' /\ frames' \in [Socket -> Seq(Meta)] /\ unsent' \in BOOLEAN
        BY <2>1, <2>3, <4>1, Said
      <4>3. disk' \in [meta : Meta, prompted : BOOLEAN] /\ disk'.meta = meta'
        BY <2>3, <4>1, Kinds
      <4>4. QED
        BY <2>3, <4>1, <4>2, <4>3
    <3>3. QED
      BY <3>1, <3>2
  <2>5. /\ reads' \in Seq(Read)
        /\ \A j \in DOMAIN reads' : \E k \in DOMAIN reads : reads'[j] = reads[k]
    BY <1>0, <2>1, ReadRemoved
  <2>6. ReadsAreHonest'
    BY <2>1, <2>5 DEF BranchInv, ReadsAreHonest
  <2>7. BranchIsTheTerminals'
    <3>1. CASE reads[i].current
      BY <2>1, <2>4, <3>1 DEF BranchInv, ReadsAreHonest, BranchIsTheTerminals
    <3>2. CASE ~reads[i].current
      BY <2>1, <3>2 DEF BranchIsTheTerminals
    <3>3. QED
      BY <3>1, <3>2
  <2>8. MetaTypeOK'
    <3>1. seen' \in BOOLEAN /\ misled' \in BOOLEAN
      BY <2>1, <2>2, Kinds
    <3>2. {seen, misled, unsent, crossed, missed, cleared}' \subseteq BOOLEAN
      BY <2>1, <2>4, <3>1, Kinds
    <3>3. QED
      BY <2>1, <2>4, <2>5, <3>2 DEF MetaTypeOK, Read
  <2>9. CopyInv'
    BY <2>1, CopyStays
  <2>10. QED
    BY <2>4, <2>6, <2>7, <2>8, <2>9 DEF BranchInv, BranchIsFiled
<1>3. QED
  BY <1>1, <1>2

LEMMA LinkStep == MInv /\ (LoseLink \/ Restart) => MInv'
<1> SUFFICES ASSUME MInv, LoseLink \/ Restart PROVE MInv'
  OBVIOUS
<1> USE DEF MInv
<1>1. /\ events' = events + 1
      /\ UNCHANGED <<head, row, cache, tab, missed, cleared, seen, misled, crossed>>
  BY DEF LoseLink, Restart, Event, entryVars
<1>2. /\ \A s \in stored : frames[s] # <<>> /\ (row = {Head(frames[s])} \/ crossed)
      /\ backfill => ~linked
  BY DEF WireInv, Storing, Unlinked
\* What both do to the wire, when there is a socket to lose.
<1>3. ASSUME NEW n \in 0 .. Len(frames.new), linked, DiesAfter(n),
             ~unsent' => ~(unsent \/ n < Len(frames.new)) /\ (~backfill' => meta' = meta)
      PROVE  /\ WireInv' /\ CopyInv' /\ frames' \in [Socket -> Seq(Meta)]
             /\ stored' \subseteq Socket /\ linked' \in BOOLEAN
  <2>1. /\ frames' \in [Socket -> Seq(Meta)] /\ frames.old = <<>> /\ frames'.new = <<>>
        /\ n < Len(frames.new) \/ frames'.old = frames.new
        /\ stored = {} <=> stored' = {}
        /\ stored' \subseteq {"old"} /\ linked' = FALSE
        /\ stored' # {} =>
             /\ "new" \in stored /\ frames'.old # <<>> /\ Head(frames'.old) = Head(frames.new)
    BY <1>3, Dying DEF WireInv
  <2>2. Unlinked'
    BY <2>1 DEF Unlinked
  <2>3. Storing'
    <3>1. ASSUME NEW s \in stored'
          PROVE  frames'[s] # <<>> /\ (row' = {Head(frames'[s])} \/ crossed')
      <4>1. s = "old"
        BY <2>1
      <4>2. frames'["old"] # <<>> /\ Head(frames'["old"]) = Head(frames["new"]) /\ "new" \in stored
        BY <2>1, <4>1
      <4>3. QED
        BY <1>1, <1>2, <4>1, <4>2
    <3>2. "new" \notin stored'
      BY <2>1
    <3>3. QED
      BY <3>1, <3>2 DEF Storing
  <2>4. LastSaid'
    <3> SUFFICES ASSUME ~unsent', ~backfill' PROVE LastSaid'
      BY DEF LastSaid
    <3>1. frames'.old = frames.new /\ meta' = meta /\ ~unsent /\ ~backfill
      BY <1>2, <1>3, <2>1
    <3>2. QED
      BY <1>1, <2>1, <3>1 DEF WireInv, LastSaid
  <2>5. CopyInv'
    BY <1>1, <2>1 DEF CopyInv, AtMostOne, CacheIsTheRow, TabHasTheRow, EntryIsTheRow
  <2>6. QED
    BY <2>1, <2>2, <2>3, <2>4, <2>5 DEF WireInv, Socket
<1>4. CASE LoseLink
  <2>1. /\ linked /\ UNCHANGED <<meta, prompted, hook, reads, disk, backfill>>
        /\ \E n \in 0 .. Len(frames.new) :
             DiesAfter(n) /\ unsent' = (unsent \/ n < Len(frames.new))
    BY <1>4 DEF LoseLink, daemonVars
  <2>2. /\ WireInv' /\ CopyInv' /\ frames' \in [Socket -> Seq(Meta)]
        /\ stored' \subseteq Socket /\ linked' \in BOOLEAN
    BY <1>3, <2>1
  <2>3. unsent' \in BOOLEAN /\ events' \in Nat
    BY <1>1, <2>1, Kinds
  <2>4. MetaTypeOK'
    BY <1>1, <2>1, <2>2, <2>3 DEF MetaTypeOK
  <2>5. QED
    BY <1>1, <2>1, <2>2, <2>4, BranchStays
<1>5. CASE Restart
  <2>1. /\ meta' = Refined(disk.meta, disk.prompted) /\ prompted' = disk.prompted
        /\ backfill' = (meta' # disk.meta) /\ hook' = "no" /\ reads' = <<>> /\ UNCHANGED disk
    BY <1>5 DEF Restart
  <2>2. disk.meta \in Meta /\ disk.prompted \in BOOLEAN /\ Unknown \in Branch \cup {Unknown}
    BY Kinds
  <2>3. meta' \in Meta /\ meta'.branch = disk.meta.branch
    BY <2>1, <2>2, MetaKinds
  <2>4. /\ WireInv' /\ CopyInv' /\ frames' \in [Socket -> Seq(Meta)]
        /\ stored' \subseteq Socket /\ linked' \in BOOLEAN /\ unsent' \in BOOLEAN
    <3>1. CASE linked
      <4>1. PICK n \in 0 .. Len(frames.new) :
              DiesAfter(n) /\ unsent' = (unsent \/ n < Len(frames.new) \/ disk.meta # meta)
        BY <1>5, <3>1 DEF Restart
      <4>2. QED
        BY <1>3, <2>1, <3>1, <4>1, Kinds
    <3>2. CASE ~linked
      <4>1. /\ UNCHANGED <<linked, frames, stored>>
            /\ unsent' = (unsent \/ backfill \/ disk.meta # meta)
        BY <1>5, <3>2 DEF Restart
      <4>2. Unlinked' /\ Storing'
        BY <1>1, <2>1, <3>2, <4>1 DEF WireInv, Unlinked, Storing
      <4>3. LastSaid'
        <5> SUFFICES ASSUME ~unsent', ~backfill' PROVE LastSaid'
          BY DEF LastSaid
        <5>1. meta' = meta /\ ~unsent /\ ~backfill
          BY <2>1, <4>1
        <5>2. QED
          BY <1>1, <4>1, <5>1 DEF WireInv, LastSaid
      <4>4. unsent' \in BOOLEAN
        BY <4>1, Kinds
      <4>5. QED
        BY <1>1, <4>1, <4>2, <4>3, <4>4, CopyStays, Kinds DEF WireInv
    <3>3. QED
      BY <3>1, <3>2
  <2>5. /\ reads' \in Seq([found : Branch \cup {Unknown}, current : BOOLEAN])
        /\ DOMAIN reads' = {}
    BY <2>1, EmptySeq, LenProperties
  <2>6. MetaTypeOK'
    <3>1. {seen, misled, unsent, crossed, missed, cleared}' \subseteq BOOLEAN /\ events' \in Nat
      BY <1>1, <2>4, Kinds
    <3>2. prompted' \in BOOLEAN /\ backfill' \in BOOLEAN
      BY <2>1, <2>2
    <3>3. QED
      BY <1>1, <2>1, <2>3, <2>4, <2>5, <3>1, <3>2 DEF MetaTypeOK
  <2>7. BranchInv'
    BY <1>1, <2>1, <2>3, <2>5 DEF BranchInv, ReadsAreHonest, BranchIsFiled, BranchIsTheTerminals
  <2>8. QED
    BY <2>4, <2>6, <2>7
<1>6. QED
  BY <1>4, <1>5

LEMMA RegisterStep == MInv /\ Register => MInv'
<1> SUFFICES ASSUME MInv, Register PROVE MInv'
  OBVIOUS
<1> USE DEF MInv
<1>1. /\ ~linked /\ linked' = TRUE /\ backfill' = FALSE
      /\ UNCHANGED <<head, meta, prompted, hook, reads, stored, row, cache, tab, missed, cleared,
                     seen, misled, crossed, events>>
  BY DEF Register, relayVars, entryVars
<1>2. CopyInv'
  BY <1>1, CopyStays
<1>3. CASE ~backfill
  <2>1. UNCHANGED <<frames, unsent, disk, backfill>>
    <3>1. backfill \in BOOLEAN
      BY Kinds
    <3>2. QED
      BY <1>1, <1>3, <3>1 DEF Register
  <2>2. MetaTypeOK'
    BY <1>1, <2>1 DEF MetaTypeOK
  <2>3. WireInv'
    BY <1>1, <2>1 DEF WireInv, Unlinked, Storing, LastSaid
  <2>4. QED
    BY <1>1, <1>2, <2>1, <2>2, <2>3, BranchStays
<1>4. CASE backfill
  <2>1. /\ frames' = [frames EXCEPT !.new = Append(frames.new, meta)] /\ unsent' = FALSE
        /\ disk' = [meta |-> meta, prompted |-> prompted]
    BY <1>4 DEF Register, Save
  <2>2. meta \in Meta /\ frames.new \in Seq(Meta) /\ frames \in [Socket -> Seq(Meta)]
    BY Kinds
  <2>3. /\ Append(frames.new, meta) \in Seq(Meta) /\ Append(frames.new, meta) # <<>>
        /\ Last(Append(frames.new, meta)) = meta
    BY <2>2, QueueGrows
  <2>4. /\ frames' \in [Socket -> Seq(Meta)] /\ frames'.old = frames.old
        /\ frames'.new # <<>> /\ Last(frames'.new) = meta
    BY <2>1, <2>2, <2>3 DEF Socket
  <2>5. MetaTypeOK'
    <3>1. disk' \in [meta : Meta, prompted : BOOLEAN]
      BY <2>1, Kinds
    <3>2. {seen, misled, unsent, crossed, missed, cleared}' \subseteq BOOLEAN
      BY <1>1, <2>1, Kinds
    <3>3. QED
      BY <1>1, <2>4, <3>1, <3>2 DEF MetaTypeOK
  <2>6. BranchInv'
    BY <1>1, <2>1 DEF BranchInv, ReadsAreHonest, BranchIsFiled, BranchIsTheTerminals
  <2>7. stored \subseteq {"old"}
    BY <1>1 DEF MetaTypeOK, Socket, WireInv, Unlinked, Storing
  <2>8. Storing'
    <3>1. ASSUME NEW s \in stored
          PROVE  frames'[s] # <<>> /\ (row' = {Head(frames'[s])} \/ crossed')
      <4>1. s = "old" /\ frames["old"] # <<>> /\ (row = {Head(frames["old"])} \/ crossed)
        BY <2>7 DEF WireInv, Storing
      <4>2. QED
        BY <1>1, <2>4, <4>1
    <3>2. QED
      BY <1>1, <2>7, <3>1 DEF Storing
  <2>9. Unlinked' /\ LastSaid'
    BY <1>1, <2>4 DEF Unlinked, LastSaid
  <2>10. QED
    BY <1>2, <2>5, <2>6, <2>8, <2>9 DEF WireInv
<1>5. QED
  BY <1>3, <1>4, Kinds

LEMMA TabMoves ==
  MInv /\ (TabDrops \/ TabConnects \/ LoadRows \/ SeedEntry) => MInv'
<1> SUFFICES ASSUME MInv, TabDrops \/ TabConnects \/ LoadRows \/ SeedEntry PROVE MInv'
  OBVIOUS
<1> USE DEF MInv
<1>1. UNCHANGED <<head, meta, prompted, hook, reads, disk, backfill, linked, frames, stored, row,
                  cache, seen, misled, unsent, crossed>>
  BY DEF TabDrops, TabConnects, LoadRows, SeedEntry, daemonVars, relayVars
<1>2. /\ tab \in [up : BOOLEAN, has : SUBSET Meta, opening : SUBSET Meta] /\ row \subseteq Meta
      /\ missed \in BOOLEAN /\ cleared \in BOOLEAN /\ events \in Nat
  BY Kinds
<1>3. /\ AtMostOne(row) /\ AtMostOne(cache) /\ AtMostOne(tab.has) /\ AtMostOne(tab.opening)
      /\ CacheIsTheRow
      /\ stored = {} /\ tab.has # {} => EntryIsTheRow
      /\ stored = {} /\ tab.has = {} /\ tab.opening # {} => tab.opening = row \/ missed \/ crossed
  BY DEF CopyInv, TabHasTheRow
<1>4. ASSUME /\ tab' \in [up : BOOLEAN, has : SUBSET Meta, opening : SUBSET Meta]
             /\ missed' \in BOOLEAN /\ cleared' \in BOOLEAN /\ events' \in Nat
             /\ AtMostOne(tab'.has) /\ AtMostOne(tab'.opening) /\ TabHasTheRow'
      PROVE  MInv'
  <2>1. {seen, misled, unsent, crossed, missed, cleared}' \subseteq BOOLEAN
    BY <1>1, <1>4, Kinds
  <2>2. MetaTypeOK'
    BY <1>1, <1>4, <2>1 DEF MetaTypeOK
  <2>3. CopyInv'
    BY <1>1, <1>3, <1>4 DEF CopyInv, CacheIsTheRow, AtMostOne
  <2>4. QED
    BY <1>1, <2>2, <2>3, BranchStays, WireStays
<1>5. CASE TabDrops \/ TabConnects
  <2>1. /\ tab' \in [up : BOOLEAN, has : SUBSET Meta, opening : SUBSET Meta]
        /\ tab'.has = tab.has /\ tab'.opening = tab.opening /\ UNCHANGED <<missed, cleared>>
        /\ events' \in Nat
    <3>1. /\ UNCHANGED <<missed, cleared>>
          /\ events' = events \/ events' = events + 1
          /\ \E u \in BOOLEAN : tab' = [tab EXCEPT !.up = u]
      BY <1>5 DEF TabDrops, TabConnects, Event
    <3>2. QED
      BY <1>2, <3>1
  <2>2. TabHasTheRow'
    BY <1>1, <1>3, <2>1 DEF TabHasTheRow, EntryIsTheRow
  <2>3. QED
    BY <1>2, <1>3, <1>4, <2>1, <2>2
<1>6. CASE LoadRows
  <2>1. events' \in Nat
    BY <1>2, <1>6 DEF LoadRows, Event
  <2>2. CASE /\ tab.opening = {} /\ tab' = [tab EXCEPT !.opening = row]
             /\ missed' = (missed /\ tab.has # {}) /\ UNCHANGED cleared
    <3>1. /\ tab' \in [up : BOOLEAN, has : SUBSET Meta, opening : SUBSET Meta]
          /\ tab'.has = tab.has /\ tab'.opening = row
      BY <1>2, <2>2
    <3>2. TabHasTheRow'
      BY <1>1, <1>3, <2>2, <3>1 DEF TabHasTheRow, EntryIsTheRow
    <3>3. missed' \in BOOLEAN
      BY <1>2, <2>2
    <3>4. QED
      BY <1>2, <1>3, <1>4, <2>1, <2>2, <3>1, <3>2, <3>3
  <2>3. CASE /\ tab' = [up |-> FALSE, has |-> {}, opening |-> row]
             /\ missed' = FALSE /\ cleared' = FALSE
    <3>1. /\ tab' \in [up : BOOLEAN, has : SUBSET Meta, opening : SUBSET Meta]
          /\ tab'.has = {} /\ tab'.opening = row /\ AtMostOne(tab'.has)
      BY <1>2, <2>3 DEF AtMostOne
    <3>2. TabHasTheRow'
      BY <1>1, <3>1 DEF TabHasTheRow
    <3>3. QED
      BY <1>2, <1>3, <1>4, <2>1, <2>3, <3>1, <3>2
  <2>4. QED
    BY <1>6, <2>2, <2>3 DEF LoadRows
<1>7. CASE SeedEntry
  <2>1. /\ tab.opening # {} /\ UNCHANGED <<missed, cleared, events>>
        /\ tab' \in [up : BOOLEAN, has : SUBSET Meta, opening : SUBSET Meta]
        /\ tab'.has = (IF tab.has = {} THEN tab.opening ELSE tab.has) /\ tab'.opening = {}
    BY <1>2, <1>7 DEF SeedEntry, OverlayMissing
  <2>2. AtMostOne(tab'.has) /\ AtMostOne(tab'.opening)
    BY <1>3, <2>1 DEF AtMostOne
  <2>3. TabHasTheRow'
    BY <1>1, <1>3, <2>1 DEF TabHasTheRow, EntryIsTheRow
  <2>4. QED
    BY <1>2, <1>4, <2>1, <2>2, <2>3
<1>8. QED
  BY <1>5, <1>6, <1>7

LEMMA SubscribeStep == MInv /\ Subscribe => MInv'
<1> SUFFICES ASSUME MInv, Subscribe PROVE MInv'
  OBVIOUS
<1> USE DEF MInv
<1>1. /\ events' = events + 1 /\ tab.up
      /\ UNCHANGED <<head, meta, prompted, hook, reads, disk, backfill, linked, stored, row, cache,
                     seen, misled, crossed>>
  BY DEF Subscribe, Event, daemonVars, relayVars
<1>2. WireInv' /\ frames' \in [Socket -> Seq(Meta)] /\ unsent' \in BOOLEAN
  <2>1. CASE linked
    <3>1. Send(meta) /\ meta \in Meta
      BY <2>1, Kinds DEF Subscribe
    <3>2. QED
      BY <1>1, <3>1, Said
  <2>2. CASE ~linked
    <3>1. UNCHANGED <<frames, unsent>>
      BY <2>2 DEF Subscribe
    <3>2. QED
      BY <1>1, <3>1, WireStays, Kinds
  <2>3. QED
    BY <2>1, <2>2
<1>3. /\ CopyInv' /\ missed' \in BOOLEAN /\ cleared' \in BOOLEAN
      /\ tab' \in [up : BOOLEAN, has : SUBSET Meta, opening : SUBSET Meta]
  <2>1. CASE cache = {}
    <3>1. UNCHANGED <<tab, missed, cleared>>
      BY <2>1 DEF Subscribe, entryVars
    <3>2. QED
      BY <1>1, <3>1, CopyStays, Kinds
  <2>2. CASE cache # {}
    <3>1. PICK m \in cache : Take(m)
      BY <2>2 DEF Subscribe
    <3>2. m \in Meta /\ cache = {m} /\ AtMostOne(tab.has)
      BY Kinds DEF CopyInv, AtMostOne
    <3>3. Taken(m)
      BY <3>1, <3>2, Taking
    <3>4. TabHasTheRow'
      <4> SUFFICES ASSUME stored' = {} PROVE tab'.has # {} /\ EntryIsTheRow'
        BY DEF TabHasTheRow
      <4>1. row = {m} \/ crossed
        BY <1>1, <3>2 DEF CopyInv, CacheIsTheRow
      <4>2. /\ tab'.has # {}
            /\ tab'.has = {m} \/ (cleared' /\ {e.title : e \in tab'.has} = {m.title})
        BY <1>1, <3>3 DEF Taken
      <4>3. {x.title : x \in {m}} = {m.title}
        OBVIOUS
      <4>4. QED
        BY <1>1, <4>1, <4>2, <4>3 DEF EntryIsTheRow
    <3>5. QED
      BY <1>1, <3>3, <3>4 DEF CopyInv, Taken, AtMostOne, CacheIsTheRow
  <2>3. QED
    BY <2>1, <2>2
<1>4. MetaTypeOK'
  <2>1. {seen, misled, unsent, crossed, missed, cleared}' \subseteq BOOLEAN /\ events' \in Nat
    BY <1>1, <1>2, <1>3, Kinds
  <2>2. QED
    BY <1>1, <1>2, <1>3, <2>1 DEF MetaTypeOK
<1>5. QED
  BY <1>1, <1>2, <1>3, <1>4, BranchStays

LEMMA StoreStep == ASSUME MInv, NEW s \in Socket, Store(s) PROVE MInv'
<1> USE DEF MInv
<1>1. /\ frames[s] # <<>> /\ s \notin stored /\ stored' = stored \cup {s}
      /\ row' = {Head(frames[s])}
      /\ crossed' = ((crossed /\ s = "old") \/ (s = "new" /\ frames.old # <<>>))
      /\ UNCHANGED <<head, meta, prompted, hook, reads, disk, backfill, linked, frames, cache, tab,
                     missed, cleared, seen, misled, unsent, events>>
  BY DEF Store, daemonVars, entryVars
<1>2. frames[s] \in Seq(Meta) /\ Head(frames[s]) \in Meta
  <2>1. frames[s] \in Seq(Meta)
    BY Kinds
  <2>2. QED
    BY <1>1, <2>1, ReadsHead
<1>3. s = "old" \/ s = "new"
  BY DEF Socket
<1>4. /\ \A x \in stored : frames[x] # <<>> /\ x \in {"old", "new"}
      /\ "new" \in stored /\ frames.old # <<>> => crossed
  BY DEF WireInv, Storing, MetaTypeOK, Socket
<1>5. Storing'
  <2>1. ASSUME NEW x \in stored'
        PROVE  frames'[x] # <<>> /\ (row' = {Head(frames'[x])} \/ crossed')
    <3>1. CASE x = s
      BY <1>1, <3>1
    <3>2. CASE x # s /\ s = "new"
      BY <1>1, <1>4, <3>2
    <3>3. CASE x # s /\ s = "old"
      BY <1>1, <1>4, <3>3
    <3>4. QED
      BY <1>3, <3>1, <3>2, <3>3
  <2>2. "new" \in stored' /\ frames'.old # <<>> => crossed'
    BY <1>1, <1>3, <1>4
  <2>3. QED
    BY <2>1, <2>2 DEF Storing
<1>6. Unlinked'
  BY <1>1 DEF WireInv, Unlinked
<1>7. LastSaid'
  <2>1. CASE s = "new"
    BY <1>1, <2>1 DEF WireInv, LastSaid
  <2>2. CASE s = "old"
    BY <1>1, <2>2 DEF WireInv, LastSaid
  <2>3. QED
    BY <1>3, <2>1, <2>2
<1>8. CopyInv'
  BY <1>1 DEF CopyInv, AtMostOne, CacheIsTheRow, TabHasTheRow
<1>9. MetaTypeOK'
  <2>1. {seen, misled, unsent, crossed, missed, cleared}' \subseteq BOOLEAN
    BY <1>1, Kinds
  <2>2. row' \subseteq Meta /\ stored' \subseteq Socket
    BY <1>1, <1>2, Kinds
  <2>3. QED
    BY <1>1, <2>1, <2>2 DEF MetaTypeOK
<1>10. QED
  BY <1>1, <1>5, <1>6, <1>7, <1>8, <1>9, BranchStays DEF WireInv

LEMMA BroadcastStep == ASSUME MInv, NEW s \in Socket, Broadcast(s) PROVE MInv'
<1> USE DEF MInv
<1> DEFINE m == Head(frames[s])
<1>1. /\ s \in stored /\ stored' = stored \ {s} /\ frames' = [frames EXCEPT ![s] = Tail(frames[s])]
      /\ cache' = {m} /\ Take(m)
      /\ UNCHANGED <<head, meta, prompted, hook, reads, disk, backfill, linked, row, seen, misled,
                     unsent, crossed, events>>
  BY DEF Broadcast, daemonVars
<1>2. s = "old" \/ s = "new"
  BY DEF Socket
<1>3. /\ frames[s] # <<>> /\ (row = {m} \/ crossed)
      /\ "new" \in stored /\ frames.old # <<>> => crossed
      /\ \A x \in stored : /\ frames[x] # <<>> /\ (row = {Head(frames[x])} \/ crossed)
                          /\ x \in {"old", "new"}
  BY <1>1 DEF WireInv, Storing, MetaTypeOK, Socket
<1>4. frames[s] \in Seq(Meta) /\ frames \in [Socket -> Seq(Meta)]
  BY Kinds
<1>5. /\ m \in Meta /\ Tail(frames[s]) \in Seq(Meta)
      /\ Tail(frames[s]) # <<>> => Last(Tail(frames[s])) = Last(frames[s])
      /\ Tail(frames[s]) = <<>> => Last(frames[s]) = m
  BY <1>3, <1>4, ReadsHead
<1> HIDE DEF m
<1>6. /\ frames' \in [Socket -> Seq(Meta)] /\ frames'[s] = Tail(frames[s])
      /\ \A x \in Socket \ {s} : frames'[x] = frames[x]
  BY <1>1, <1>4, <1>5
<1>7. Storing'
  <2>1. ASSUME NEW x \in stored'
        PROVE  frames'[x] # <<>> /\ (row' = {Head(frames'[x])} \/ crossed')
    <3>1. x \in stored /\ x # s /\ x \in Socket
      BY <1>1, <1>3 DEF Socket
    <3>2. QED
      BY <1>1, <1>3, <1>6, <3>1
  <2>2. ASSUME "new" \in stored', frames'["old"] # <<>> PROVE crossed'
    <3>1. "new" \in stored /\ s = "old" /\ frames["old"] # <<>>
      BY <1>1, <1>2, <1>3, <2>2
    <3>2. QED
      BY <1>1, <1>3, <3>1
  <2>3. QED
    BY <2>1, <2>2 DEF Storing
<1>8. Unlinked'
  <2>1. ASSUME ~linked' PROVE frames'["new"] = <<>>
    <3>1. frames["new"] = <<>>
      BY <1>1, <2>1 DEF WireInv, Unlinked
    <3>2. s = "old" /\ "new" \in Socket
      BY <1>2, <1>3, <3>1 DEF Socket
    <3>3. QED
      BY <1>6, <3>1, <3>2
  <2>2. QED
    BY <1>1, <2>1 DEF WireInv, Unlinked
<1>9. LastSaid'
  <2> SUFFICES ASSUME ~unsent, ~backfill
               PROVE  /\ frames'["new"] # <<>> => Last(frames'["new"]) = meta
                      /\ frames'["new"] = <<>> /\ frames'["old"] # <<>>
                           => Last(frames'["old"]) = meta \/ crossed
                      /\ frames'["new"] = <<>> /\ frames'["old"] = <<>> => row = {meta} \/ crossed
    BY <1>1 DEF LastSaid
  <2>1. /\ frames["new"] # <<>> => Last(frames["new"]) = meta
        /\ frames["new"] = <<>> /\ frames["old"] # <<>> => Last(frames["old"]) = meta \/ crossed
    BY DEF WireInv, LastSaid
  <2>2. CASE s = "new"
    <3>1. frames'["new"] = Tail(frames["new"]) /\ frames'["old"] = frames["old"]
      BY <1>6, <2>2 DEF Socket
    <3>2. QED
      BY <1>1, <1>3, <1>5, <2>1, <2>2, <3>1
  <2>3. CASE s = "old"
    <3>1. frames'["old"] = Tail(frames["old"]) /\ frames'["new"] = frames["new"]
      BY <1>6, <2>3 DEF Socket
    <3>2. QED
      BY <1>1, <1>3, <1>5, <2>1, <2>3, <3>1
  <2>4. QED
    BY <1>2, <2>2, <2>3
<1>10. Taken(m)
  BY <1>1, <1>5, Taking DEF CopyInv
<1>11. CopyInv'
  <2>1. CacheIsTheRow'
    BY <1>1, <1>3 DEF CacheIsTheRow
  <2>2. TabHasTheRow'
    <3>1. CASE tab.up
      <4>1. /\ tab'.has # {}
            /\ tab'.has = {m} \/ (cleared' /\ {e.title : e \in tab'.has} = {m.title})
        BY <1>10, <3>1 DEF Taken
      <4>2. {x.title : x \in {m}} = {m.title}
        OBVIOUS
      <4>3. QED
        BY <1>1, <1>3, <4>1, <4>2 DEF TabHasTheRow, EntryIsTheRow
    <3>2. CASE ~tab.up
      BY <1>10, <3>2 DEF Taken, TabHasTheRow, EntryIsTheRow
    <3>3. QED
      BY <3>1, <3>2
  <2>3. AtMostOne(row)' /\ AtMostOne(cache)' /\ AtMostOne(tab.opening)'
    BY <1>1, <1>10 DEF CopyInv, AtMostOne, Taken
  <2>4. AtMostOne(tab.has)'
    BY <1>10 DEF Taken, AtMostOne
  <2>5. QED
    BY <2>1, <2>2, <2>3, <2>4 DEF CopyInv
<1>12. MetaTypeOK'
  <2>1. {seen, misled, unsent, crossed, missed, cleared}' \subseteq BOOLEAN
    BY <1>1, <1>10, Kinds DEF Taken
  <2>2. cache' \subseteq Meta /\ stored' \subseteq Socket
    BY <1>1, <1>5, Kinds
  <2>3. QED
    BY <1>1, <1>6, <1>10, <2>1, <2>2 DEF MetaTypeOK, Taken
<1>13. QED
  BY <1>1, <1>7, <1>8, <1>9, <1>11, <1>12, BranchStays DEF WireInv

LEMMA MInvStep == MInv /\ [MetaNext]_metaVars => MInv'
<1>1. ASSUME MInv, MetaNext PROVE MInv'
  BY <1>1, SwitchBranchStep, HookStep, FinishHookStep, ReadStep, LinkStep, RegisterStep, TabMoves,
     SubscribeStep, StoreStep, BroadcastStep DEF MetaNext
<1>2. ASSUME MInv, UNCHANGED metaVars PROVE MInv'
  <2>1. UNCHANGED <<head, meta, prompted, hook, reads, disk, backfill, linked, frames, stored, row,
                    cache, tab, missed, cleared, seen, misled, unsent, crossed, events>>
    BY <1>2 DEF metaVars, daemonVars, relayVars, entryVars
  <2>2. MetaTypeOK'
    BY <1>2, <2>1 DEF MInv, MetaTypeOK
  <2>3. QED
    BY <1>2, <2>1, <2>2, BranchStays, WireStays, CopyStays DEF MInv
<1>3. QED
  BY <1>1, <1>2

\* Type correctness of the labels' way from the terminal to a tab.
THEOREM MetaTypeCorrect == MetaSpec => []MetaTypeOK
<1>1. MInv => MetaTypeOK
  BY DEF MInv
<1>2. QED
  BY <1>1, InitMInv, MInvStep, PTL DEF MetaSpec

\* Whatever emissions, dead sockets, restarts, page loads and frames race, once nothing is on
\* its way the daemon, the row and a connected tab agree on a session's labels, but for the
\* excuses the code has; and the branch among them is the terminal's (daemon.ts,
\* emitSessionMeta and refreshAdoptedBranch; session-rows.ts, setSealedMeta; session-meta.ts).
THEOREM LabelsAgreed == MetaSpec => []LabelsAgree
<1>1. ASSUME MInv PROVE LabelsAgree
  <2>1. Quiet => stored = {}
    BY <1>1 DEF MInv, MetaTypeOK, WireInv, Storing, Quiet, Socket
  <2>2. Quiet => RowIsTheDaemons
    BY <1>1 DEF MInv, WireInv, LastSaid, Quiet, RowIsTheDaemons
  <2>3. Quiet /\ tab.has # {} => EntryIsTheRow
    BY <1>1, <2>1 DEF MInv, CopyInv, TabHasTheRow
  <2>4. QED
    BY <1>1, <2>2, <2>3 DEF MInv, BranchInv, LabelsAgree
<1>2. QED
  BY <1>1, InitMInv, MInvStep, PTL DEF MetaSpec

=============================================================================
