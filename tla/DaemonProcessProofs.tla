------------------------ MODULE DaemonProcessProofs ------------------------
(***************************************************************************)
(* What holds of DeviceAuth, and of DaemonProcess over it, for every set   *)
(* of users and of codes, and any number of attempts, faults and restarts: *)
(* the relay's types; an approved code makes one device; a device changes  *)
(* its token only by its owner's word; and a machine that pairs again      *)
(* keeps its device.                                                       *)
(***************************************************************************)
EXTENDS DaemonProcess, FiniteSetTheorems, TLAPS

\* A code that has not been bound yet.
Unbound(c) == grant[c].stage \in {"unused", "checking", "open"} \cup Binding

\* A bind in flight has a token of its own, not spent by an earlier attempt.
TriesCount ==
  \A c \in Code :
    /\ grant[c].stage \in Binding => grant[c].tries # 0
    /\ \A d \in Device : d.code = c /\ row[d].made =>
         /\ d.try <= grant[c].tries
         /\ grant[c].stage \in Binding => d.try # grant[c].tries

\* A code nobody doubts makes no device before it is bound, and one at most.
Binds ==
  \A c \in Code :
    /\ grant[c].stage = "unused" => grant[c] = NoGrant
    /\ ~grant[c].doubt =>
         /\ Unbound(c) => \A d \in Device : d.code = c => ~row[d].made
         /\ \A d, e \in Device :
              d.code = c /\ e.code = c /\ row[d].made /\ row[e].made => d = e

IInv == AuthTypeOK /\ TriesCount /\ Binds

USE DeviceAuthConstants

\* The rows that a bind may leave, whether its call succeeds, fails or is cut off.
LEMMA Writes ==
  ASSUME AuthTypeOK, TriesCount, NEW c \in Code, grant[c].stage \in Binding,
         NEW r \in Unsure(c) \cup {Created(c)}
  PROVE  /\ r \in [Device -> Row]
         /\ \A d \in Device : d # TokenOf(c) => r[d].made = row[d].made
         /\ r[TokenOf(c)].made => TokenOf(c) \in Device
         /\ \A d \in Device : row[d].made => r[d].made
<1>1. TokenOf(c) \in Device
  BY DEF AuthTypeOK, TriesCount, Grant, TokenOf, Device, Token
<1>2. Created(c) \in [Device -> Row]
  BY <1>1 DEF AuthTypeOK, Created, Row, Grant, Device
<1>3. Restored(c) \in [Device -> Row]
  BY <1>1 DEF AuthTypeOK, Restored, Row, Device
<1>4. \A d \in Device : Restored(c)[d].made = row[d].made
  BY DEF AuthTypeOK, Restored, Row
<1>5. \A d \in Device : d # TokenOf(c) => Created(c)[d].made = row[d].made
  BY DEF AuthTypeOK, Created
<1>6. Created(c)[TokenOf(c)].made
  BY <1>1 DEF AuthTypeOK, Created
<1>7. r \in {row, Created(c), Restored(c)}
  BY DEF Unsure
<1>8. QED
  BY <1>1, <1>2, <1>3, <1>4, <1>5, <1>6, <1>7 DEF AuthTypeOK

LEMMA InitIInv == AuthInit => IInv
  BY DEF AuthInit, IInv, AuthTypeOK, TriesCount, Binds, Row, NoRow, Grant, NoGrant, Stage,
         Binding, Device, Token

LEMMA TypeStep == IInv /\ [AuthNext]_authVars => AuthTypeOK'
<1> SUFFICES ASSUME IInv, [AuthNext]_authVars PROVE AuthTypeOK'
  OBVIOUS
<1> USE DEF IInv
<1>1. ASSUME NEW c \in Code, NEW t \in Token \cup {NoToken}, RequestCode(c, t)
      PROVE  AuthTypeOK'
  <2>1. PICK stage \in {"open", "checking"}, listed \in BOOLEAN :
          grant' = [grant EXCEPT ![c].stage = stage, ![c].listed = listed, ![c].evidence = t]
    BY <1>1 DEF RequestCode
  <2>2. grant' = [grant EXCEPT ![c] = [grant[c] EXCEPT !.stage = stage, !.listed = listed,
                                                      !.evidence = t]]
    BY <2>1
  <2>3. [grant[c] EXCEPT !.stage = stage, !.listed = listed, !.evidence = t] \in Grant
    BY DEF AuthTypeOK, Grant, Stage
  <2>4. UNCHANGED <<row, faults>>
    BY <1>1 DEF RequestCode
  <2>5. QED
    BY <2>2, <2>3, <2>4 DEF AuthTypeOK
<1>2. ASSUME NEW c \in Code, CheckEvidence(c)
      PROVE  AuthTypeOK'
  <2>1. PICK d \in Device \cup {NoToken} :
          grant' = [grant EXCEPT ![c].stage = "open", ![c].listed = TRUE, ![c].restores = d]
    BY <1>2 DEF CheckEvidence, RevokedBy
  <2>2. grant' = [grant EXCEPT ![c] = [grant[c] EXCEPT !.stage = "open", !.listed = TRUE,
                                                      !.restores = d]]
    BY <2>1
  <2>3. [grant[c] EXCEPT !.stage = "open", !.listed = TRUE, !.restores = d] \in Grant
    BY DEF AuthTypeOK, Grant, Stage
  <2>4. QED
    BY <1>2, <2>2, <2>3 DEF CheckEvidence, AuthTypeOK
<1>3. ASSUME NEW c \in Code, CheckFails(c)
      PROVE  AuthTypeOK'
  BY <1>3 DEF CheckFails, Fault, AuthTypeOK, Grant, Stage
<1>4. ASSUME NEW c \in Code, Expire(c)
      PROVE  AuthTypeOK'
  <2>1. grant' = [grant EXCEPT ![c] = [grant[c] EXCEPT !.expired = TRUE]]
    BY <1>4 DEF Expire
  <2>2. [grant[c] EXCEPT !.expired = TRUE] \in Grant
    BY DEF AuthTypeOK, Grant
  <2>3. QED
    BY <1>4, <2>1, <2>2 DEF Expire, AuthTypeOK
<1>5. ASSUME NEW c \in Code, Evict(c) \/ Deliver(c)
      PROVE  AuthTypeOK'
  <2>1. Unlisted(grant[c]) \in Grant
    BY DEF Unlisted, AuthTypeOK, Grant, Stage, Binding
  <2>2. QED
    BY <1>5, <2>1 DEF Evict, Deliver, AuthTypeOK
<1>6. ASSUME NEW c \in Code, NEW u \in User, Approve(c, u)
      PROVE  AuthTypeOK'
  BY <1>6 DEF Approve, BindFor, AuthTypeOK, Grant, Stage
<1>7. ASSUME NEW c \in Code, BindRestores(c)
      PROVE  AuthTypeOK'
  <2>1. CASE Restorable(c)
    BY <1>7, <2>1, Writes DEF BindRestores, Unsure, Bound, AuthTypeOK, Grant, Stage, Binding
  <2>2. CASE ~Restorable(c)
    BY <1>7, <2>2 DEF BindRestores, AuthTypeOK, Grant, Stage
  <2>3. QED
    BY <2>1, <2>2
<1>8. ASSUME NEW c \in Code, BindCreates(c)
      PROVE  AuthTypeOK'
  <2>1. TokenOf(c) \in Device
    BY <1>8 DEF BindCreates, AuthTypeOK, TriesCount, Binding, Grant, TokenOf, Device, Token
  <2>2. QED
    <3>1. row' \in [Device -> Row]
      BY <1>8, Writes DEF BindCreates, Binding
    <3>2. grant' \in [Code -> Grant]
      <4> DEFINE stage == IF grant[c].listed THEN "bound" ELSE "gone"
      <4>1. grant' = [grant EXCEPT ![c] = [grant[c] EXCEPT !.stage = stage,
                                                          !.device = TokenOf(c)]]
        BY <1>8 DEF BindCreates, Bound
      <4>2. [grant[c] EXCEPT !.stage = stage, !.device = TokenOf(c)] \in Grant
        BY <2>1 DEF AuthTypeOK, Grant, Stage
      <4>3. QED
        BY <4>1, <4>2 DEF AuthTypeOK
    <3>3. QED
      BY <1>8, <3>1, <3>2 DEF BindCreates, AuthTypeOK
<1>9. ASSUME NEW c \in Code, BindFails(c)
      PROVE  AuthTypeOK'
  <2>1. row' \in [Device -> Row]
    BY <1>9, Writes DEF BindFails
  <2>2. grant' \in [Code -> Grant]
    <3> DEFINE doubted == grant[c].doubt \/ row' # row
    <3>1. doubted \in BOOLEAN
      BY DEF AuthTypeOK, Grant
    <3> HIDE DEF doubted
    <3>2. grant' = [grant EXCEPT ![c].stage = IF grant[c].listed THEN "open" ELSE "gone",
                                 ![c].doubt = doubted]
      BY <1>9 DEF BindFails, doubted
    <3> DEFINE stage == IF grant[c].listed THEN "open" ELSE "gone"
    <3>3. grant' = [grant EXCEPT ![c] = [grant[c] EXCEPT !.stage = stage, !.doubt = doubted]]
      BY <3>2
    <3>4. [grant[c] EXCEPT !.stage = stage, !.doubt = doubted] \in Grant
      BY <3>1 DEF AuthTypeOK, Grant, Stage
    <3>5. QED
      BY <3>3, <3>4 DEF AuthTypeOK
  <2>3. QED
    BY <1>9, <2>1, <2>2 DEF BindFails, Fault, AuthTypeOK
<1>10. ASSUME NEW d \in Device, Revoke(d)
       PROVE  AuthTypeOK'
  BY <1>10 DEF Revoke, AuthTypeOK, Row
<1>11. CASE RelayRestarts
  <2>1. row' \in [Device -> Row]
    BY <1>11, Writes DEF RelayRestarts, AuthTypeOK
  <2>2. grant' \in [Code -> Grant]
    <3>1. NoGrant \in Grant
      BY DEF NoGrant, Grant, Stage
    <3>2. \A c \in Code : [grant[c] EXCEPT !.stage = "gone", !.listed = FALSE] \in Grant
      BY DEF AuthTypeOK, Grant, Stage
    <3>3. QED
      BY <1>11, <3>1, <3>2 DEF RelayRestarts
  <2>3. Fault
    BY <1>11 DEF RelayRestarts
  <2>4. QED
    BY <2>1, <2>2, <2>3 DEF Fault, AuthTypeOK
<1>12. CASE UNCHANGED authVars
  BY <1>12 DEF authVars, AuthTypeOK
<1>13. QED
  BY <1>1, <1>2, <1>3, <1>4, <1>5, <1>6, <1>7, <1>8, <1>9, <1>10, <1>11, <1>12 DEF AuthNext

\* The steps that write no row.
LEMMA NoWrites ==
  ASSUME IInv, UNCHANGED row, AuthTypeOK',
         \A c \in Code :
           /\ grant[c].tries <= grant'[c].tries
           /\ grant'[c].stage \in Binding => /\ grant'[c].tries # 0
                                             /\ \/ grant[c].stage \in Binding
                                                   /\ grant'[c].tries = grant[c].tries
                                                \/ grant[c].tries < grant'[c].tries
           /\ grant'[c].doubt = grant[c].doubt
           /\ grant'[c].stage = "unused" => grant'[c] = grant[c]
           /\ Unbound(c)' => Unbound(c)
  PROVE  TriesCount' /\ Binds'
<1>1. TriesCount'
  BY DEF IInv, TriesCount, AuthTypeOK, Grant, Device, Token
<1>2. Binds'
  BY DEF IInv, Binds, Unbound
<1>3. QED
  BY <1>1, <1>2
\* A write of the bind of c, which leaves r and spends the attempt.
LEMMA WritesOnce ==
  ASSUME IInv, NEW c \in Code, grant[c].stage \in Binding,
         row' \in Unsure(c) \cup {Created(c)}, AuthTypeOK',
         \A b \in Code :
           /\ grant[b].tries <= grant'[b].tries
           /\ grant'[b].stage \in Binding => /\ grant[b].stage \in Binding
                                             /\ grant'[b].tries = grant[b].tries
                                             /\ b # c
           /\ grant'[b].stage = "unused" => grant'[b] = NoGrant
           /\ grant[b].doubt => grant'[b].doubt
           /\ Unbound(b)' => Unbound(b) /\ (b # c \/ grant'[b].doubt)
  PROVE  TriesCount' /\ Binds'
<1>1. \A d \in Device : d # TokenOf(c) => row'[d].made = row[d].made
  BY Writes DEF IInv
<1>2. TokenOf(c).code = c
  BY DEF TokenOf
<1>3. TriesCount'
  BY <1>1 DEF IInv, TriesCount, AuthTypeOK, Grant, Device, Token, TokenOf
<1>4. ASSUME NEW b \in Code, ~grant'[b].doubt, Unbound(b)', NEW d \in Device, d.code = b
      PROVE  ~row'[d].made
  <2>1. Unbound(b) /\ b # c /\ ~grant[b].doubt
    BY <1>4 DEF IInv, Binds
  <2>2. QED
    BY <1>1, <1>2, <1>4, <2>1 DEF IInv, Binds
<1>5. ASSUME NEW b \in Code, ~grant'[b].doubt,
             NEW d \in Device, NEW e \in Device, d.code = b, e.code = b,
             row'[d].made, row'[e].made
      PROVE  d = e
  <2>1. CASE b = c
    <3>1. grant'[b].stage # "unused" => ~grant[b].doubt
      BY <1>5
    <3>2. Unbound(c)
      BY DEF Unbound
    <3>3. QED
      BY <1>1, <1>5, <2>1, <3>1, <3>2 DEF IInv, Binds
  <2>2. CASE b # c
    BY <1>1, <1>2, <1>5, <2>2 DEF IInv, Binds
  <2>3. QED
    BY <2>1, <2>2
<1>6. QED
  BY <1>3, <1>4, <1>5 DEF Binds

LEMMA Step == IInv /\ [AuthNext]_authVars => IInv'
<1> SUFFICES ASSUME IInv, [AuthNext]_authVars PROVE IInv'
  OBVIOUS
<1>0. AuthTypeOK' /\ AuthTypeOK
  BY TypeStep DEF IInv
<1>1. ASSUME NEW c \in Code, NEW t \in Token \cup {NoToken}, RequestCode(c, t)
      PROVE  TriesCount' /\ Binds'
  <2>1. /\ \A b \in Code \ {c} : grant'[b] = grant[b]
        /\ grant[c].stage \in {"unused", "checking"}
        /\ grant'[c].stage \in {"open", "checking", "gone"}
        /\ grant'[c].tries = grant[c].tries /\ grant'[c].doubt = grant[c].doubt
        /\ UNCHANGED row
    BY <1>0, <1>1 DEF RequestCode, AuthTypeOK, Grant
  <2>2. QED
    BY <1>0, <2>1, NoWrites DEF Unbound, AuthTypeOK, Grant, Binding, IInv, TriesCount
<1>2. ASSUME NEW c \in Code, CheckEvidence(c)
      PROVE  TriesCount' /\ Binds'
  <2>1. /\ \A b \in Code \ {c} : grant'[b] = grant[b]
        /\ grant[c].stage \in {"unused", "checking"}
        /\ grant'[c].stage \in {"open", "checking", "gone"}
        /\ grant'[c].tries = grant[c].tries /\ grant'[c].doubt = grant[c].doubt
        /\ UNCHANGED row
    BY <1>0, <1>2 DEF CheckEvidence, AuthTypeOK, Grant
  <2>2. QED
    BY <1>0, <2>1, NoWrites DEF Unbound, AuthTypeOK, Grant, Binding, IInv, TriesCount
<1>3. ASSUME NEW c \in Code, CheckFails(c)
      PROVE  TriesCount' /\ Binds'
  <2>1. /\ \A b \in Code \ {c} : grant'[b] = grant[b]
        /\ grant[c].stage \in {"unused", "checking"}
        /\ grant'[c].stage \in {"open", "checking", "gone"}
        /\ grant'[c].tries = grant[c].tries /\ grant'[c].doubt = grant[c].doubt
        /\ UNCHANGED row
    BY <1>0, <1>3 DEF CheckFails, AuthTypeOK, Grant
  <2>2. QED
    BY <1>0, <2>1, NoWrites DEF Unbound, AuthTypeOK, Grant, Binding, IInv, TriesCount
<1>4. ASSUME NEW c \in Code, Expire(c)
      PROVE  TriesCount' /\ Binds'
  BY <1>0, <1>4, NoWrites DEF Expire, Unbound, AuthTypeOK, Grant, IInv, TriesCount
<1>5. ASSUME NEW c \in Code, Evict(c) \/ Deliver(c)
      PROVE  TriesCount' /\ Binds'
  <2>1. /\ \A b \in Code \ {c} : grant'[b] = grant[b]
        /\ grant'[c].stage \in {"gone"} \cup ({grant[c].stage} \cap Binding)
        /\ grant'[c].tries = grant[c].tries /\ grant'[c].doubt = grant[c].doubt
        /\ UNCHANGED row
    <3>1. grant' = [grant EXCEPT ![c] = Unlisted(@)] /\ UNCHANGED row
      BY <1>5 DEF Evict, Deliver
    <3>2. /\ Unlisted(grant[c]).stage \in {"gone"} \cup ({grant[c].stage} \cap Binding)
          /\ Unlisted(grant[c]).tries = grant[c].tries
          /\ Unlisted(grant[c]).doubt = grant[c].doubt
      BY <1>0 DEF Unlisted, AuthTypeOK, Grant
    <3>3. QED
      BY <1>0, <3>1, <3>2 DEF AuthTypeOK
  <2>2. QED
    BY <1>0, <2>1, NoWrites DEF Unbound, AuthTypeOK, Grant, Binding, IInv, TriesCount
<1>6. ASSUME NEW c \in Code, NEW u \in User, Approve(c, u)
      PROVE  TriesCount' /\ Binds'
  <2>1. /\ \A b \in Code \ {c} : grant'[b] = grant[b]
        /\ grant[c].stage = "open" /\ grant'[c].stage \in Binding
        /\ grant'[c].tries = grant[c].tries + 1 /\ grant'[c].doubt = grant[c].doubt
        /\ UNCHANGED row
    BY <1>0, <1>6 DEF Approve, BindFor, Binding, AuthTypeOK, Grant
  <2>2. QED
    BY <1>0, <2>1, NoWrites DEF Unbound, AuthTypeOK, Grant, Binding, IInv, TriesCount
<1>7. ASSUME NEW c \in Code, BindRestores(c)
      PROVE  TriesCount' /\ Binds'
  <2>1. CASE Restorable(c)
    <3>1. row' \in Unsure(c)
      BY <1>7, <2>1 DEF BindRestores, Unsure
    <3>2. QED
      BY <1>0, <1>7, <2>1, <3>1, WritesOnce
         DEF BindRestores, Bound, Unbound, AuthTypeOK, Grant, Binding, IInv, Binds
  <2>2. CASE ~Restorable(c)
    BY <1>0, <1>7, <2>2, NoWrites
       DEF BindRestores, Unbound, AuthTypeOK, Grant, Binding, IInv, TriesCount
  <2>3. QED
    BY <2>1, <2>2
<1>8. ASSUME NEW c \in Code, BindCreates(c)
      PROVE  TriesCount' /\ Binds'
  <2>1. row' = Created(c) /\ grant' = Bound(c, TokenOf(c))
    BY <1>8 DEF BindCreates
  <2>2. /\ \A b \in Code : b # c => grant'[b] = grant[b]
        /\ grant[c].stage = "creating" /\ grant'[c].stage \in {"bound", "gone"}
        /\ grant'[c].tries = grant[c].tries /\ grant'[c].doubt = grant[c].doubt
        /\ \A b \in Code : grant[b].tries \in Nat
    BY <1>0, <1>8, <2>1 DEF BindCreates, Bound, AuthTypeOK, Grant
  <2>3. QED
    BY <1>0, <2>1, <2>2, WritesOnce DEF Unbound, Binding, IInv, Binds
<1>9. ASSUME NEW c \in Code, BindFails(c)
      PROVE  TriesCount' /\ Binds'
  <2>1. CASE row' # row
    BY <1>0, <1>9, <2>1, WritesOnce
       DEF BindFails, Unbound, AuthTypeOK, Grant, Binding, IInv, Binds
  <2>2. CASE row' = row
    BY <1>0, <1>9, <2>2, NoWrites
       DEF BindFails, Unbound, AuthTypeOK, Grant, Binding, IInv, TriesCount
  <2>3. QED
    BY <2>1, <2>2
<1>10. ASSUME NEW d \in Device, Revoke(d)
       PROVE  TriesCount' /\ Binds'
  <2>1. \A e \in Device : row'[e].made = row[e].made
    BY <1>0, <1>10 DEF Revoke, AuthTypeOK, Row
  <2>2. UNCHANGED grant
    BY <1>10 DEF Revoke
  <2>3. TriesCount'
    BY <2>1, <2>2 DEF IInv, TriesCount
  <2>4. Binds'
    BY <2>1, <2>2 DEF IInv, Binds, Unbound
  <2>5. QED
    BY <2>3, <2>4
<1>11. CASE RelayRestarts
  <2>1. \A c \in Code :
          \/ grant[c].stage = "unused" /\ grant'[c] = grant[c] /\ grant'[c] = NoGrant
          \/ /\ grant[c].stage # "unused" /\ grant'[c].stage = "gone"
             /\ grant'[c].tries = grant[c].tries /\ grant'[c].doubt = grant[c].doubt
    BY <1>11 DEF RelayRestarts, IInv, AuthTypeOK, Grant, Binds
  <2>2. \A c \in Code : /\ grant'[c].stage \in {"unused", "gone"}
                         /\ grant'[c].tries = grant[c].tries
                         /\ grant'[c].doubt = grant[c].doubt /\ grant[c].tries \in Nat
    BY <1>0, <2>1 DEF NoGrant, AuthTypeOK, Grant
  <2>3. ASSUME row' = row PROVE TriesCount' /\ Binds'
    BY <1>0, <2>1, <2>2, <2>3, NoWrites DEF Unbound, Binding
  <2>4. ASSUME NEW c \in Code, grant[c].stage \in Binding, row' \in Unsure(c)
        PROVE  TriesCount' /\ Binds'
    BY <1>0, <2>1, <2>2, <2>4, WritesOnce DEF Unbound, Binding
  <2>5. row' = row \/ \E c \in Code : grant[c].stage \in Binding /\ row' \in Unsure(c)
    BY <1>11 DEF RelayRestarts
  <2>6. QED
    BY <1>0, <2>3, <2>4, <2>5 DEF IInv
<1>12. CASE UNCHANGED authVars
  <2>1. TriesCount'
    BY <1>12 DEF authVars, IInv, TriesCount
  <2>2. Binds'
    BY <1>12 DEF authVars, IInv, Binds, Unbound
  <2>3. QED
    BY <1>0, <2>1, <2>2 DEF IInv
<1>13. QED
  BY <1>0, <1>1, <1>2, <1>3, <1>4, <1>5, <1>6, <1>7, <1>8, <1>9, <1>10, <1>11, <1>12
     DEF AuthNext, IInv

LEMMA Invariant == AuthSpec => []IInv
<1>1. AuthInit => IInv
  BY InitIInv
<1>2. IInv /\ [AuthNext]_authVars => IInv'
  BY Step
<1>3. QED
  BY <1>1, <1>2, PTL DEF AuthSpec

\* Every variable stays in its domain.
THEOREM TypeCorrect == AuthSpec => []AuthTypeOK
<1>1. IInv => AuthTypeOK
  BY DEF IInv
<1>2. QED
  BY <1>1, Invariant, PTL

LEMMA OneIsMade == IInv => OneDevicePerCode
<1> SUFFICES ASSUME IInv, NEW c \in Code, ~grant[c].doubt
             PROVE  Cardinality({d \in Device : d.code = c /\ row[d].made}) <= 1
  BY DEF OneDevicePerCode
<1> DEFINE D == {d \in Device : d.code = c /\ row[d].made}
<1>1. ASSUME NEW d \in D PROVE D = {d}
  BY DEF IInv, Binds
<1>2. Cardinality(D) <= 1
  <2> HIDE DEF D
  <2>1. CASE D = {}
    BY <2>1, FS_EmptySet
  <2>2. CASE D # {}
    <3>1. PICK d : D = {d}
      BY <1>1, <2>2
    <3>2. Cardinality(D) = 1
      BY <3>1, FS_Singleton
    <3>3. QED
      BY <3>2
  <2>3. QED
    BY <2>1, <2>2
<1>3. QED
  BY <1>2

\* However often a code is approved, retried after failing calls and overtaken by its expiry
\* or a restart, it makes one device, unless a call failed whose write took effect (approve,
\* bindDevice).
THEOREM OneDevice == AuthSpec => []OneDevicePerCode
  BY OneIsMade, Invariant, PTL

LEMMA OwnersStep ==
  ASSUME IInv, AuthNext \/ UNCHANGED row, NEW d \in Device, row[d].made
  PROVE  /\ row'[d].made /\ row'[d].owner = row[d].owner
         /\ row'[d].token # row[d].token =>
              LET g == grant[row'[d].token.code] IN
                g.user = row[d].owner /\ g.restores = d /\ row[d].revoked
<1> DEFINE Keeps(r) == /\ r[d].made /\ r[d].owner = row[d].owner
                       /\ r[d].token # row[d].token =>
                            /\ grant[r[d].token.code].user = row[d].owner
                            /\ grant[r[d].token.code].restores = d /\ row[d].revoked
<1>1. Keeps(row)
  OBVIOUS
<1>2. ASSUME NEW c \in Code, grant[c].stage = "creating" PROVE Keeps(Created(c))
  <2>1. d # TokenOf(c)
    BY <1>2 DEF IInv, TriesCount, TokenOf, Binding
  <2>2. Created(c)[d] = row[d]
    BY <2>1 DEF Created, IInv, AuthTypeOK
  <2>3. QED
    BY <2>2
<1>3. ASSUME NEW c \in Code, Restorable(c) PROVE Keeps(Restored(c))
  <2>1. CASE d = grant[c].restores
    BY <1>3, <2>1 DEF Restored, Restorable, TokenOf, IInv, AuthTypeOK, Row
  <2>2. CASE d # grant[c].restores
    BY <2>2 DEF Restored, IInv, AuthTypeOK
  <2>3. QED
    BY <2>1, <2>2
<1>4. ASSUME NEW e \in Device, Revoke(e) PROVE Keeps(row')
  BY <1>4 DEF Revoke, IInv, AuthTypeOK, Row
<1>5. ASSUME NEW c \in Code, grant[c].stage \in Binding, NEW r \in Unsure(c) PROVE Keeps(r)
  <2> HIDE DEF Keeps
  <2>1. QED
    BY <1>1, <1>2, <1>3, <1>5 DEF Unsure
<1>6. Keeps(row')
  <2> HIDE DEF Keeps
  <2>1. QED
    BY <1>1, <1>2, <1>3, <1>4, <1>5
       DEF AuthNext, RequestCode, CheckEvidence, CheckFails, Expire, Evict, Approve,
           BindRestores, BindCreates, BindFails, Deliver, RelayRestarts
<1>7. QED
  BY <1>6

\* A device is restored by its owner's approval alone, whatever revocations, failing writes
\* and restarts race the bind (restoreDevice, createDevice).
THEOREM OwnersRestore == AuthSpec => OnlyTheOwnerRestores
<1>1. IInv /\ [AuthNext]_authVars =>
        [\A d \in Device :
           row[d].made =>
             /\ row'[d].made /\ row'[d].owner = row[d].owner
             /\ row'[d].token # row[d].token =>
                  LET g == grant[row'[d].token.code] IN
                    g.user = row[d].owner /\ g.restores = d /\ row[d].revoked]_authVars
  BY OwnersStep
<1>2. QED
  BY <1>1, Invariant, PTL DEF AuthSpec, OnlyTheOwnerRestores

-----------------------------------------------------------------------------
(* The relay under the machine: its steps, and an answer that is lost on its way. *)

AnswerLost ==
  /\ Fault /\ UNCHANGED row
  /\ \E c \in Code : grant[c].stage = "bound" /\ grant' = [grant EXCEPT ![c] = Unlisted(@)]

OnlyAFault == Fault /\ UNCHANGED <<row, grant>>

RelayMoves == AuthNext \/ AnswerLost \/ OnlyAFault \/ UNCHANGED authVars

\* The tokens of the rows were minted, and none is that of a bind in flight.
TokensCount ==
  \A d \in Device : row[d].made =>
    /\ row[d].token \in Token
    /\ row[d].token.try <= grant[row[d].token.code].tries
    /\ grant[row[d].token.code].stage \in Binding =>
         row[d].token.try # grant[row[d].token.code].tries

\* A token is one row's.
OneRow == \A d, e \in Device :
  row[d].made /\ row[e].made /\ row[d].token = row[e].token => d = e

\* What a grant restores was made.
RestoresARow == \A c \in Code :
  /\ grant[c].stage = "restoring" => grant[c].restores # NoToken
  /\ grant[c].restores \in Device => row[grant[c].restores].made

\* The device that a bound code names is the one its token opens.
Names(c, d) ==
  /\ d \in Device /\ row[d].made
  /\ \A e \in Device : row[e].made /\ row[e].token = TokenOf(c) => e = d
BoundTells == \A c \in Code :
  grant[c].stage = "bound" => Names(c, grant[c].device) /\ TokenOf(c) \in Token

RInv == IInv /\ TokensCount /\ OneRow /\ RestoresARow /\ BoundTells

\* A write of the bind of c ends that bind, and gives its token to row e.
WriteOf(c, e) ==
  /\ grant[c].stage \in Binding /\ grant'[c].stage \notin Binding
  /\ grant'[c].tries = grant[c].tries
  /\ row'[e].token = TokenOf(c) /\ TokenOf(c) \in Token /\ row'[e].made
  /\ \A d \in Device \ {e} : row'[d].made = row[d].made /\ row'[d].token = row[d].token

RowsMove ==
  \/ \A d \in Device : row'[d].made = row[d].made /\ row'[d].token = row[d].token
  \/ \E c \in Code, e \in Device : WriteOf(c, e)

RowKept(d) ==
  /\ row'[d].made /\ row'[d].owner = row[d].owner
  /\ \/ row'[d].token = row[d].token /\ (row[d].revoked => row'[d].revoked)
     \/ \E c \in Code : grant[c].stage \in Binding /\ row'[d].token = TokenOf(c)

GrantMoves(c) ==
  /\ grant[c].tries <= grant'[c].tries
  /\ grant'[c].stage \in Binding =>
       \/ grant[c].stage \in Binding /\ grant'[c].tries = grant[c].tries
       \/ grant[c].tries < grant'[c].tries
  /\ grant[c].stage = "gone" => grant'[c].stage = "gone"
  /\ grant[c].stage # "unused" => grant'[c].evidence = grant[c].evidence
  /\ grant'[c].stage = "restoring" => grant'[c].restores # NoToken
  /\ grant'[c].restores \in Device =>
       \/ grant'[c].restores = grant[c].restores
       \/ row[grant'[c].restores].made
  /\ grant'[c].stage = "bound" =>
       /\ grant'[c].tries = grant[c].tries
       /\ \/ grant[c].stage = "bound" /\ grant'[c].device = grant[c].device
          \/ grant'[c].device \in Device /\ WriteOf(c, grant'[c].device)

LEMMA LostStep == IInv /\ AnswerLost => IInv'
<1> SUFFICES ASSUME IInv, AnswerLost PROVE IInv'
  OBVIOUS
<1>1. AuthTypeOK
  BY DEF IInv
<1>2. PICK c \in Code : grant[c].stage = "bound" /\ grant' = [grant EXCEPT ![c] = Unlisted(@)]
  BY DEF AnswerLost
<1>3. Unlisted(grant[c]) \in Grant
  BY <1>1 DEF Unlisted, AuthTypeOK, Grant, Stage, Binding
<1>4. AuthTypeOK'
  BY <1>1, <1>2, <1>3 DEF AnswerLost, Fault, AuthTypeOK
<1>5. /\ \A b \in Code \ {c} : grant'[b] = grant[b]
      /\ grant'[c].stage \in {"gone"} \cup ({grant[c].stage} \cap Binding)
      /\ grant'[c].tries = grant[c].tries /\ grant'[c].doubt = grant[c].doubt
      /\ UNCHANGED row
  <2>1. /\ Unlisted(grant[c]).stage \in {"gone"} \cup ({grant[c].stage} \cap Binding)
        /\ Unlisted(grant[c]).tries = grant[c].tries
        /\ Unlisted(grant[c]).doubt = grant[c].doubt
    BY <1>1 DEF Unlisted, AuthTypeOK, Grant
  <2>2. QED
    BY <1>1, <1>2, <2>1 DEF AnswerLost, AuthTypeOK
<1>6. TriesCount' /\ Binds'
  BY <1>1, <1>4, <1>5, NoWrites DEF Unbound, AuthTypeOK, Grant, Binding, IInv, TriesCount
<1>7. QED
  BY <1>4, <1>6 DEF IInv

LEMMA RelayStepIInv == IInv /\ RelayMoves => IInv'
<1>1. ASSUME IInv, OnlyAFault PROVE IInv'
  <2>1. AuthTypeOK'
    BY <1>1 DEF OnlyAFault, Fault, IInv, AuthTypeOK
  <2>2. TriesCount' /\ Binds'
    BY <1>1 DEF OnlyAFault, IInv, TriesCount, Binds, Unbound
  <2>3. QED
    BY <2>1, <2>2 DEF IInv
<1>2. QED
  BY <1>1, Step, LostStep DEF RelayMoves

\* What a bind writes, and when it ends it.
LEMMA CreateWrites ==
  ASSUME IInv, NEW c \in Code, grant[c].stage = "creating",
         grant'[c].stage \notin Binding, grant'[c].tries = grant[c].tries, row' = Created(c)
  PROVE  /\ TokenOf(c) \in Device /\ WriteOf(c, TokenOf(c))
         /\ row'[TokenOf(c)].owner = grant[c].user
         /\ \A d \in Device : row[d].made => RowKept(d)
<1>1. TokenOf(c) \in Device /\ TokenOf(c) \in Token
  BY DEF IInv, AuthTypeOK, TriesCount, Grant, TokenOf, Device, Token, Binding
<1>2. /\ row'[TokenOf(c)] = [made |-> TRUE, owner |-> grant[c].user,
                             token |-> TokenOf(c), revoked |-> FALSE]
      /\ \A d \in Device : d # TokenOf(c) => row'[d] = row[d]
  BY <1>1 DEF Created, IInv, AuthTypeOK
<1>3. ~row[TokenOf(c)].made
  BY <1>1 DEF IInv, TriesCount, TokenOf, Binding
<1>4. grant[c].stage \in Binding
  BY DEF Binding
<1>5. WriteOf(c, TokenOf(c))
  BY <1>1, <1>2, <1>4 DEF WriteOf
<1>6. \A d \in Device : row[d].made => RowKept(d)
  BY <1>2, <1>3 DEF RowKept
<1>7. QED
  BY <1>1, <1>2, <1>5, <1>6

LEMMA RestoreWrites ==
  ASSUME IInv, RestoresARow, NEW c \in Code, grant[c].stage = "restoring",
         grant'[c].stage \notin Binding, grant'[c].tries = grant[c].tries, row' = Restored(c)
  PROVE  /\ grant[c].restores \in Device /\ WriteOf(c, grant[c].restores)
         /\ \A d \in Device : row[d].made => RowKept(d)
<1>1. TokenOf(c) \in Token /\ grant[c].stage \in Binding
  BY DEF IInv, AuthTypeOK, TriesCount, Grant, TokenOf, Token, Binding
<1>2. grant[c].restores \in Device /\ row[grant[c].restores].made
  BY DEF RestoresARow, IInv, AuthTypeOK, Grant
<1>3. /\ row'[grant[c].restores] = [row[grant[c].restores] EXCEPT !.revoked = FALSE,
                                                                  !.token = TokenOf(c)]
      /\ \A d \in Device : d # grant[c].restores => row'[d] = row[d]
  BY <1>2 DEF Restored, IInv, AuthTypeOK
<1>4. /\ row'[grant[c].restores].made /\ row'[grant[c].restores].token = TokenOf(c)
      /\ row'[grant[c].restores].owner = row[grant[c].restores].owner
  BY <1>2, <1>3 DEF IInv, AuthTypeOK, Row
<1>5. WriteOf(c, grant[c].restores)
  BY <1>1, <1>2, <1>3, <1>4 DEF WriteOf
<1>6. \A d \in Device : row[d].made => RowKept(d)
  BY <1>1, <1>3, <1>4 DEF RowKept
<1>7. QED
  BY <1>2, <1>5, <1>6

\* A write whose call failed, or was cut off.
LEMMA UnsureWrites ==
  ASSUME IInv, RestoresARow, NEW c \in Code, grant[c].stage \in Binding,
         grant'[c].stage \notin Binding, grant'[c].tries = grant[c].tries, row' \in Unsure(c)
  PROVE  RowsMove /\ \A d \in Device : row[d].made => RowKept(d)
<1>1. CASE row' = row
  BY <1>1 DEF RowsMove, RowKept
<1>2. CASE grant[c].stage = "creating" /\ row' = Created(c)
  BY <1>2, CreateWrites DEF RowsMove
<1>3. CASE grant[c].stage = "restoring" /\ row' = Restored(c)
  BY <1>3, RestoreWrites DEF RowsMove
<1>4. QED
  BY <1>1, <1>2, <1>3 DEF Unsure, Binding

\* Where no row is written.
LEMMA NothingWritten ==
  ASSUME \/ UNCHANGED row
         \/ AuthTypeOK /\ \E d \in Device : Revoke(d)
  PROVE  RowsMove /\ \A d \in Device : row[d].made => RowKept(d)
<1>1. CASE UNCHANGED row
  BY <1>1 DEF RowsMove, RowKept
<1>2. ASSUME AuthTypeOK, NEW e \in Device, Revoke(e)
      PROVE  RowsMove /\ \A d \in Device : row[d].made => RowKept(d)
  <2>1. /\ row'[e].made = row[e].made /\ row'[e].token = row[e].token
        /\ row'[e].owner = row[e].owner /\ row'[e].revoked
        /\ \A d \in Device : d # e => row'[d] = row[d]
    BY <1>2 DEF Revoke, AuthTypeOK, Row
  <2>2. QED
    BY <2>1 DEF RowsMove, RowKept
<1>3. QED
  BY <1>1, <1>2

\* A grant that does not move, and one that moves neither to a bind nor to its end.
LEMMA GrantSame ==
  ASSUME IInv, RestoresARow, NEW c \in Code, grant'[c] = grant[c]
  PROVE  GrantMoves(c)
  BY DEF GrantMoves, RestoresARow, IInv, AuthTypeOK, Grant

LEMMA GrantDrops ==
  ASSUME IInv, RestoresARow, NEW c \in Code, grant'[c].tries = grant[c].tries,
         grant'[c].stage \in {"gone", "checking", "open"},
         grant[c].stage = "gone" => grant'[c].stage = "gone",
         grant[c].stage # "unused" => grant'[c].evidence = grant[c].evidence,
         \/ grant'[c].restores = grant[c].restores
         \/ grant'[c].restores = NoToken
         \/ row[grant'[c].restores].made
  PROVE  GrantMoves(c)
<1>1. NoToken \notin Device
  BY DEF NoToken, Device, Token
<1>2. grant[c].tries \in Nat
  BY DEF IInv, AuthTypeOK, Grant
<1>3. QED
  BY <1>1, <1>2 DEF GrantMoves, Binding

RelayEffect ==
  /\ RowsMove
  /\ \A d \in Device : row[d].made => RowKept(d)
  /\ \A c \in Code : GrantMoves(c)

LEMMA RelaySummary == IInv /\ RestoresARow /\ RelayMoves => RelayEffect
<1> SUFFICES ASSUME IInv, RestoresARow, RelayMoves PROVE RelayEffect
  OBVIOUS
<1>0. AuthTypeOK /\ NoToken \notin Device
  BY DEF IInv, NoToken, Device, Token
<1>1. ASSUME NEW c \in Code, NEW t \in Token \cup {NoToken}, RequestCode(c, t)
      PROVE  RelayEffect
  <2>1. /\ \A b \in Code \ {c} : grant'[b] = grant[b]
        /\ grant[c].stage = "unused" /\ grant'[c].stage \in {"open", "checking"}
        /\ grant'[c].tries = grant[c].tries /\ grant'[c].restores = grant[c].restores
        /\ UNCHANGED row
    BY <1>0, <1>1 DEF RequestCode, AuthTypeOK, Grant
  <2>2. GrantMoves(c)
    BY <2>1, GrantDrops
  <2>3. QED
    BY <2>1, <2>2, GrantSame, NothingWritten DEF RelayEffect
<1>2. ASSUME NEW c \in Code, CheckEvidence(c)
      PROVE  RelayEffect
  <2>1. /\ \A b \in Code \ {c} : grant'[b] = grant[b]
        /\ grant[c].stage = "checking" /\ grant'[c].stage = "open"
        /\ grant'[c].tries = grant[c].tries /\ grant'[c].evidence = grant[c].evidence
        /\ grant'[c].restores = NoToken \/ row[grant'[c].restores].made
        /\ UNCHANGED row
    BY <1>0, <1>2 DEF CheckEvidence, RevokedBy, AuthTypeOK, Grant
  <2>2. GrantMoves(c)
    BY <2>1, GrantDrops
  <2>3. QED
    BY <2>1, <2>2, GrantSame, NothingWritten DEF RelayEffect
<1>3. ASSUME NEW c \in Code, CheckFails(c)
      PROVE  RelayEffect
  <2>1. /\ \A b \in Code \ {c} : grant'[b] = grant[b]
        /\ grant'[c].stage = "gone"
        /\ grant'[c].tries = grant[c].tries /\ grant'[c].evidence = grant[c].evidence
        /\ grant'[c].restores = grant[c].restores
        /\ UNCHANGED row
    BY <1>0, <1>3 DEF CheckFails, AuthTypeOK, Grant
  <2>2. GrantMoves(c)
    BY <2>1, GrantDrops
  <2>3. QED
    BY <2>1, <2>2, GrantSame, NothingWritten DEF RelayEffect
<1>4. ASSUME NEW c \in Code, Expire(c)
      PROVE  RelayEffect
  <2>1. \A b \in Code : b # c => grant'[b] = grant[b]
    BY <1>0, <1>4 DEF Expire, AuthTypeOK
  <2>2. grant'[c] = [grant[c] EXCEPT !.expired = TRUE]
    BY <1>0, <1>4 DEF Expire, AuthTypeOK
  <2>3. /\ grant'[c].stage = grant[c].stage /\ grant'[c].tries = grant[c].tries
        /\ grant'[c].evidence = grant[c].evidence /\ grant'[c].restores = grant[c].restores
        /\ grant'[c].device = grant[c].device /\ grant[c].tries \in Nat
    BY <1>0, <2>2 DEF AuthTypeOK, Grant
  <2>4. GrantMoves(c)
    BY <2>3 DEF GrantMoves, RestoresARow
  <2>5. UNCHANGED row
    BY <1>4 DEF Expire
  <2>6. QED
    BY <2>1, <2>4, <2>5, GrantSame, NothingWritten DEF RelayEffect
<1>5. ASSUME NEW c \in Code, grant' = [grant EXCEPT ![c] = Unlisted(@)], UNCHANGED row
      PROVE  RelayEffect
  <2>1. \A b \in Code : b # c => grant'[b] = grant[b]
    BY <1>0, <1>5 DEF AuthTypeOK
  <2>2. grant'[c] = Unlisted(grant[c])
    BY <1>0, <1>5 DEF AuthTypeOK
  <2>3. /\ grant'[c].stage = IF grant[c].stage \in Binding THEN grant[c].stage ELSE "gone"
        /\ grant'[c].tries = grant[c].tries /\ grant[c].tries \in Nat
        /\ grant'[c].evidence = grant[c].evidence /\ grant'[c].restores = grant[c].restores
    BY <1>0, <2>2 DEF Unlisted, AuthTypeOK, Grant
  <2>4. GrantMoves(c)
    BY <2>3 DEF GrantMoves, RestoresARow, Binding
  <2>5. QED
    BY <1>5, <2>1, <2>4, GrantSame, NothingWritten DEF RelayEffect
<1>6. ASSUME NEW c \in Code, NEW u \in User, Approve(c, u)
      PROVE  RelayEffect
  <2>1. \A b \in Code : b # c => grant'[b] = grant[b]
    BY <1>0, <1>6 DEF Approve, AuthTypeOK
  <2>2. /\ grant[c].stage = "open" /\ grant'[c].stage = BindFor(c, u)
        /\ grant'[c].tries = grant[c].tries + 1 /\ grant[c].tries \in Nat
        /\ grant'[c].evidence = grant[c].evidence /\ grant'[c].restores = grant[c].restores
    BY <1>0, <1>6 DEF Approve, AuthTypeOK, Grant
  <2>3. /\ BindFor(c, u) \in Binding
        /\ BindFor(c, u) = "restoring" => grant[c].restores # NoToken
    BY DEF BindFor, Binding
  <2>4. grant[c].tries <= grant'[c].tries /\ grant[c].tries < grant'[c].tries
    BY <2>2
  <2>5. GrantMoves(c)
    BY <2>2, <2>3, <2>4 DEF GrantMoves, RestoresARow, Binding
  <2>6. UNCHANGED row
    BY <1>6 DEF Approve
  <2>7. QED
    BY <2>1, <2>5, <2>6, GrantSame, NothingWritten DEF RelayEffect
<1>7. ASSUME NEW c \in Code, BindRestores(c)
      PROVE  RelayEffect
  <2>1. \A b \in Code : b # c => grant'[b] = grant[b]
    BY <1>0, <1>7 DEF BindRestores, Bound, AuthTypeOK
  <2>2. CASE Restorable(c)
    <3>1. row' = Restored(c) /\ grant' = Bound(c, grant[c].restores)
      BY <1>7, <2>2 DEF BindRestores
    <3>2. /\ grant[c].stage = "restoring" /\ grant'[c].stage \in {"bound", "gone"}
          /\ grant'[c].tries = grant[c].tries /\ grant[c].tries \in Nat
          /\ grant'[c].evidence = grant[c].evidence
          /\ grant'[c].restores = grant[c].restores
          /\ grant'[c].device = grant[c].restores
      BY <1>0, <1>7, <3>1 DEF BindRestores, Bound, AuthTypeOK, Grant
    <3>3. /\ grant[c].restores \in Device /\ WriteOf(c, grant[c].restores)
          /\ \A d \in Device : row[d].made => RowKept(d)
      BY <3>1, <3>2, RestoreWrites DEF Binding
    <3>4. GrantMoves(c)
      BY <3>2, <3>3 DEF GrantMoves, Binding
    <3>5. QED
      BY <2>1, <3>3, <3>4, GrantSame DEF RelayEffect, RowsMove
  <2>3. CASE ~Restorable(c)
    <3>1. UNCHANGED row /\ grant' = [grant EXCEPT ![c].stage = "creating"]
      BY <1>7, <2>3 DEF BindRestores
    <3>2. /\ grant[c].stage = "restoring" /\ grant'[c].stage = "creating"
          /\ grant'[c].tries = grant[c].tries /\ grant[c].tries \in Nat
          /\ grant'[c].evidence = grant[c].evidence
          /\ grant'[c].restores = grant[c].restores
      BY <1>0, <1>7, <3>1 DEF BindRestores, AuthTypeOK, Grant
    <3>3. GrantMoves(c)
      BY <3>2 DEF GrantMoves, Binding
    <3>4. QED
      BY <2>1, <3>1, <3>3, GrantSame, NothingWritten DEF RelayEffect
  <2>4. QED
    BY <2>2, <2>3
<1>8. ASSUME NEW c \in Code, BindCreates(c)
      PROVE  RelayEffect
  <2>1. \A b \in Code : b # c => grant'[b] = grant[b]
    BY <1>0, <1>8 DEF BindCreates, Bound, AuthTypeOK
  <2>2. row' = Created(c) /\ grant' = Bound(c, TokenOf(c))
    BY <1>8 DEF BindCreates
  <2>3. /\ grant[c].stage = "creating" /\ grant'[c].stage \in {"bound", "gone"}
        /\ grant'[c].tries = grant[c].tries /\ grant[c].tries \in Nat
        /\ grant'[c].evidence = grant[c].evidence
        /\ grant'[c].restores = grant[c].restores
        /\ grant'[c].device = TokenOf(c)
    BY <1>0, <1>8, <2>2 DEF BindCreates, Bound, AuthTypeOK, Grant
  <2>4. /\ TokenOf(c) \in Device /\ WriteOf(c, TokenOf(c))
        /\ \A d \in Device : row[d].made => RowKept(d)
    BY <2>2, <2>3, CreateWrites DEF Binding
  <2>5. GrantMoves(c)
    BY <2>3, <2>4 DEF GrantMoves, Binding, RestoresARow
  <2>6. QED
    BY <2>1, <2>4, <2>5, GrantSame DEF RelayEffect, RowsMove
<1>9. ASSUME NEW c \in Code, BindFails(c)
      PROVE  RelayEffect
  <2>1. \A b \in Code : b # c => grant'[b] = grant[b]
    BY <1>0, <1>9 DEF BindFails, AuthTypeOK
  <2>2. /\ grant[c].stage \in Binding /\ grant'[c].stage \in {"open", "gone"}
        /\ grant'[c].tries = grant[c].tries
        /\ grant'[c].evidence = grant[c].evidence
        /\ grant'[c].restores = grant[c].restores
    BY <1>0, <1>9 DEF BindFails, AuthTypeOK, Grant
  <2>3. RowsMove /\ \A d \in Device : row[d].made => RowKept(d)
    BY <1>9, <2>2, UnsureWrites DEF BindFails, Binding
  <2>4. GrantMoves(c)
    BY <2>2, GrantDrops DEF Binding
  <2>5. QED
    BY <2>1, <2>3, <2>4, GrantSame DEF RelayEffect
<1>10. ASSUME NEW d \in Device, Revoke(d)
       PROVE  RelayEffect
  <2>1. \A c \in Code : grant'[c] = grant[c]
    BY <1>10 DEF Revoke
  <2>2. QED
    BY <1>0, <1>10, <2>1, GrantSame, NothingWritten DEF RelayEffect
<1>11. ASSUME RelayRestarts
       PROVE  RelayEffect
  <2>1. \A c \in Code :
          \/ grant'[c] = grant[c]
          \/ /\ grant'[c].stage = "gone" /\ grant'[c].tries = grant[c].tries
             /\ grant'[c].evidence = grant[c].evidence
             /\ grant'[c].restores = grant[c].restores
    <3>1. \A c \in Code : grant[c].stage = "unused" => grant'[c] = grant[c]
      BY <1>11 DEF RelayRestarts, IInv, Binds
    <3>2. \A c \in Code : grant[c].stage # "unused" =>
            grant'[c] = [grant[c] EXCEPT !.stage = "gone", !.listed = FALSE]
      BY <1>11 DEF RelayRestarts
    <3>3. \A c \in Code : grant[c] \in Grant
      BY <1>0 DEF AuthTypeOK
    <3>4. QED
      BY <3>1, <3>2, <3>3 DEF Grant
  <2>2. \A c \in Code : GrantMoves(c)
    BY <2>1, GrantSame, GrantDrops
  <2>3. ASSUME NEW c \in Code, grant[c].stage \in Binding
        PROVE  grant'[c].stage \notin Binding /\ grant'[c].tries = grant[c].tries
    BY <1>0, <1>11, <2>3 DEF RelayRestarts, Binding, AuthTypeOK, Grant
  <2>4. RowsMove /\ \A d \in Device : row[d].made => RowKept(d)
    BY <1>11, <2>3, UnsureWrites, NothingWritten DEF RelayRestarts
  <2>5. QED
    BY <2>2, <2>4 DEF RelayEffect
<1>12. ASSUME NEW c \in Code, Evict(c) \/ Deliver(c)
       PROVE  RelayEffect
  BY <1>5, <1>12 DEF Evict, Deliver
<1>13. CASE AnswerLost
  BY <1>5, <1>13 DEF AnswerLost
<1>14. CASE OnlyAFault \/ UNCHANGED authVars
  BY <1>14, GrantSame, NothingWritten DEF OnlyAFault, authVars, RelayEffect
<1>15. QED
  BY <1>1, <1>2, <1>3, <1>4, <1>6, <1>7, <1>8, <1>9, <1>10, <1>11, <1>12, <1>13, <1>14
     DEF RelayMoves, AuthNext

LEMMA RelayStepRInv == RInv /\ RelayMoves => RInv'
<1> SUFFICES ASSUME RInv, RelayMoves PROVE RInv'
  OBVIOUS
<1>1. IInv /\ IInv' /\ AuthTypeOK
  BY RelayStepIInv DEF RInv, IInv
<1>2. /\ RowsMove
      /\ \A d \in Device : row[d].made => RowKept(d)
      /\ \A c \in Code : GrantMoves(c)
  BY RelaySummary DEF RInv, RelayEffect
<1>3. \A c \in Code : TokenOf(c) = [code |-> c, try |-> grant[c].tries]
                       /\ TokenOf(c)' = [code |-> c, try |-> grant'[c].tries]
  BY DEF TokenOf
<1>4. \A c \in Code : grant[c].tries \in Nat /\ grant'[c].tries \in Nat
  BY <1>1 DEF IInv, AuthTypeOK, Grant
<1>5. \A t \in Token : t.code \in Code /\ t.try \in Nat
  BY DEF Token
\* The token that a bind mints is new.
<1>6. ASSUME NEW c \in Code, NEW d \in Device, grant[c].stage \in Binding, row[d].made
      PROVE  row[d].token # TokenOf(c)
  BY <1>3, <1>6 DEF RInv, TokensCount
<1>7. TokensCount'
  <2> SUFFICES ASSUME NEW d \in Device, row'[d].made
               PROVE  /\ row'[d].token \in Token
                      /\ row'[d].token.try <= grant'[row'[d].token.code].tries
                      /\ grant'[row'[d].token.code].stage \in Binding =>
                           row'[d].token.try # grant'[row'[d].token.code].tries
    BY DEF TokensCount
  <2>1. CASE row'[d].made = row[d].made /\ row'[d].token = row[d].token
    <3> DEFINE t == row[d].token
    <3>1. t \in Token /\ t.try <= grant[t.code].tries
          /\ (grant[t.code].stage \in Binding => t.try # grant[t.code].tries)
      BY <2>1 DEF RInv, TokensCount
    <3>2. t.code \in Code /\ t.try \in Nat /\ row'[d].token = t
      BY <1>5, <2>1, <3>1
    <3> HIDE DEF t
    <3>3. /\ grant[t.code].tries <= grant'[t.code].tries
          /\ grant'[t.code].stage \in Binding =>
               \/ grant[t.code].stage \in Binding /\ grant'[t.code].tries = grant[t.code].tries
               \/ grant[t.code].tries < grant'[t.code].tries
      BY <1>2, <3>2 DEF GrantMoves
    <3>4. QED
      BY <1>4, <3>1, <3>2, <3>3
  <2>2. ASSUME NEW c \in Code, WriteOf(c, d) PROVE row'[d].token = TokenOf(c)
                                                  /\ TokenOf(c) \in Token
                                                  /\ grant'[c].tries = grant[c].tries
                                                  /\ grant'[c].stage \notin Binding
    BY <2>2 DEF WriteOf
  <2>3. QED
    <3>1. CASE \E c \in Code : WriteOf(c, d)
      BY <1>3, <1>4, <2>2, <3>1
    <3>2. QED
      BY <1>2, <2>1, <3>1 DEF RowsMove, WriteOf
<1>8. OneRow'
  <2> SUFFICES ASSUME NEW d \in Device, NEW e \in Device, row'[d].made, row'[e].made,
                      row'[d].token = row'[e].token
               PROVE  d = e
    BY DEF OneRow
  <2>1. CASE \A f \in Device : row'[f].made = row[f].made /\ row'[f].token = row[f].token
    BY <2>1 DEF RInv, OneRow
  <2>2. ASSUME NEW c \in Code, NEW f \in Device, WriteOf(c, f) PROVE d = e
    BY <1>6, <2>2 DEF RInv, OneRow, WriteOf
  <2>3. QED
    BY <1>2, <2>1, <2>2 DEF RowsMove
<1>9. RestoresARow'
  BY <1>2 DEF RInv, RestoresARow, GrantMoves, RowKept
<1>10. BoundTells'
  <2> SUFFICES ASSUME NEW c \in Code, grant'[c].stage = "bound"
               PROVE  /\ TokenOf(c)' \in Token
                      /\ grant'[c].device \in Device /\ row'[grant'[c].device].made
                      /\ \A e \in Device : row'[e].made /\ row'[e].token = TokenOf(c)' =>
                           e = grant'[c].device
    BY DEF BoundTells, Names
  <2>1. grant'[c].tries = grant[c].tries /\ TokenOf(c)' = TokenOf(c)
    BY <1>2, <1>3 DEF GrantMoves
  <2>2. CASE grant[c].stage = "bound" /\ grant'[c].device = grant[c].device
    <3>1. /\ TokenOf(c) \in Token /\ grant[c].device \in Device
          /\ row[grant[c].device].made
          /\ \A e \in Device : row[e].made /\ row[e].token = TokenOf(c) => e = grant[c].device
      BY <2>2 DEF RInv, BoundTells, Names
    <3>2. row'[grant[c].device].made
      BY <1>2, <3>1 DEF RowKept
    <3>3. ASSUME NEW e \in Device, row'[e].made, row'[e].token = TokenOf(c)
          PROVE  e = grant[c].device
      <4>1. CASE row'[e].made = row[e].made /\ row'[e].token = row[e].token
        BY <3>1, <3>3, <4>1
      <4>2. ASSUME NEW b \in Code, WriteOf(b, e) PROVE FALSE
        <5>1. row'[e].token = TokenOf(b) /\ grant[b].stage \in Binding
          BY <4>2 DEF WriteOf
        <5>2. TokenOf(b).code = b /\ TokenOf(c).code = c
          BY DEF TokenOf
        <5>3. b = c
          BY <3>3, <5>1, <5>2
        <5>4. QED
          BY <2>2, <5>1, <5>3 DEF Binding
      <4>3. QED
        BY <1>2, <4>1, <4>2 DEF RowsMove, WriteOf
    <3>4. QED
      BY <2>1, <2>2, <3>1, <3>2, <3>3
  <2>3. CASE grant'[c].device \in Device /\ WriteOf(c, grant'[c].device)
    BY <1>6, <2>1, <2>3 DEF WriteOf
  <2>4. QED
    BY <1>2, <2>2, <2>3 DEF GrantMoves
<1>11. QED
  BY <1>1, <1>7, <1>8, <1>9, <1>10 DEF RInv

LEMMA InitRInv == AuthInit => RInv
<1> SUFFICES ASSUME AuthInit PROVE RInv
  OBVIOUS
<1>1. \A d \in Device : ~row[d].made
  BY DEF AuthInit, NoRow
<1>2. \A c \in Code : grant[c].stage = "unused" /\ grant[c].restores = NoToken
  BY DEF AuthInit, NoGrant
<1>3. NoToken \notin Device
  BY DEF NoToken, Device, Token
<1>4. QED
  BY <1>1, <1>2, <1>3, InitIInv DEF RInv, TokensCount, OneRow, RestoresARow, BoundTells

-----------------------------------------------------------------------------
(* What an approval aims at: the row that the evidence of its code found. *)

AimMoves(c) ==
  /\ grant[c].stage = "checking" =>
       \/ grant'[c].stage \in {"checking", "gone"}
       \/ /\ grant'[c].stage = "open"
          /\ RevokedBy(grant[c].evidence) # {} =>
               grant'[c].restores \in RevokedBy(grant[c].evidence)
  /\ grant[c].stage \notin {"unused", "checking"} => grant'[c].restores = grant[c].restores
  /\ grant'[c].stage = "creating" =>
       \/ grant[c].stage = "creating" /\ grant'[c].user = grant[c].user
       \/ /\ grant[c].stage \in {"open", "restoring"}
          /\ grant[c].restores # NoToken /\ row[grant[c].restores].revoked =>
               row[grant[c].restores].owner # grant'[c].user
  /\ grant'[c].stage = "bound" =>
       \/ grant[c].stage = "bound" /\ grant'[c].device = grant[c].device
       \/ grant[c].stage = "restoring" /\ grant'[c].device = grant[c].restores
       \/ grant[c].stage = "creating" /\ row'[grant'[c].device].owner = grant[c].user

LEMMA AimSame ==
  ASSUME NEW c \in Code, grant[c] \in Grant,
         \/ grant'[c] = grant[c]
         \/ grant'[c] = [grant[c] EXCEPT !.expired = TRUE]
         \/ grant'[c] = Unlisted(grant[c])
         \/ /\ grant'[c].stage \in {"open", "gone"} /\ grant[c].stage # "checking"
            /\ grant'[c].restores = grant[c].restores
         \/ grant'[c].stage = "gone" /\ grant'[c].restores = grant[c].restores
  PROVE  AimMoves(c)
<1>1. CASE grant'[c] = [grant[c] EXCEPT !.expired = TRUE]
  <2>1. /\ grant'[c].stage = grant[c].stage /\ grant'[c].restores = grant[c].restores
        /\ grant'[c].user = grant[c].user /\ grant'[c].device = grant[c].device
    BY <1>1 DEF Grant
  <2>2. QED
    BY <2>1 DEF AimMoves
<1>2. CASE grant'[c] = Unlisted(grant[c])
  <2>1. /\ grant'[c].stage = IF grant[c].stage \in Binding THEN grant[c].stage ELSE "gone"
        /\ grant'[c].restores = grant[c].restores
        /\ grant'[c].user = grant[c].user /\ grant'[c].device = grant[c].device
    BY <1>2 DEF Unlisted, Grant
  <2>2. QED
    BY <2>1 DEF AimMoves, Binding
<1>3. QED
  BY <1>1, <1>2 DEF AimMoves

LEMMA AimSummary == RInv /\ RelayMoves => \A c \in Code : AimMoves(c)
<1> SUFFICES ASSUME RInv, RelayMoves, NEW c \in Code PROVE AimMoves(c)
  OBVIOUS
<1>0. AuthTypeOK /\ grant[c] \in Grant
  BY DEF RInv, IInv, AuthTypeOK
<1>1. ASSUME NEW t \in Token \cup {NoToken}, RequestCode(c, t)
      PROVE  AimMoves(c)
  <2>1. grant[c].stage = "unused" /\ grant'[c].stage \in {"open", "checking"}
    BY <1>0, <1>1 DEF RequestCode, AuthTypeOK, Grant
  <2>2. QED
    BY <2>1 DEF AimMoves
<1>2. ASSUME CheckEvidence(c)
      PROVE  AimMoves(c)
  <2>1. PICK d \in RevokedBy(grant[c].evidence) \cup {NoToken} :
          /\ d = NoToken => RevokedBy(grant[c].evidence) = {}
          /\ grant' = [grant EXCEPT ![c].stage = "open", ![c].listed = TRUE,
                                    ![c].restores = d]
    BY <1>2 DEF CheckEvidence
  <2>2. grant'[c].stage = "open" /\ grant'[c].restores = d /\ grant[c].stage = "checking"
    BY <1>0, <1>2, <2>1 DEF CheckEvidence, AuthTypeOK, Grant
  <2>3. QED
    BY <2>1, <2>2 DEF AimMoves
<1>3. ASSUME CheckFails(c)
      PROVE  AimMoves(c)
  <2>1. grant'[c].stage = "gone" /\ grant'[c].restores = grant[c].restores
    BY <1>0, <1>3 DEF CheckFails, AuthTypeOK, Grant
  <2>2. QED
    BY <1>0, <2>1, AimSame
<1>4. ASSUME Expire(c)
      PROVE  AimMoves(c)
  <2>1. grant'[c] = [grant[c] EXCEPT !.expired = TRUE]
    BY <1>0, <1>4 DEF Expire, AuthTypeOK
  <2>2. QED
    BY <1>0, <2>1, AimSame
<1>5. ASSUME grant' = [grant EXCEPT ![c] = Unlisted(@)]
      PROVE  AimMoves(c)
  <2>1. grant'[c] = Unlisted(grant[c])
    BY <1>0, <1>5 DEF AuthTypeOK
  <2>2. QED
    BY <1>0, <2>1, AimSame
<1>6. ASSUME NEW u \in User, Approve(c, u)
      PROVE  AimMoves(c)
  <2>1. /\ grant[c].stage = "open" /\ grant'[c].stage = BindFor(c, u)
        /\ grant'[c].user = u /\ grant'[c].restores = grant[c].restores
    BY <1>0, <1>6 DEF Approve, AuthTypeOK, Grant
  <2>2. QED
    BY <2>1 DEF AimMoves, BindFor
<1>7. ASSUME BindRestores(c)
      PROVE  AimMoves(c)
  <2>1. CASE Restorable(c)
    <3>1. /\ grant[c].stage = "restoring" /\ grant'[c].stage \in {"bound", "gone"}
          /\ grant'[c].restores = grant[c].restores
          /\ grant'[c].device = grant[c].restores
      BY <1>0, <1>7, <2>1 DEF BindRestores, Bound, AuthTypeOK, Grant
    <3>2. QED
      BY <3>1 DEF AimMoves
  <2>2. CASE ~Restorable(c)
    <3>1. /\ grant[c].stage = "restoring" /\ grant'[c].stage = "creating"
          /\ grant'[c].restores = grant[c].restores /\ grant'[c].user = grant[c].user
      BY <1>0, <1>7, <2>2 DEF BindRestores, AuthTypeOK, Grant
    <3>2. QED
      BY <2>2, <3>1 DEF AimMoves, Restorable
  <2>3. QED
    BY <2>1, <2>2
<1>8. ASSUME BindCreates(c)
      PROVE  AimMoves(c)
  <2>1. row' = Created(c) /\ grant' = Bound(c, TokenOf(c))
    BY <1>8 DEF BindCreates
  <2>2. /\ grant[c].stage = "creating" /\ grant'[c].stage \in {"bound", "gone"}
        /\ grant'[c].tries = grant[c].tries
        /\ grant'[c].restores = grant[c].restores /\ grant'[c].device = TokenOf(c)
    BY <1>0, <1>8, <2>1 DEF BindCreates, Bound, AuthTypeOK, Grant
  <2>3. row'[TokenOf(c)].owner = grant[c].user
    BY <2>1, <2>2, CreateWrites DEF RInv, Binding
  <2>4. QED
    BY <2>2, <2>3 DEF AimMoves
<1>9. ASSUME BindFails(c)
      PROVE  AimMoves(c)
  <2>1. /\ grant[c].stage \in Binding /\ grant'[c].stage \in {"open", "gone"}
        /\ grant'[c].restores = grant[c].restores
    BY <1>0, <1>9 DEF BindFails, AuthTypeOK, Grant
  <2>2. QED
    BY <1>0, <2>1, AimSame DEF Binding
<1>10. CASE grant'[c] = grant[c]
  BY <1>0, <1>10, AimSame
<1>11. CASE RelayRestarts
  <2>1. CASE grant[c].stage = "unused"
    <3>1. grant'[c].stage = "unused"
      BY <1>11, <2>1 DEF RelayRestarts, NoGrant
    <3>2. QED
      BY <2>1, <3>1 DEF AimMoves
  <2>2. CASE grant[c].stage # "unused"
    <3>1. grant'[c].stage = "gone" /\ grant'[c].restores = grant[c].restores
      BY <1>0, <1>11, <2>2 DEF RelayRestarts, AuthTypeOK, Grant
    <3>2. QED
      BY <1>0, <3>1, AimSame
  <2>3. QED
    BY <2>1, <2>2
\* The steps of another code.
<1>12. ASSUME NEW b \in Code, b # c,
              \/ \E t \in Token \cup {NoToken} : RequestCode(b, t)
              \/ CheckEvidence(b) \/ CheckFails(b) \/ Expire(b) \/ Evict(b) \/ Deliver(b)
              \/ \E u \in User : Approve(b, u)
              \/ BindRestores(b) \/ BindCreates(b) \/ BindFails(b)
       PROVE  grant'[c] = grant[c]
  BY <1>0, <1>12 DEF RequestCode, CheckEvidence, CheckFails, Expire, Evict, Deliver, Approve,
       BindRestores, BindCreates, BindFails, Bound, AuthTypeOK
<1>13. CASE AnswerLost
  <2>1. PICK b \in Code : grant' = [grant EXCEPT ![b] = Unlisted(@)]
    BY <1>13 DEF AnswerLost
  <2>2. CASE b # c
    BY <1>0, <1>10, <2>1, <2>2 DEF AuthTypeOK
  <2>3. QED
    BY <1>5, <2>1, <2>2
<1>14. ASSUME Evict(c) \/ Deliver(c)
       PROVE  AimMoves(c)
  BY <1>5, <1>14 DEF Evict, Deliver
<1>15. CASE OnlyAFault \/ UNCHANGED authVars \/ \E d \in Device : Revoke(d)
  BY <1>10, <1>15 DEF OnlyAFault, authVars, Revoke
<1>16. ASSUME NEW b \in Code,
              \/ \E t \in Token \cup {NoToken} : RequestCode(b, t)
              \/ CheckEvidence(b) \/ CheckFails(b) \/ Expire(b) \/ Evict(b) \/ Deliver(b)
              \/ \E u \in User : Approve(b, u)
              \/ BindRestores(b) \/ BindCreates(b) \/ BindFails(b)
       PROVE  AimMoves(c)
  <2>1. CASE b # c
    BY <1>10, <1>12, <1>16, <2>1
  <2>2. CASE b = c
    BY <1>1, <1>2, <1>3, <1>4, <1>6, <1>7, <1>8, <1>9, <1>14, <1>16, <2>2
  <2>3. QED
    BY <2>1, <2>2
<1>17. QED
  BY <1>11, <1>13, <1>15, <1>16 DEF RelayMoves, AuthNext

\* Credentials that a poll fetched: the grant of their token is over.
Spent(m) ==
  /\ m.token \in Token /\ m.device \in Device
  /\ row[m.device].made /\ grant[m.token.code].stage = "gone"

\* A spent token gets no row any more, and a row that lost it does not get it back.
LEMMA SpentStays ==
  ASSUME RInv, RelayMoves, NEW m, Spent(m)
  PROVE  /\ row'[m.device].made /\ row'[m.device].owner = row[m.device].owner
         /\ grant'[m.token.code].stage = "gone"
         /\ \A d \in Device : row'[d].made /\ row'[d].token = m.token =>
              row[d].made /\ row[d].token = m.token
         /\ row'[m.device].token = m.token /\ row[m.device].revoked => row'[m.device].revoked
<1>1. RelayEffect
  BY RelaySummary DEF RInv
<1>2. m.token.code \in Code /\ row[m.device].made
  BY DEF Spent, Token
<1>3. ASSUME NEW c \in Code, grant[c].stage \in Binding PROVE TokenOf(c) # m.token
  BY <1>3 DEF Spent, TokenOf, Binding
<1>4. RowKept(m.device)
  BY <1>1, <1>2 DEF RelayEffect, Spent
<1>5. row'[m.device].made /\ row'[m.device].owner = row[m.device].owner
  BY <1>4 DEF RowKept
<1>6. grant'[m.token.code].stage = "gone"
  BY <1>1, <1>2 DEF RelayEffect, GrantMoves, Spent
<1>7. ASSUME NEW d \in Device, row'[d].made, row'[d].token = m.token
      PROVE  row[d].made /\ row[d].token = m.token
  BY <1>1, <1>3, <1>7 DEF RelayEffect, RowsMove, WriteOf
<1>8. row'[m.device].token = m.token /\ row[m.device].revoked => row'[m.device].revoked
  BY <1>3, <1>4 DEF RowKept
<1>9. QED
  BY <1>5, <1>6, <1>7, <1>8

\* A code asked for with the token of d restores d, unless it is over or another user than
\* the owner of d approved it.
Aimed(c, d) ==
  /\ grant[c].stage = "checking" \/ grant[c].restores = d \/ grant[c].stage = "gone"
  /\ grant[c].stage = "creating" => grant[c].user # row[d].owner
  /\ grant[c].stage = "bound" => row[grant[c].device].owner # row[d].owner

LEMMA AimStays ==
  ASSUME RInv, RelayMoves, NEW c \in Code, NEW m, Spent(m),
         row[m.device].token = m.token, row[m.device].revoked,
         row'[m.device].token = m.token,
         grant[c].evidence = m.token, Aimed(c, m.device)
  PROVE  /\ \/ grant'[c].stage \in {"checking", "gone"}
            \/ grant'[c].restores = m.device
         /\ grant'[c].stage = "creating" => grant'[c].user # row'[m.device].owner
         /\ grant'[c].stage = "bound" =>
              row'[grant'[c].device].owner # row'[m.device].owner
<1> DEFINE d == m.device
<1>1. AimMoves(c) /\ RelayEffect /\ GrantMoves(c)
  BY AimSummary, RelaySummary DEF RInv, RelayEffect
<1>2. row'[d].owner = row[d].owner /\ d \in Device /\ row[d].made /\ d # NoToken
  BY SpentStays DEF Spent, Device, Token, NoToken
<1>3. grant[c].stage # "unused"
  BY DEF RInv, IInv, Binds, NoGrant, Spent, Token, NoToken
<1>4. RevokedBy(m.token) = {d}
  BY <1>2 DEF RevokedBy, RInv, OneRow
<1>5. CASE grant[c].stage = "checking"
  BY <1>1, <1>4, <1>5 DEF AimMoves
<1>6. CASE grant[c].stage = "gone"
  BY <1>1, <1>6 DEF GrantMoves
<1>7. CASE grant[c].stage \notin {"checking", "gone"}
  <2>1. grant[c].restores = d /\ grant'[c].restores = d
    BY <1>1, <1>3, <1>7 DEF AimMoves, Aimed
  <2>2. grant'[c].stage = "creating" => grant'[c].user # row'[d].owner
    BY <1>1, <1>2, <2>1 DEF AimMoves, Aimed
  <2>3. ASSUME grant'[c].stage = "bound"
        PROVE  row'[grant'[c].device].owner # row'[d].owner
    <3>1. CASE grant[c].stage = "bound" /\ grant'[c].device = grant[c].device
      <4>1. grant[c].device \in Device /\ row[grant[c].device].made
        BY <3>1 DEF RInv, BoundTells, Names
      <4>2. RowKept(grant[c].device)
        BY <1>1, <4>1 DEF RelayEffect
      <4>3. QED
        BY <1>2, <3>1, <4>2 DEF RowKept, Aimed
    <3>2. CASE grant[c].stage = "restoring" /\ grant'[c].device = grant[c].restores
      <4>1. WriteOf(c, d)
        BY <1>1, <2>1, <2>3, <3>2 DEF GrantMoves
      <4>2. m.token = TokenOf(c)
        BY <4>1 DEF WriteOf
      <4>3. QED
        BY <3>2, <4>2 DEF Spent, TokenOf
    <3>3. CASE grant[c].stage = "creating" /\ row'[grant'[c].device].owner = grant[c].user
      BY <1>2, <3>3 DEF Aimed
    <3>4. QED
      BY <1>1, <2>3, <3>1, <3>2, <3>3 DEF AimMoves
  <2>4. QED
    BY <2>1, <2>2, <2>3
<1>8. QED
  BY <1>5, <1>6, <1>7

-----------------------------------------------------------------------------
(* The machine *)

Creds == [token : Token \cup {NoToken}, device : Device \cup {NoToken}]

ProcTypeOK ==
  /\ pc   \in [Proc -> Place]
  /\ code \in [Proc -> Code \cup {NoCode}]
  /\ mem  \in [Proc -> Creds]
  /\ pidFile \in Proc \cup {"nobody"}
  /\ creds \in Creds /\ last \in Creds
  /\ torn \in BOOLEAN

\* The lock holder is the machine's only process.
Alone == \A p \in Proc : Alive(p) => pidFile = p

Fetched == {"fetched", "writing"}
Dialed  == {"dialing", "open", "backoff", "idle"}

\* The credentials last saved are on disk, and are the daemon's.
OnDisk ==
  ~torn => /\ (\A p \in Proc : pc[p] # "writing") => creds = last
           /\ \A p \in Proc : pc[p] \in Dialed => mem[p] = last

LastSpent == last # NoCreds => Spent(last)

\* The token fetched opens the device it came with.
Opens(m) == \A d \in Device : row[d].made /\ row[d].token = m.token => d = m.device

\* The machine's last token is still its row's.
Lives == ~torn /\ last # NoCreds /\ row[last.device].token = last.token

\* A process pairs because the machine's token was revoked, asks with that token, and ends
\* up with another user's device if its own was not restored.
Pairs(p) ==
  /\ pc[p] = "polling" =>
       /\ code[p] \in Code
       /\ ~torn /\ last # NoCreds => grant[code[p]].evidence = last.token
       /\ Lives => row[last.device].revoked /\ Aimed(code[p], last.device)
  /\ pc[p] \in Fetched =>
       /\ Spent(mem[p]) /\ Opens(mem[p])
       /\ Lives => row[last.device].revoked
                   /\ row[mem[p].device].owner # row[last.device].owner
  /\ pc[p] = "asking" /\ Lives => row[last.device].revoked

MInv == ProcTypeOK /\ Alone /\ OnDisk /\ LastSpent /\ \A p \in Proc : Pairs(p)

FInv == RInv /\ MInv

\* The relay under the machine.
LEMMA MachineOverRelay == RInv /\ MInv /\ [Next]_allVars => RelayMoves
<1> SUFFICES ASSUME RInv, MInv, [Next]_allVars PROVE RelayMoves
  OBVIOUS
<1>0. AuthTypeOK /\ ProcTypeOK
  BY DEF RInv, IInv, MInv
<1>1. ASSUME NEW p \in Proc, AsksForCode(p)
      PROVE  RelayMoves
  BY <1>0, <1>1 DEF AsksForCode, ProcTypeOK, Creds, RelayMoves, AuthNext
<1>2. ASSUME NEW p \in Proc, PollsApproved(p) \/ PollsInVain(p) \/ PollsExpired(p)
      PROVE  RelayMoves
  <2>1. CASE pc[p] = "polling"
    <3>1. code[p] \in Code
      BY <2>1 DEF MInv, Pairs
    <3>2. CASE Deliver(code[p]) \/ Evict(code[p]) \/ UNCHANGED authVars
      BY <3>1, <3>2 DEF RelayMoves, AuthNext
    <3>3. CASE PollsInVain(p)
      <4>1. Fault /\ UNCHANGED row
        BY <3>3 DEF PollsInVain
      <4>2. \/ UNCHANGED grant
            \/ /\ grant[code[p]].stage = "bound"
               /\ grant' = [grant EXCEPT ![code[p]] = Unlisted(@)]
        BY <1>0, <3>3 DEF PollsInVain, AuthTypeOK
      <4>3. QED
        BY <3>1, <4>1, <4>2 DEF RelayMoves, OnlyAFault, AnswerLost
    <3>4. QED
      BY <1>2, <3>2, <3>3 DEF PollsApproved, PollsExpired
  <2>2. CASE pc[p] # "polling"
    BY <1>2, <2>2 DEF PollsApproved, PollsInVain, RelayMoves, PollsExpired, AuthNext
  <2>3. QED
    BY <2>1, <2>2
<1>3. ASSUME NEW p \in Proc,
             \/ Starts(p) \/ Truncates(p) \/ Saves(p) \/ HelloAcked(p) \/ HelloRejected(p)
             \/ Redials(p) \/ ConnectionAges(p) \/ LoopIsEmpty(p)
      PROVE  RelayMoves
  <2>1. UNCHANGED authVars
    BY <1>3 DEF Starts, Truncates, Saves, HelloAcked, HelloRejected, Redials, ConnectionAges,
         LoopIsEmpty
  <2>2. QED
    BY <2>1 DEF RelayMoves
<1>4. ASSUME NEW p \in Proc, DialFails(p) \/ Killed(p)
      PROVE  RelayMoves
  BY <1>4 DEF DialFails, Killed, RelayMoves, OnlyAFault
<1>5. CASE Quits \/ ServiceInstalls \/ ServiceStarts \/ ServiceStops \/ ServiceUninstalls
           \/ LogsIn
  <2>1. UNCHANGED authVars
    BY <1>5 DEF Quits, ServiceInstalls, ServiceStarts, ServiceStops, ServiceUninstalls,
         LogsIn, Unloads
  <2>2. QED
    BY <2>1 DEF RelayMoves
<1>6. CASE RelayGoes \/ RelayStep
  BY <1>6 DEF RelayGoes, RelayStep, RelayMoves, AuthNext
<1>7. CASE UNCHANGED allVars
  BY <1>7 DEF allVars, RelayMoves
<1>8. QED
  BY <1>1, <1>2, <1>3, <1>4, <1>5, <1>6, <1>7 DEF Next, ProcStep

\* While the credentials last saved stay, so does what is known of them.
LEMMA LastKept ==
  ASSUME RInv, RelayMoves, LastSpent, UNCHANGED last
  PROVE  LastSpent'
<1>1. SUFFICES ASSUME last # NoCreds
               PROVE  /\ last.token \in Token /\ last.device \in Device
                      /\ row'[last.device].made /\ grant'[last.token.code].stage = "gone"
  BY DEF LastSpent, Spent
<1>2. PICK m : m = last
  OBVIOUS
<1>3. Spent(m)
  BY <1>1, <1>2 DEF LastSpent
<1>4. row'[m.device].made /\ grant'[m.token.code].stage = "gone"
  BY <1>3, SpentStays
<1>5. QED
  BY <1>2, <1>3, <1>4 DEF Spent

LEMMA LivesOn ==
  ASSUME RInv, RelayMoves, LastSpent, UNCHANGED last, torn => torn', Lives'
  PROVE  /\ Lives /\ Spent(last) /\ row'[last.device].token = last.token
         /\ row'[last.device].owner = row[last.device].owner
         /\ row[last.device].revoked => row'[last.device].revoked
<1>1. last # NoCreds /\ ~torn /\ row'[last.device].token = last.token
  BY DEF Lives
<1>2. PICK m : m = last
  OBVIOUS
<1>3. Spent(m)
  BY <1>1, <1>2 DEF LastSpent
<1>4. /\ row'[m.device].made /\ row'[m.device].owner = row[m.device].owner
      /\ \A d \in Device : row'[d].made /\ row'[d].token = m.token =>
           row[d].made /\ row[d].token = m.token
      /\ row'[m.device].token = m.token /\ row[m.device].revoked => row'[m.device].revoked
  BY <1>3, SpentStays
<1>5. QED
  BY <1>1, <1>2, <1>3, <1>4 DEF Spent, Lives

\* A process that does not move keeps what it has, whatever the relay does.
LEMMA Carried ==
  ASSUME RInv, RelayMoves, LastSpent, UNCHANGED last, torn => torn',
         NEW p \in Proc, Pairs(p),
         pc'[p] = pc[p], code'[p] = code[p], mem'[p] = mem[p]
  PROVE  Pairs(p)'
<1>1. ASSUME pc[p] = "polling"
      PROVE  /\ code[p] \in Code
             /\ ~torn' /\ last # NoCreds => grant'[code[p]].evidence = last.token
             /\ Lives' => /\ row'[last.device].revoked
                          /\ \/ grant'[code[p]].stage \in {"checking", "gone"}
                             \/ grant'[code[p]].restores = last.device
                          /\ grant'[code[p]].stage = "creating" =>
                               grant'[code[p]].user # row'[last.device].owner
                          /\ grant'[code[p]].stage = "bound" =>
                               row'[grant'[code[p]].device].owner # row'[last.device].owner
  <2>0. PICK c \in Code : c = code[p]
    BY <1>1 DEF Pairs
  <2>1. PICK m : m = last /\ c = code[p]
    BY <2>0
  <2>2. ASSUME ~torn', last # NoCreds PROVE grant'[c].evidence = m.token
    <3>1. grant[c].evidence = m.token /\ Spent(m)
      BY <1>1, <2>1, <2>2 DEF Pairs, LastSpent
    <3>2. grant[c].stage # "unused"
      BY <3>1 DEF RInv, IInv, Binds, NoGrant, Spent, Token, NoToken
    <3>3. GrantMoves(c)
      BY RelaySummary DEF RInv, RelayEffect
    <3>4. QED
      BY <3>1, <3>2, <3>3 DEF GrantMoves
  <2>3. ASSUME Lives'
        PROVE  /\ row'[m.device].revoked
               /\ \/ grant'[c].stage \in {"checking", "gone"}
                  \/ grant'[c].restores = m.device
               /\ grant'[c].stage = "creating" => grant'[c].user # row'[m.device].owner
               /\ grant'[c].stage = "bound" =>
                    row'[grant'[c].device].owner # row'[m.device].owner
    <3>1. /\ Lives /\ Spent(m) /\ row'[m.device].token = m.token
          /\ row[m.device].revoked => row'[m.device].revoked
      BY <2>1, <2>3, LivesOn
    <3>2. /\ row[m.device].token = m.token /\ row[m.device].revoked
          /\ grant[c].evidence = m.token /\ Aimed(c, m.device)
      BY <1>1, <2>1, <3>1 DEF Pairs, Lives
    <3>3. QED
      BY <3>1, <3>2, AimStays
  <2>4. QED
    BY <2>1, <2>2, <2>3
<1>2. ASSUME pc[p] \in Fetched
      PROVE  /\ mem[p].token \in Token /\ mem[p].device \in Device
             /\ row'[mem[p].device].made /\ grant'[mem[p].token.code].stage = "gone"
             /\ \A d \in Device : row'[d].made /\ row'[d].token = mem[p].token =>
                  d = mem[p].device
             /\ Lives' => /\ row'[last.device].revoked
                          /\ row'[mem[p].device].owner # row'[last.device].owner
  <2>1. PICK m : m = mem[p]
    OBVIOUS
  <2>2. Spent(m) /\ Opens(m)
    BY <1>2, <2>1 DEF Pairs
  <2>3. /\ row'[m.device].made /\ row'[m.device].owner = row[m.device].owner
        /\ grant'[m.token.code].stage = "gone"
        /\ \A d \in Device : row'[d].made /\ row'[d].token = m.token =>
             row[d].made /\ row[d].token = m.token
    BY <2>2, SpentStays
  <2>4. ASSUME Lives'
        PROVE  row'[last.device].revoked /\ row'[m.device].owner # row'[last.device].owner
    BY <1>2, <2>1, <2>3, <2>4, LivesOn DEF Pairs
  <2>5. QED
    BY <2>1, <2>2, <2>3, <2>4 DEF Spent, Opens
<1>3. ASSUME pc[p] = "asking", Lives' PROVE row'[last.device].revoked
  BY <1>3, LivesOn DEF Pairs
<1>4. QED
  BY <1>1, <1>2, <1>3 DEF Pairs, Aimed, Spent, Opens

LEMMA Unconcerned ==
  ASSUME NEW p \in Proc, pc'[p] \in Dialed \cup {"off"}
  PROVE  Pairs(p)'
  BY DEF Pairs, Fetched, Dialed

\* Of the processes only the lock holder runs.
LEMMA OneRuns ==
  ASSUME Alone, NEW p \in Proc, Alive(p), NEW q \in Proc, q # p
  PROVE  pc[q] = "off"
  BY DEF Alone, Alive

\* A process ends.
LEMMA Ends ==
  ASSUME FInv, RelayMoves, NEW p \in Proc, Dies(p),
         pidFile' \in {pidFile, IF pc[p] = "off" THEN pidFile ELSE "nobody"},
         UNCHANGED <<creds, last>>,
         torn' \in BOOLEAN, torn => torn', pc[p] = "writing" => torn'
  PROVE  MInv'
<1>1. RInv /\ ProcTypeOK /\ Alone /\ OnDisk /\ LastSpent /\ \A q \in Proc : Pairs(q)
  BY DEF FInv, MInv
<1>2. /\ pc' = [pc EXCEPT ![p] = "off"]
      /\ code' = [code EXCEPT ![p] = NoCode]
      /\ mem' = [mem EXCEPT ![p] = NoCreds]
  BY DEF Dies, Moves
<1>3. /\ pc'[p] = "off"
      /\ \A q \in Proc : q # p => pc'[q] = pc[q] /\ code'[q] = code[q] /\ mem'[q] = mem[q]
  BY <1>1, <1>2 DEF ProcTypeOK
<1>4. ProcTypeOK'
  <2>1. NoCreds \in Creds
    BY DEF NoCreds, Creds
  <2>2. QED
    BY <1>1, <1>2, <2>1 DEF ProcTypeOK, Place
<1>5. Alone'
  BY <1>1, <1>3 DEF Alone, Alive
<1>6. OnDisk'
  BY <1>1, <1>3 DEF OnDisk, Dialed
<1>7. LastSpent'
  BY <1>1, LastKept
<1>8. ASSUME NEW q \in Proc PROVE Pairs(q)'
  <2>1. CASE q = p
    BY <1>3, <2>1, Unconcerned
  <2>2. CASE q # p
    BY <1>1, <1>3, <2>2, Carried
  <2>3. QED
    BY <2>1, <2>2
<1>9. QED
  BY <1>4, <1>5, <1>6, <1>7, <1>8 DEF MInv

\* The daemons' links come and go.
LEMMA Links ==
  ASSUME FInv, RelayMoves, pc' \in [Proc -> Place],
         \A q \in Proc : pc'[q] = pc[q] \/ (pc[q] \in Dialed /\ pc'[q] \in Dialed),
         UNCHANGED <<code, mem, pidFile, creds, last, torn>>
  PROVE  MInv'
<1>1. RInv /\ ProcTypeOK /\ Alone /\ OnDisk /\ LastSpent /\ \A q \in Proc : Pairs(q)
  BY DEF FInv, MInv
<1>2. ProcTypeOK'
  BY <1>1 DEF ProcTypeOK
<1>3. Alone'
  BY <1>1 DEF Alone, Alive, Dialed
<1>4. OnDisk'
  BY <1>1 DEF OnDisk, Dialed
<1>5. LastSpent'
  BY <1>1, LastKept
<1>6. ASSUME NEW q \in Proc PROVE Pairs(q)'
  <2>1. CASE pc'[q] = pc[q]
    BY <1>1, <2>1, Carried
  <2>2. CASE pc'[q] \in Dialed
    BY <2>2, Unconcerned
  <2>3. QED
    BY <2>1, <2>2
<1>7. QED
  BY <1>2, <1>3, <1>4, <1>5, <1>6 DEF MInv

LEMMA MachineStep == FInv /\ [Next]_allVars => FInv'
<1> SUFFICES ASSUME FInv, [Next]_allVars PROVE FInv'
  OBVIOUS
<1>0. /\ RInv /\ MInv /\ ProcTypeOK /\ Alone /\ OnDisk /\ LastSpent
      /\ \A q \in Proc : Pairs(q)
  BY DEF FInv, MInv
<1>1. RelayMoves
  BY <1>0, MachineOverRelay
<1>2. RInv'
  BY <1>0, <1>1, RelayStepRInv
<1> USE <1>0, <1>1
<1>3. ASSUME NEW p \in Proc, Starts(p)
      PROVE  MInv'
  <2>1. \A q \in Proc : pc[q] = "off"
    BY <1>3 DEF Starts, LockIsFree, Alone, Alive
  <2>2. /\ \A q \in Proc : q # p => pc'[q] = "off"
        /\ pidFile' = p /\ UNCHANGED <<code, creds, last, torn>>
    BY <1>3, <2>1 DEF Starts, Moves, Dials, ProcTypeOK
  <2>3. torn \/ creds = last
    BY <2>1 DEF OnDisk
  <2>4. CASE creds = NoCreds
    <3>1. pc' = [pc EXCEPT ![p] = "asking"] /\ UNCHANGED mem
      BY <1>3, <2>4 DEF Starts, Moves
    <3>2. pc'[p] = "asking"
      BY <3>1 DEF ProcTypeOK
    <3>3. ProcTypeOK'
      BY <2>2, <3>1 DEF ProcTypeOK, Place
    <3>4. Alone' /\ OnDisk'
      BY <2>2, <2>3, <3>2 DEF Alone, Alive, OnDisk, Dialed
    <3>5. Pairs(p)'
      BY <2>2, <2>3, <2>4, <3>2 DEF Pairs, Fetched, Lives
    <3>6. QED
      BY <2>2, <3>3, <3>4, <3>5, LastKept, Unconcerned DEF MInv
  <2>5. CASE creds # NoCreds
    <3>1. pc' = [pc EXCEPT ![p] = "dialing"] /\ mem' = [mem EXCEPT ![p] = creds]
      BY <1>3, <2>5 DEF Starts, Moves, Dials
    <3>2. pc'[p] = "dialing" /\ mem'[p] = creds
      BY <3>1 DEF ProcTypeOK
    <3>3. ProcTypeOK'
      BY <2>2, <3>1 DEF ProcTypeOK, Place
    <3>4. Alone' /\ OnDisk'
      BY <2>2, <2>3, <3>2 DEF Alone, Alive, OnDisk, Dialed
    <3>5. Pairs(p)'
      BY <3>2, Unconcerned DEF Dialed
    <3>6. QED
      BY <2>2, <3>3, <3>4, <3>5, LastKept, Unconcerned DEF MInv
  <2>6. QED
    BY <2>4, <2>5
<1>4. ASSUME NEW p \in Proc, AsksForCode(p)
      PROVE  MInv'
  <2>0. PICK c \in Code : RequestCode(c, creds.token) /\ code' = [code EXCEPT ![p] = c]
    BY <1>4 DEF AsksForCode
  <2>1. /\ pc[p] = "asking" /\ pc' = [pc EXCEPT ![p] = "polling"]
        /\ UNCHANGED <<mem, pidFile, creds, last, torn>> /\ UNCHANGED row
    BY <1>4, <2>0 DEF AsksForCode, Moves, RequestCode
  <2>2. \A q \in Proc : q # p => pc[q] = "off" /\ pc'[q] = "off"
    BY <2>1, OneRuns DEF Alive, ProcTypeOK
  <2>3. pc'[p] = "polling" /\ code'[p] = c
    BY <2>0, <2>1 DEF ProcTypeOK
  <2>4. ProcTypeOK'
    BY <2>0, <2>1 DEF ProcTypeOK, Place
  <2>5. Alone' /\ OnDisk'
    BY <2>1, <2>2, <2>3 DEF Alone, Alive, OnDisk, Dialed
  <2>6. /\ grant'[c].evidence = creds.token
        /\ creds.token # NoToken => grant'[c].stage = "checking"
    BY <2>0 DEF RequestCode, RInv, IInv, AuthTypeOK, Grant
  <2>7. ASSUME ~torn, last # NoCreds
        PROVE  grant'[c].evidence = last.token /\ grant'[c].stage = "checking"
    <3>1. creds = last
      BY <2>1, <2>2, <2>7 DEF OnDisk
    <3>2. last.token \in Token /\ last.token # NoToken
      BY <2>7 DEF LastSpent, Spent, Token, NoToken
    <3>3. QED
      BY <2>6, <3>1, <3>2
  <2>8. Pairs(p)'
    BY <2>1, <2>3, <2>7 DEF Pairs, Fetched, Lives, Aimed
  <2>9. QED
    BY <2>1, <2>2, <2>4, <2>5, <2>8, LastKept, Unconcerned DEF MInv
<1>5. ASSUME NEW p \in Proc, PollsApproved(p)
      PROVE  MInv'
  <2>0. PICK c \in Code : c = code[p]
    BY <1>5 DEF PollsApproved, Pairs
  <2>1. /\ pc[p] = "polling" /\ pc' = [pc EXCEPT ![p] = "fetched"]
        /\ UNCHANGED <<code, pidFile, creds, last, torn>> /\ UNCHANGED row
        /\ grant[c].stage = "bound" /\ grant' = [grant EXCEPT ![c] = Unlisted(@)]
        /\ mem' = [mem EXCEPT ![p] = [token |-> TokenOf(c), device |-> grant[c].device]]
    BY <1>5, <2>0 DEF PollsApproved, Moves, Deliver
  <2>2. \A q \in Proc : q # p => pc[q] = "off" /\ pc'[q] = "off"
    BY <2>1, OneRuns DEF Alive, ProcTypeOK
  <2>3. Names(c, grant[c].device) /\ TokenOf(c) \in Token
    BY <2>1 DEF RInv, BoundTells
  <2>4. PICK m \in Creds : m = [token |-> TokenOf(c), device |-> grant[c].device]
    BY <2>3 DEF Creds, Names
  <2>5. pc'[p] = "fetched" /\ mem'[p] = m
    BY <2>1, <2>4 DEF ProcTypeOK
  <2>6. ProcTypeOK'
    BY <2>1, <2>4 DEF ProcTypeOK, Place
  <2>7. Alone' /\ OnDisk'
    BY <2>1, <2>2, <2>5 DEF Alone, Alive, OnDisk, Dialed
  <2>8. grant'[c].stage = "gone"
    BY <2>1 DEF Unlisted, Binding, RInv, IInv, AuthTypeOK, Grant
  <2>9. /\ m.token \in Token /\ m.device \in Device /\ row'[m.device].made
        /\ grant'[m.token.code].stage = "gone"
        /\ \A d \in Device : row'[d].made /\ row'[d].token = m.token => d = m.device
    BY <2>1, <2>3, <2>4, <2>8 DEF Names, TokenOf
  <2>10. Lives' => /\ row'[last.device].revoked
                   /\ row'[m.device].owner # row'[last.device].owner
    BY <2>0, <2>1, <2>4 DEF Pairs, Lives, Aimed
  <2>11. Pairs(p)'
    BY <2>1, <2>5, <2>9, <2>10 DEF Pairs, Fetched, Spent, Opens
  <2>12. QED
    BY <2>1, <2>2, <2>6, <2>7, <2>11, LastKept, Unconcerned DEF MInv
<1>6. ASSUME NEW p \in Proc, Truncates(p)
      PROVE  MInv'
  <2>1. /\ pc[p] = "fetched" /\ pc' = [pc EXCEPT ![p] = "writing"] /\ creds' = NoCreds
        /\ UNCHANGED <<row, grant, code, mem, pidFile, last, torn>>
    BY <1>6 DEF Truncates, Moves, authVars
  <2>2. \A q \in Proc : q # p => pc[q] = "off" /\ pc'[q] = "off"
    BY <2>1, OneRuns DEF Alive, ProcTypeOK
  <2>3. pc'[p] = "writing"
    BY <2>1 DEF ProcTypeOK
  <2>4. ProcTypeOK'
    BY <2>1 DEF ProcTypeOK, Place, NoCreds, Creds
  <2>5. Alone' /\ OnDisk'
    BY <2>1, <2>2, <2>3 DEF Alone, Alive, OnDisk, Dialed
  <2>6. Pairs(p)'
    BY <2>1, <2>3 DEF Pairs, Fetched, Spent, Opens, Lives
  <2>7. QED
    BY <2>1, <2>2, <2>4, <2>5, <2>6, LastKept, Unconcerned DEF MInv
<1>7. ASSUME NEW p \in Proc, Saves(p)
      PROVE  MInv'
  <2>1. /\ pc[p] = "writing" /\ creds' = mem[p] /\ last' = mem[p] /\ torn' = FALSE
        /\ UNCHANGED <<row, grant>>
    BY <1>7 DEF Saves, authVars
  <2>2. \A q \in Proc : q # p => pc[q] = "off"
    BY <2>1, OneRuns DEF Alive
  <2>3. Spent(mem[p]) /\ mem[p] \in Creds
    BY <2>1 DEF Pairs, Fetched, ProcTypeOK
  <2>4. LastSpent'
    BY <2>1, <2>3 DEF LastSpent, Spent
  <2>5. CASE /\ pc' = [pc EXCEPT ![p] = "dialing"] /\ mem' = [mem EXCEPT ![p] = mem[p]]
             /\ code' = [code EXCEPT ![p] = NoCode] /\ UNCHANGED pidFile
    <3>1. /\ \A q \in Proc : q # p => pc'[q] = "off"
          /\ pc'[p] = "dialing" /\ mem'[p] = mem[p]
      BY <2>2, <2>5 DEF ProcTypeOK
    <3>2. ProcTypeOK'
      BY <2>1, <2>3, <2>5 DEF ProcTypeOK, Place
    <3>3. Alone' /\ OnDisk'
      BY <2>1, <2>5, <3>1 DEF Alone, Alive, OnDisk, Dialed
    <3>4. QED
      BY <2>4, <3>1, <3>2, <3>3, Unconcerned DEF MInv, Dialed
  <2>6. CASE Exits(p)
    <3>1. /\ pc' = [pc EXCEPT ![p] = "off"] /\ mem' = [mem EXCEPT ![p] = NoCreds]
          /\ code' = [code EXCEPT ![p] = NoCode] /\ pidFile' = "nobody"
      BY <2>1, <2>6 DEF Exits, Dies, Moves
    <3>2. \A q \in Proc : pc'[q] = "off"
      BY <2>2, <3>1 DEF ProcTypeOK
    <3>3. ProcTypeOK'
      BY <2>1, <2>3, <3>1 DEF ProcTypeOK, Place, NoCreds, Creds
    <3>4. Alone' /\ OnDisk'
      BY <2>1, <3>2 DEF Alone, Alive, OnDisk, Dialed
    <3>5. QED
      BY <2>4, <3>2, <3>3, <3>4, Unconcerned DEF MInv
  <2>7. QED
    BY <1>7, <2>5, <2>6 DEF Saves, Dials, Moves
<1>8. ASSUME NEW p \in Proc, HelloRejected(p)
      PROVE  MInv'
  <2>1. /\ pc[p] = "dialing" /\ ~TokenIsGood(mem[p])
        /\ pc' = [pc EXCEPT ![p] = IF repairing[p] THEN "idle" ELSE "asking"]
        /\ UNCHANGED <<code, mem, pidFile, creds, last, torn>> /\ UNCHANGED <<row, grant>>
    BY <1>8 DEF HelloRejected, Moves, authVars
  <2>2. CASE repairing[p]
    <3>1. /\ pc'[p] = "idle" /\ \A q \in Proc : q # p => pc'[q] = pc[q]
          /\ pc' \in [Proc -> Place]
      BY <2>1, <2>2 DEF ProcTypeOK, Place
    <3>2. QED
      BY <2>1, <3>1, Links DEF Dialed
  <2>3. CASE ~repairing[p]
    <3>1. pc'[p] = "asking" /\ \A q \in Proc : q # p => pc'[q] = "off"
      BY <2>1, <2>3, OneRuns DEF ProcTypeOK, Alive
    <3>2. ProcTypeOK'
      BY <2>1 DEF ProcTypeOK, Place
    <3>3. Alone'
      BY <2>1, <3>1 DEF Alone, Alive
    <3>4. OnDisk'
      BY <2>1, <3>1, OneRuns DEF OnDisk, Dialed, Alive
    <3>5. Lives => row[last.device].revoked
      BY <2>1 DEF TokenIsGood, OnDisk, Dialed, Lives, LastSpent, Spent
    <3>6. Pairs(p)'
      BY <2>1, <3>1, <3>5 DEF Pairs, Fetched, Lives
    <3>7. QED
      BY <2>1, <3>1, <3>2, <3>3, <3>4, <3>6, LastKept, Unconcerned DEF MInv
  <2>4. QED
    BY <2>2, <2>3
<1> HIDE <1>0, <1>1
\* The steps that end a process.
<1>9. ASSUME NEW p \in Proc, PollsInVain(p) \/ PollsExpired(p) \/ LoopIsEmpty(p)
      PROVE  MInv'
  <2>1. Exits(p) /\ pc[p] \in {"polling", "idle"} /\ UNCHANGED <<creds, last, torn>>
    BY <1>9 DEF PollsInVain, PollsExpired, LoopIsEmpty
  <2>2. QED
    BY <1>0, <1>1, <2>1, Ends DEF Exits, ProcTypeOK
<1>10. ASSUME NEW p \in Proc, Killed(p)
       PROVE  MInv'
  BY <1>0, <1>1, <1>10, Ends DEF Killed, ProcTypeOK
<1>11. ASSUME NEW p \in Proc, Exits(p), torn' = (torn \/ pc[p] = "writing"),
              UNCHANGED <<creds, last>>
       PROVE  MInv'
  BY <1>0, <1>1, <1>11, Ends DEF Exits, ProcTypeOK
<1>12. ASSUME \/ Quits \/ ServiceInstalls \/ ServiceStarts \/ ServiceStops
              \/ ServiceUninstalls
       PROVE  MInv'
  <2>1. CASE Quits
    BY <1>11, <2>1 DEF Quits, Proc
  <2>2. ASSUME NEW to, Unloads(to) PROVE MInv'
    BY <1>11, <2>2 DEF Unloads, Proc
  <2>3. QED
    BY <1>12, <2>1, <2>2 DEF ServiceInstalls, ServiceStarts, ServiceStops, ServiceUninstalls
\* The steps of the links.
<1>13. ASSUME NEW p \in Proc, NEW to \in Dialed, pc[p] \in Dialed, Moves(p, to),
              UNCHANGED <<code, mem, pidFile, creds, last, torn>>
       PROVE  MInv'
  <2>1. /\ pc'[p] = to /\ \A q \in Proc : q # p => pc'[q] = pc[q]
        /\ pc' \in [Proc -> Place]
    BY <1>0, <1>13 DEF Moves, ProcTypeOK, Place, Dialed
  <2>2. QED
    BY <1>1, <1>13, <2>1, Links
<1>14. ASSUME NEW p \in Proc, HelloAcked(p) \/ Redials(p) \/ ConnectionAges(p)
       PROVE  MInv'
  BY <1>13, <1>14 DEF HelloAcked, Redials, ConnectionAges, WillRedial, Dialed
<1>15. ASSUME NEW p \in Proc, DialFails(p)
       PROVE  MInv'
  <2>1. CASE pc[p] = "dialing" /\ Exits(p)
    BY <1>0, <1>1, <1>15, <2>1, Ends DEF DialFails, Exits, ProcTypeOK
  <2>2. CASE WillRedial(p)
    BY <1>13, <1>15, <2>2 DEF DialFails, WillRedial, Dialed
  <2>3. QED
    BY <1>15, <2>1, <2>2 DEF DialFails
<1>16. ASSUME RelayGoes
       PROVE  MInv'
  <2>1. /\ pc' \in [Proc -> Place]
        /\ \A q \in Proc : pc'[q] = pc[q] \/ (pc[q] \in Dialed /\ pc'[q] \in Dialed)
        /\ UNCHANGED <<code, mem, pidFile, creds, last, torn>>
    BY <1>0, <1>16 DEF RelayGoes, Dialed, Place, ProcTypeOK
  <2>2. QED
    BY <1>1, <2>1, Links
<1>17. ASSUME LogsIn \/ RelayStep \/ UNCHANGED allVars
       PROVE  MInv'
  <2>1. UNCHANGED <<pc, code, mem, pidFile, creds, last, torn>>
    BY <1>17 DEF LogsIn, RelayStep, allVars, procVars
  <2>2. QED
    BY <1>0, <1>1, <2>1, Links DEF ProcTypeOK
<1>18. MInv'
  BY <1>3, <1>4, <1>5, <1>6, <1>7, <1>8, <1>9, <1>10, <1>12, <1>14, <1>15, <1>16, <1>17
     DEF Next, ProcStep
<1>19. QED
  BY <1>2, <1>18 DEF FInv

LEMMA MachineInit == Init => FInv
<1> SUFFICES ASSUME Init PROVE FInv
  OBVIOUS
<1>1. RInv
  BY InitRInv DEF Init
<1>2. ProcTypeOK
  BY DEF Init, ProcInit, ProcTypeOK, Place, NoCreds, Creds
<1>3. \A p \in Proc : pc[p] = "off"
  BY DEF Init, ProcInit
<1>4. last = NoCreds /\ creds = NoCreds
  BY DEF Init, ProcInit
<1>5. Alone /\ OnDisk /\ LastSpent /\ \A p \in Proc : Pairs(p)
  BY <1>3, <1>4 DEF Alone, Alive, OnDisk, Dialed, LastSpent, Pairs, Fetched
<1>6. QED
  BY <1>1, <1>2, <1>5 DEF FInv, MInv

LEMMA MachineInvariant == Spec => []FInv
<1>1. Init => FInv
  BY MachineInit
<1>2. FInv /\ [Next]_allVars => FInv'
  BY MachineStep
<1>3. QED
  BY <1>1, <1>2, PTL DEF Spec

\* Over the daemon's own crashes, lost answers and re-pairings as well, an approval of a code
\* makes one device, unless a failing call's write took effect.
THEOREM OneDevicePerApproval == Spec => []OneDevicePerCode
<1>1. FInv => OneDevicePerCode
  BY OneIsMade DEF FInv, RInv
<1>2. QED
  BY <1>1, MachineInvariant, PTL

\* Whatever the machine does, a device changes its token only by its owner's approval of a
\* code that was asked for with a token of it.
THEOREM MachinesRestoreTheirOwn == Spec => OnlyTheOwnerRestores
<1>1. FInv /\ [Next]_allVars =>
        [\A d \in Device :
           row[d].made =>
             /\ row'[d].made /\ row'[d].owner = row[d].owner
             /\ row'[d].token # row[d].token =>
                  LET g == grant[row'[d].token.code] IN
                    g.user = row[d].owner /\ g.restores = d /\ row[d].revoked]_authVars
  <2> SUFFICES ASSUME FInv, [Next]_allVars, NEW d \in Device, row[d].made
               PROVE  /\ row'[d].made /\ row'[d].owner = row[d].owner
                      /\ row'[d].token # row[d].token =>
                           LET g == grant[row'[d].token.code] IN
                             g.user = row[d].owner /\ g.restores = d /\ row[d].revoked
    OBVIOUS
  <2>1. RelayMoves /\ IInv
    BY MachineOverRelay DEF FInv, RInv
  <2>2. AuthNext \/ UNCHANGED row
    BY <2>1 DEF RelayMoves, AnswerLost, OnlyAFault, authVars
  <2>3. QED
    BY <2>1, <2>2, OwnersStep
<1>2. QED
  BY <1>1, MachineInvariant, PTL DEF Spec, OnlyTheOwnerRestores

\* A machine whose token was revoked gets its own device back when its owner approves its
\* new code, however its processes and the relay crash in between (repairAndRelaunch,
\* pairDevice, saveCredentials; bindDevice).
THEOREM PairingKeeps == Spec => PairingKeepsTheDevice
<1>1. FInv /\ [Next]_allVars =>
        [last' # last /\ last # NoCreds =>
           \/ last'.device = last.device
           \/ row[last.device].owner # row[last'.device].owner
           \/ row[last.device].token \notin {last.token, last'.token}
           \/ torn]_allVars
  <2> SUFFICES ASSUME FInv, Next, last' # last, last # NoCreds, ~torn,
                      last'.device # last.device
               PROVE  \/ row[last.device].owner # row[last'.device].owner
                      \/ row[last.device].token \notin {last.token, last'.token}
    OBVIOUS
  <2>1. PICK p \in Proc : Saves(p)
    BY DEF Next, ProcStep, Starts, AsksForCode, PollsApproved, PollsInVain, PollsExpired,
       Truncates, HelloAcked, HelloRejected, DialFails, Redials, ConnectionAges,
       LoopIsEmpty, Killed, Quits, ServiceInstalls, ServiceStarts, ServiceStops,
       ServiceUninstalls, Unloads, LogsIn, RelayGoes, RelayStep, procVars
  <2>2. pc[p] = "writing" /\ last' = mem[p]
    BY <2>1 DEF Saves
  <2>3. /\ Opens(mem[p])
        /\ Lives => row[mem[p].device].owner # row[last.device].owner
        /\ Spent(last)
    BY <2>2 DEF FInv, MInv, Pairs, Fetched, LastSpent
  <2>4. row[last.device].token # mem[p].token
    BY <2>2, <2>3 DEF Opens, Spent
  <2>5. QED
    BY <2>2, <2>3, <2>4 DEF Lives
<1>2. QED
  BY <1>1, MachineInvariant, PTL DEF Spec, PairingKeepsTheDevice
=============================================================================
