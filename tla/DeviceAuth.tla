----------------------------- MODULE DeviceAuth -----------------------------
(***************************************************************************)
(* Device authorisation at the relay (apps/relay/src/device-auth.ts) and   *)
(* the device rows it writes (registry/device-registry.ts): a machine asks *)
(* for a code, a user approves it, a poll fetches the token. A code asked  *)
(* for with the token of a revoked row restores that row when the row's    *)
(* owner approves it, and makes a new row otherwise.                       *)
(*                                                                         *)
(* A step is the code between two awaits: the lookup of the evidence and   *)
(* the writes of the bind are steps of their own, which may fail with or   *)
(* without their effect. Codes expire at any time.                         *)
(***************************************************************************)
EXTENDS Naturals, FiniteSets

CONSTANTS User,
          Code,        \* device codes, each with its user code
          MaxTries,    \* bound: binds attempted for one code
          MaxFaults    \* bound: failing database calls and relay restarts

ASSUME DeviceAuthConstants ==
  MaxTries \in Nat \ {0} /\ MaxFaults \in Nat

\* Each attempt to bind mints a token. A row is named after the token it was made with.
Token   == [code : Code, try : 1 .. MaxTries]
Device  == Token
NoToken == [code |-> "none", try |-> 0]
NoUser  == "nobody"

VARIABLES
  row,      \* the devices table
  grant,    \* PendingRecords, and codes not asked for yet
  faults

authVars == <<row, grant, faults>>

NoRow  == [made |-> FALSE, owner |-> NoUser, token |-> NoToken, revoked |-> FALSE]
\* made, owner, deviceTokenHash, revokedAt
Row == [made : BOOLEAN, owner : User \cup {NoUser}, token : Token \cup {NoToken},
        revoked : BOOLEAN]

\* unused; checking the evidence; open; restoring or creating its row; bound; gone
Stage == {"unused", "checking", "open", "restoring", "creating", "bound", "gone"}
Binding == {"restoring", "creating"}

\* `evidence` is the token presented, `restores` the row it was found to restore; `user`
\* approved it and is given `token` for `device`; `doubt` (history): a bind failed although
\* its row was written.
Grant == [stage : Stage, listed : BOOLEAN, expired : BOOLEAN,
          evidence : Token \cup {NoToken}, restores : Device \cup {NoToken},
          user : User \cup {NoUser}, tries : 0 .. MaxTries,
          device : Device \cup {NoToken}, doubt : BOOLEAN]
NoGrant == [stage |-> "unused", listed |-> FALSE, expired |-> FALSE, evidence |-> NoToken,
            restores |-> NoToken, user |-> NoUser, tries |-> 0, device |-> NoToken,
            doubt |-> FALSE]

TokenOf(c) == [code |-> c, try |-> grant[c].tries]

AuthInit ==
  /\ row      = [d \in Device |-> NoRow]
  /\ grant    = [c \in Code |-> NoGrant]
  /\ faults   = 0

-----------------------------------------------------------------------------
(* POST /device/code *)

\* A code without evidence is registered at once, one with evidence after the lookup.
RequestCode(c, t) ==
  /\ grant[c].stage = "unused"
  /\ grant' = [grant EXCEPT ![c].stage    = IF t = NoToken THEN "open" ELSE "checking",
                            ![c].listed   = t = NoToken,
                            ![c].evidence = t]
  /\ UNCHANGED <<row, faults>>

\* findRevokedByTokenHash: the rows, one at most, that evidence t restores.
RevokedBy(t) == {d \in Device : row[d].made /\ row[d].revoked /\ row[d].token = t}

CheckEvidence(c) ==
  /\ grant[c].stage = "checking"
  /\ \E d \in RevokedBy(grant[c].evidence) \cup {NoToken} :
       /\ d = NoToken => RevokedBy(grant[c].evidence) = {}
       /\ grant' = [grant EXCEPT ![c].stage = "open", ![c].listed = TRUE, ![c].restores = d]
  /\ UNCHANGED <<row, faults>>

Fault == faults < MaxFaults /\ faults' = faults + 1

\* The lookup fails: the request does, and the code is not known to anybody.
CheckFails(c) ==
  /\ grant[c].stage = "checking"
  /\ Fault
  /\ grant' = [grant EXCEPT ![c].stage = "gone"]
  /\ UNCHANGED row

\* expiresInMs passed since the request.
Expire(c) ==
  /\ grant[c].stage # "unused"
  /\ ~grant[c].expired
  /\ grant' = [grant EXCEPT ![c].expired = TRUE]
  /\ UNCHANGED <<row, faults>>

\* A grant leaves the maps; a bind in flight still holds its record.
Unlisted(g) == [g EXCEPT !.listed = FALSE,
                         !.stage  = IF g.stage \in Binding THEN g.stage ELSE "gone"]

-----------------------------------------------------------------------------
(* POST /device/approve, called by the web server for a signed-in user *)

\* bindDevice: verified evidence restores its row for the owner only.
BindFor(c, u) ==
  IF grant[c].restores # NoToken /\ row[grant[c].restores].owner = u
    THEN "restoring" ELSE "creating"

\* Mutant: a second approval does not look for a bind in flight or done.
ApproveTwice(c, u) ==
  /\ grant[c].listed /\ ~grant[c].expired
  /\ grant[c].stage \in {"open", "bound"}
  /\ grant[c].tries < MaxTries
  /\ grant' = [grant EXCEPT ![c].stage = BindFor(c, u), ![c].user = u,
                            ![c].tries = @ + 1]
  /\ UNCHANGED <<row, faults>>

\* The first approval claims the code before anything awaits; later ones share its bind. A
\* code that is unknown or over, and a user with too many invalid attempts (lockedOut), are
\* refused; an expired code is dropped then (Evict).
Approve(c, u) ==
  /\ grant[c].listed /\ ~grant[c].expired
  /\ grant[c].stage = "open"
  /\ grant[c].tries < MaxTries
  /\ grant' = [grant EXCEPT ![c].stage = BindFor(c, u), ![c].user = u,
                            ![c].tries = @ + 1]
  /\ UNCHANGED <<row, faults>>

\* restoreDevice's UPDATE: clears revoked_at and rotates the token of a revoked row.
Restorable(c) ==
  /\ row[grant[c].restores].revoked
  /\ row[grant[c].restores].owner = grant[c].user

Restored(c) ==
  [row EXCEPT ![grant[c].restores].revoked = FALSE, ![grant[c].restores].token = TokenOf(c)]

\* createDevice's INSERT.
Created(c) ==
  [row EXCEPT ![TokenOf(c)] = [made |-> TRUE, owner |-> grant[c].user,
                               token |-> TokenOf(c), revoked |-> FALSE]]

\* The record is stamped; if it was dropped meanwhile nobody can fetch the token.
Bound(c, d) ==
  [grant EXCEPT ![c].stage = IF grant[c].listed THEN "bound" ELSE "gone", ![c].device = d]

BindRestores(c) ==
  /\ grant[c].stage = "restoring"
  /\ IF Restorable(c)
       THEN row' = Restored(c) /\ grant' = Bound(c, grant[c].restores)
       ELSE UNCHANGED row /\ grant' = [grant EXCEPT ![c].stage = "creating"]
  /\ UNCHANGED faults

BindCreates(c) ==
  /\ grant[c].stage = "creating"
  /\ row'   = Created(c)
  /\ grant' = Bound(c, TokenOf(c))
  /\ UNCHANGED faults

\* What a write of the bind leaves in the table when its call fails: nothing, or its effect.
Unsure(c) ==
  {row} \cup (IF grant[c].stage = "creating" THEN {Created(c)}
              ELSE IF Restorable(c) THEN {Restored(c)} ELSE {})

\* The claim is released so that a retry can bind.
BindFails(c) ==
  /\ grant[c].stage \in Binding
  /\ Fault
  /\ row' \in Unsure(c)
  /\ grant' = [grant EXCEPT ![c].stage = IF grant[c].listed THEN "open" ELSE "gone",
                            ![c].doubt = @ \/ row' # row]

-----------------------------------------------------------------------------
(* POST /device/token, the registry's other writes, the process *)

\* One-time delivery: the record is consumed as the token is read.
Deliver(c) ==
  /\ grant[c].stage = "bound" /\ grant[c].listed /\ ~grant[c].expired
  /\ grant' = [grant EXCEPT ![c] = Unlisted(@)]
  /\ UNCHANGED <<row, faults>>

\* A poll or an approval finds the code expired and drops it, whatever became of it.
Evict(c) ==
  /\ grant[c].listed /\ grant[c].expired
  /\ grant' = [grant EXCEPT ![c] = Unlisted(@)]
  /\ UNCHANGED <<row, faults>>

\* DELETE /me/devices/:id, for the owner of an active row.
Revoke(d) ==
  /\ row[d].made /\ ~row[d].revoked
  /\ row' = [row EXCEPT ![d].revoked = TRUE]
  /\ UNCHANGED <<grant, faults>>

\* Pending codes live in memory only; a bind in flight has written its row or has not.
RelayRestarts ==
  /\ Fault
  /\ \/ UNCHANGED row
     \/ \E c \in Code : grant[c].stage \in Binding /\ row' \in Unsure(c)
  /\ grant' = [c \in Code |-> IF grant[c].stage = "unused" THEN NoGrant
                              ELSE [grant[c] EXCEPT !.stage = "gone", !.listed = FALSE]]

AuthNext ==
  \/ \E c \in Code : \/ \E t \in Token \cup {NoToken} : RequestCode(c, t)
                     \/ CheckEvidence(c) \/ CheckFails(c) \/ Expire(c) \/ Evict(c)
                     \/ \E u \in User : Approve(c, u)
                     \/ BindRestores(c) \/ BindCreates(c) \/ BindFails(c) \/ Deliver(c)
  \/ \E d \in Device : Revoke(d)
  \/ RelayRestarts

AuthSpec == AuthInit /\ [][AuthNext]_authVars

-----------------------------------------------------------------------------
AuthTypeOK ==
  /\ row \in [Device -> Row]
  /\ grant \in [Code -> Grant]
  /\ faults \in 0 .. MaxFaults

\* An approval of a code makes one device at most, though it is submitted twice, retried
\* after an error or overtaken by the code's expiry; unless a write failed after its effect.
OneDevicePerCode ==
  \A c \in Code :
    ~grant[c].doubt => Cardinality({d \in Device : d.code = c /\ row[d].made}) <= 1

\* A device keeps its owner, and its token changes only while it is revoked, by a grant
\* that its owner approved and that was asked for with a token of it. (Not always its last:
\* the evidence is looked up when the code is asked for, and stays good for the code.)
OnlyTheOwnerRestores ==
  [][\A d \in Device :
       row[d].made =>
         /\ row'[d].made /\ row'[d].owner = row[d].owner
         /\ row'[d].token # row[d].token =>
              LET g == grant[row'[d].token.code] IN
                g.user = row[d].owner /\ g.restores = d /\ row[d].revoked]_authVars
=============================================================================
