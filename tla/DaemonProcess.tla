---------------------------- MODULE DaemonProcess ---------------------------
(***************************************************************************)
(* The daemon as a process of one machine: packages/daemon/src/main.ts     *)
(* with the single-instance lock, the credentials file, the pairing client *)
(* (pairing.ts, pair-and-save.ts), the re-pairing after a revoked token,   *)
(* and the login service that keeps it running (service/). It pairs with   *)
(* the relay of DeviceAuth, whose hello (apps/relay/src/relay.ts) checks   *)
(* the token against the device rows.                                      *)
(*                                                                         *)
(* Two processes may run on the machine: one the user started in a         *)
(* terminal and one the login service starts, again and again while it is  *)
(* loaded. Either may be killed between any two steps.                     *)
(***************************************************************************)
EXTENDS DeviceAuth

VARIABLES
  pc,       \* where each process is
  first,    \* its dial is the first of its daemon: an error rejects start()
  repairing,\* isRepairing
  code,     \* the code it polls for
  mem,      \* the credentials its daemon was built with, or just fetched
  pidFile,  \* the process named in daemon.pid
  creds,    \* credentials.json: what loadCredentials makes of it
  unit,     \* the login service: absent, installed, loaded
  last,     \* history: the credentials last saved
  torn      \* history: the process died while it wrote credentials.json

procVars == <<pc, first, repairing, code, mem, pidFile, creds, unit, last, torn>>
allVars  == <<authVars, procVars>>

Proc == {"terminal", "service"}
NoCode == "no code"
NoCreds == [token |-> NoToken, device |-> NoToken]

\* off; asking for a code; polling; token fetched; file truncated;
\* hello sent; registered; waiting to redial; no daemon left
Place == {"off", "asking", "polling", "fetched", "writing",
          "dialing", "open", "backoff", "idle"}

ProcInit ==
  /\ pc        = [p \in Proc |-> "off"]
  /\ first     = [p \in Proc |-> FALSE]
  /\ repairing = [p \in Proc |-> FALSE]
  /\ code      = [p \in Proc |-> NoCode]
  /\ mem       = [p \in Proc |-> NoCreds]
  /\ pidFile   = "nobody"
  /\ creds     = NoCreds
  /\ unit      = "absent"
  /\ last      = NoCreds
  /\ torn      = FALSE

Moves(p, to) == pc' = [pc EXCEPT ![p] = to]

\* What is gone with the process.
Dies(p) ==
  /\ Moves(p, "off")
  /\ first'     = [first EXCEPT ![p] = FALSE]
  /\ repairing' = [repairing EXCEPT ![p] = FALSE]
  /\ code'      = [code EXCEPT ![p] = NoCode]
  /\ mem'       = [mem EXCEPT ![p] = NoCreds]

\* process.exit, or the event loop ran empty: the lock holder removes the pid file.
Exits(p) ==
  /\ Dies(p)
  /\ pidFile' = IF pc[p] = "off" THEN pidFile ELSE "nobody"

-----------------------------------------------------------------------------
(* acquireSingleInstanceLock *)

Alive(p) == pc[p] # "off"

\* A pid file left by a dead process is reclaimed.
LockIsFree(p) == \A q \in Proc \ {p} : pidFile = q => ~Alive(q)

\* launchDaemon: a daemon with these credentials makes its first dial.
Dials(p, c) ==
  /\ Moves(p, "dialing")
  /\ first' = [first EXCEPT ![p] = TRUE]
  /\ mem'   = [mem EXCEPT ![p] = c]

\* The service is started for as long as it is loaded (KeepAlive, Restart=always). A process
\* that finds the lock held exits at once and changes nothing. The read and the write of the
\* pid file are one step: the lock guards against a second start, not against two starts in
\* the same instant. Then the credentials are loaded: none, and the machine pairs.
Starts(p) ==
  /\ pc[p] = "off"
  /\ p = "service" => unit = "loaded"
  /\ LockIsFree(p)
  /\ pidFile' = p
  /\ IF creds = NoCreds THEN Moves(p, "asking") /\ UNCHANGED <<first, mem>>
                        ELSE Dials(p, creds)
  /\ UNCHANGED <<authVars, repairing, code, creds, unit, last, torn>>

-----------------------------------------------------------------------------
(* runPairing: pairDevice and pairAndSaveCredentials *)

\* Mutant: the daemon forgets the dead token before the new grant.
AsksAfresh(p) ==
  /\ pc[p] = "asking"
  /\ \E c \in Code : RequestCode(c, NoToken) /\ code' = [code EXCEPT ![p] = c]
  /\ Moves(p, "polling")
  /\ UNCHANGED <<first, repairing, mem, pidFile, creds, unit, last, torn>>

\* The credentials on disk, a revoked token's among them, are the evidence.
AsksForCode(p) ==
  /\ pc[p] = "asking"
  /\ \E c \in Code : RequestCode(c, creds.token) /\ code' = [code EXCEPT ![p] = c]
  /\ Moves(p, "polling")
  /\ UNCHANGED <<first, repairing, mem, pidFile, creds, unit, last, torn>>

PollsApproved(p) ==
  /\ pc[p] = "polling"
  /\ Deliver(code[p])
  /\ Moves(p, "fetched")
  /\ mem' = [mem EXCEPT ![p] = [token |-> TokenOf(code[p]), device |-> grant[code[p]].device]]
  /\ UNCHANGED <<first, repairing, code, pidFile, creds, unit, last, torn>>

\* The answer that carried the token is lost: the fetch throws, as does any failing call.
PollsInVain(p) ==
  /\ pc[p] = "polling"
  /\ Fault
  /\ \/ grant' = [grant EXCEPT ![code[p]] =
                    IF @.stage = "bound" /\ ~@.expired THEN Unlisted(@) ELSE @]
     \/ UNCHANGED grant
  /\ UNCHANGED row
  /\ Exits(p)
  /\ UNCHANGED <<creds, unit, last, torn>>

\* The code is over, or unknown to a relay that restarted: pairing fails, the process exits.
PollsExpired(p) ==
  /\ pc[p] = "polling"
  /\ \/ Evict(code[p])
     \/ grant[code[p]].stage = "gone" /\ UNCHANGED authVars
  /\ Exits(p)
  /\ UNCHANGED <<creds, unit, last, torn>>

\* saveCredentials truncates the file ...
Truncates(p) ==
  /\ pc[p] = "fetched"
  /\ Moves(p, "writing")
  /\ creds' = NoCreds
  /\ UNCHANGED <<authVars, first, repairing, code, mem, pidFile, unit, last, torn>>

\* ... and writes it: the daemon is launched. The terminal's process, when this was the
\* machine's first pairing, offers to install the service (offerBackgroundService), and exits
\* once it has been.
Saves(p) ==
  /\ pc[p] = "writing"
  /\ creds' = mem[p]
  /\ last'  = mem[p]
  /\ torn'  = FALSE
  /\ \/ /\ Dials(p, mem[p])
        /\ code' = [code EXCEPT ![p] = NoCode]
        /\ UNCHANGED <<repairing, pidFile, unit>>
     \/ /\ p = "terminal" /\ ~repairing[p]
        /\ unit = "absent"
        /\ unit' = "loaded"
        /\ Exits(p)
  /\ UNCHANGED authVars

-----------------------------------------------------------------------------
(* The daemon's link: openConnection, and handleHello at the relay *)

\* Mutant: the lookup forgets revoked_at.
TokenIsKnown(c) == row[c.device].made /\ row[c.device].token = c.token

\* findActiveByTokenHash, and that the row is the device the hello names.
TokenIsGood(c) == row[c.device].made /\ ~row[c.device].revoked /\ row[c.device].token = c.token

\* The relay registers the socket and acknowledges: start() is settled, and a repair over.
HelloAcked(p) ==
  /\ pc[p] = "dialing"
  /\ TokenIsGood(mem[p])
  /\ Moves(p, "open")
  /\ first'     = [first EXCEPT ![p] = FALSE]
  /\ repairing' = [repairing EXCEPT ![p] = FALSE]
  /\ UNCHANGED <<authVars, code, mem, pidFile, creds, unit, last, torn>>

\* Mutant: a rejected redial is redialled.
HelloRejectedAgain(p) ==
  /\ pc[p] = "dialing"
  /\ ~TokenIsGood(mem[p])
  /\ Moves(p, IF repairing[p] THEN "idle" ELSE IF first[p] THEN "asking" ELSE "backoff")
  /\ repairing' = [repairing EXCEPT ![p] = first[p] /\ ~@]
  /\ first'     = [first EXCEPT ![p] = FALSE]
  /\ UNCHANGED <<authVars, code, mem, pidFile, creds, unit, last, torn>>

\* Close 4001: repairAndRelaunch, unless one is under way: then it returns, and if the
\* rejected dial was the relaunch's first, the repair is over as well.
HelloRejected(p) ==
  /\ pc[p] = "dialing"
  /\ ~TokenIsGood(mem[p])
  /\ Moves(p, IF repairing[p] THEN "idle" ELSE "asking")
  /\ repairing' = [repairing EXCEPT ![p] = ~(@ /\ first[p])]
  /\ first'     = [first EXCEPT ![p] = FALSE]
  /\ UNCHANGED <<authVars, code, mem, pidFile, creds, unit, last, torn>>

\* The socket closes otherwise: scheduleReconnect.
WillRedial(p) ==
  /\ Moves(p, "backoff")
  /\ first' = [first EXCEPT ![p] = FALSE]
  /\ UNCHANGED <<repairing, code, mem, pidFile>>

\* The first dial does not reach the relay: start() rejects, the process exits. Of a redial,
\* and of a hello whose check could not be made (close 1013), only the socket closes.
DialFails(p) ==
  /\ pc[p] \in {"dialing", "open"}
  /\ Fault
  /\ \/ pc[p] = "dialing" /\ first[p] /\ Exits(p)
     \/ WillRedial(p)
  /\ UNCHANGED <<row, grant, creds, unit, last, torn>>

Redials(p) ==
  /\ pc[p] = "backoff"
  /\ Moves(p, "dialing")
  /\ UNCHANGED <<authVars, first, repairing, code, mem, pidFile, creds, unit, last, torn>>

\* maxConnectionAge: the relay closes every socket some time.
ConnectionAges(p) ==
  /\ pc[p] = "open"
  /\ WillRedial(p)
  /\ UNCHANGED <<authVars, creds, unit, last, torn>>

\* Mutant: a process without a daemon lives on.
StaysIdle(p) ==
  /\ pc[p] = "idle"
  /\ UNCHANGED allVars

\* Nothing keeps a process alive that has no daemon, once the last of its runs has ended.
LoopIsEmpty(p) ==
  /\ pc[p] = "idle"
  /\ Exits(p)
  /\ UNCHANGED <<authVars, creds, unit, last, torn>>

-----------------------------------------------------------------------------
(* The user, the login service, and what befalls the machine *)

\* SIGINT in the terminal.
Quits ==
  /\ pc["terminal"] # "off"
  /\ Exits("terminal")
  /\ torn' = (torn \/ pc["terminal"] = "writing")
  /\ UNCHANGED <<authVars, creds, unit, last>>

\* launchctl bootout, systemctl stop: the process gets SIGTERM.
Unloads(to) ==
  /\ unit' = to
  /\ Exits("service")
  /\ torn' = (torn \/ pc["service"] = "writing")
  /\ UNCHANGED <<authVars, creds, last>>

\* `service install`, `start`, a login: a loaded service is unloaded first, and loading it
\* again may fail.
ServiceInstalls == \E to \in {"installed", "loaded"} : Unloads(to)
ServiceStarts   == unit # "absent" /\ \E to \in {"installed", "loaded"} : Unloads(to)
ServiceStops    == unit = "loaded" /\ Unloads("installed")
ServiceUninstalls == unit # "absent" /\ Unloads("absent")
LogsIn ==
  /\ unit = "installed"
  /\ unit' = "loaded"
  /\ UNCHANGED <<authVars, pc, first, repairing, code, mem, pidFile, creds, last, torn>>

\* A process is killed, or the machine loses power: the pid file stays.
Killed(p) ==
  /\ pc[p] # "off"
  /\ Fault
  /\ Dies(p)
  /\ torn' = (torn \/ pc[p] = "writing")
  /\ UNCHANGED <<row, grant, pidFile, creds, unit, last>>

\* The relay restarts: every socket closes.
RelayGoes ==
  /\ RelayRestarts
  /\ pc'    = [p \in Proc |-> IF pc[p] \in {"dialing", "open"} THEN "backoff" ELSE pc[p]]
  /\ first' = [p \in Proc |-> FALSE]
  /\ UNCHANGED <<repairing, code, mem, pidFile, creds, unit, last, torn>>

\* The relay's own steps, and what users do with codes and devices.
RelayStep ==
  /\ \/ \E c \in Code : \/ CheckEvidence(c) \/ CheckFails(c) \/ Expire(c)
                        \/ \E u \in User : Approve(c, u)
                        \/ BindRestores(c) \/ BindCreates(c) \/ BindFails(c)
     \/ \E d \in Device : Revoke(d)
  /\ UNCHANGED procVars

ProcStep(p) ==
  \/ Starts(p)
  \/ AsksForCode(p) \/ PollsApproved(p) \/ PollsInVain(p) \/ PollsExpired(p)
  \/ Truncates(p) \/ Saves(p)
  \/ HelloAcked(p) \/ HelloRejected(p) \/ DialFails(p) \/ Redials(p)
  \/ ConnectionAges(p) \/ LoopIsEmpty(p)
  \/ Killed(p)

Next ==
  \/ \E p \in Proc : ProcStep(p)
  \/ Quits
  \/ ServiceInstalls \/ ServiceStarts \/ ServiceStops \/ ServiceUninstalls \/ LogsIn
  \/ RelayGoes \/ RelayStep

Init == AuthInit /\ ProcInit

Spec == Init /\ [][Next]_allVars

\* What the machine and the relay do unasked: the service manager starts the service, a
\* process goes on, the relay answers and ages sockets, stopped runs end, codes expire.
Fairness ==
  /\ \A p \in Proc :
       /\ WF_allVars(AsksForCode(p))
       /\ WF_allVars(PollsApproved(p)) /\ WF_allVars(PollsExpired(p))
       /\ WF_allVars(Truncates(p)) /\ WF_allVars(Saves(p))
       /\ WF_allVars(HelloAcked(p)) /\ WF_allVars(HelloRejected(p))
       /\ WF_allVars(Redials(p)) /\ WF_allVars(ConnectionAges(p))
       /\ WF_allVars(LoopIsEmpty(p))
  /\ WF_allVars(Starts("service"))
  /\ \A c \in Code : WF_allVars(CheckEvidence(c) /\ UNCHANGED procVars)

FairSpec == Spec /\ Fairness

-----------------------------------------------------------------------------
\* A machine that was paired keeps its device through a new pairing, unless another user
\* approved it, or the token of its row was replaced by another grant, one that never
\* reached the machine, or the process died while it saved its credentials.
PairingKeepsTheDevice ==
  [][last' # last /\ last # NoCreds =>
       \/ last'.device = last.device
       \/ row[last.device].owner # row[last'.device].owner
       \/ row[last.device].token \notin {last.token, last'.token}
       \/ torn]_allVars

\* A revoked device does not stay on the relay: its socket ages, its next hello is refused,
\* and a new pairing under way makes it another token.
RevokedIsCutOff ==
  \A d \in Device :
    <>[](row[d].revoked) => <>[](\A p \in Proc : pc[p] = "open" => mem[p].device # d)

\* The user stops the program or has the service manager reload it.
UserInterferes ==
  Quits \/ ServiceInstalls \/ ServiceStarts \/ ServiceStops \/ ServiceUninstalls

\* A process that would ask for a code, with all the codes of the bound asked for.
OutOfCodes == (\E p \in Proc : pc[p] = "asking") /\ \A c \in Code : grant[c].stage # "unused"

\* Unless the user interferes for ever, the machine of a loaded service comes back to the
\* relay, or asks to be paired, again and again: whatever was revoked, failed or crashed,
\* and when a repair fails or the repaired daemon is rejected again, the program neither
\* hangs without a daemon nor redials with a dead token.
ServiceComesBack ==
  \/ []<><<UserInterferes>>_allVars
  \/ []<>(unit # "loaded" \/ (\E p \in Proc : pc[p] \in {"open", "polling"}) \/ OutOfCodes)
=============================================================================
