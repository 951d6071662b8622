---------------------------- MODULE MCDaemonLocal ---------------------------
(* Four parts of a daemon that share no state, each in its own behaviours:    *)
(* the adoption of terminal sessions (Adoption), the record of a session on   *)
(* disk (SessionStore), its transcript, mirrored from a log of three lines of *)
(* different lengths (TranscriptMirror), and the link to the relay            *)
(* (LinkHealth, which is about a tab's link too).                             *)
EXTENDS SessionStore, Adoption, TranscriptMirror, LinkHealth

VARIABLE part   \* the one the behaviour is about

ThreeLines == <<2, 5, 7>>

InitOfAny ==
  /\ Init /\ AdoptionInit /\ MirrorInit /\ LinkInit
  /\ part \in {"adoption", "record", "transcript", "link"}

NextOfAny ==
  /\ UNCHANGED part
  /\ \/ part = "adoption" /\ AdoptionNext /\ UNCHANGED <<vars, mirrorVars, linkVars>>
     \/ part = "record" /\ Next /\ UNCHANGED <<adoptionVars, mirrorVars, linkVars>>
     \/ part = "transcript" /\ MirrorNext /\ UNCHANGED <<vars, adoptionVars, linkVars>>
     \/ part = "link" /\ LinkNext /\ UNCHANGED <<vars, adoptionVars, mirrorVars>>

OnLink(A) == part = "link" /\ A

\* The fairness of Adoption and of LinkHealth, each in the behaviours that are about it.
SpecOfAny ==
  /\ InitOfAny /\ [][NextOfAny]_<<vars, adoptionVars, mirrorVars, linkVars, part>>
  /\ \A c \in Claude : WF_adoptionVars(part = "adoption" /\ AckTimesOut(c))
  /\ WF_linkVars(OnLink(Probes)) /\ WF_linkVars(OnLink(Sweeps))
  /\ WF_linkVars(OnLink(\E s \in Socket : Dials(s)))
  /\ \A s \in Socket :
       /\ WF_linkVars(OnLink(Connects(s))) /\ WF_linkVars(OnLink(Accepts(s)))
       /\ WF_linkVars(OnLink(ClientHears(s))) /\ WF_linkVars(OnLink(RelayHears(s)))
       /\ WF_linkVars(OnLink(\E f \in Frame : ClientReads(s, f)))
       /\ WF_linkVars(OnLink(\E f \in Frame : RelayReads(s, f)))

\* LinkComesBack, in the behaviours that are about the link.
LinkReturns == part = "link" => LinkComesBack
=============================================================================
