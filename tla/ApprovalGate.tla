---------------------------- MODULE ApprovalGate ----------------------------
(***************************************************************************)
(* What telecode promises of its approval gate, with nothing of how: every *)
(* tool call an agent makes is waived by the session's mode, or stays open *)
(* until it is granted or refused, once; granting an open call takes an    *)
(* operator's "allow" for that call, refusing it takes nobody (a timeout,  *)
(* an interrupt or a shutdown may do it, to several calls at once).        *)
(***************************************************************************)
CONSTANT Gate

VARIABLES call,   \* of each tool call: new, open, granted or refused
          vote    \* what operators said of it

vars == <<call, vote>>

Init == /\ call = [g \in Gate |-> "new"]
        /\ vote = [g \in Gate |-> {}]

\* The calls of G move to the state v together.
Move(G, v) == /\ call' = [g \in Gate |-> IF g \in G THEN v ELSE call[g]]
              /\ UNCHANGED vote

Waive(g) == call[g] = "new" /\ Move({g}, "granted")

Open(g) == call[g] = "new" /\ Move({g}, "open")

Vote(g) == /\ call[g] # "new"
           /\ \E b \in {"allow", "deny", "answer"} :
                vote' = [vote EXCEPT ![g] = @ \cup {b}]
           /\ UNCHANGED call

Grant(g) == call[g] = "open" /\ "allow" \in vote[g] /\ Move({g}, "granted")

Refuse(G) == (\A g \in G : call[g] = "open") /\ Move(G, "refused")

Next == \/ \E g \in Gate : Waive(g) \/ Open(g) \/ Vote(g) \/ Grant(g)
        \/ \E G \in SUBSET Gate : Refuse(G)

Spec == Init /\ [][Next]_vars
=============================================================================
