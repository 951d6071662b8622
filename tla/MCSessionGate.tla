--------------------------- MODULE MCSessionGate ---------------------------
(* Two small instances of SessionGate, each in its own behaviours: one session *)
(* with two turns and all the calls, and two sessions side by side, a turn and *)
(* a call each, that wait in the maps both share.                              *)
EXTENDS SessionGate, TLC

CONSTANTS s1, s2, g1, g2

VARIABLE sessions   \* the instance the behaviour is about

InitOfEither == Init /\ sessions \in {"one", "two"}

\* In the second, call g1 is s1's and g2 is s2's: calls are interchangeable.  Both sessions
\* gate in the default mode, and one tab decides.
NextOfEither ==
  /\ Next /\ UNCHANGED sessions
  /\ \/ sessions = "one" /\ launch'[s2] = "unsent" /\ s2 \notin ended'
     \/ /\ sessions = "two" /\ UNCHANGED mode
        /\ \A s \in Session : turn'[s] <= 1
        /\ owner'[g1] # s2 /\ owner'[g2] # s1
        /\ \A g \in Gate : \A b, c \in sent'[g] : b = c

SpecOfEither == InitOfEither /\ [][NextOfEither]_<<vars, sessions>> /\ Fairness
=============================================================================
