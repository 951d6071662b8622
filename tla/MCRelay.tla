------------------------------- MODULE MCRelay -------------------------------
(* The relay, each half in its own behaviours: who is on a channel           *)
(* (RelayChannel, two daemon sockets and two tabs), and what becomes of a     *)
(* row (RelayRegistry, one session, two daemon sockets, one tab).             *)
(* Sockets, sessions and tabs are interchangeable.                           *)
EXTENDS RelayChannel, RelayRegistry, TLC

VARIABLE half   \* the one the behaviour is about

InitOfEither == Init /\ RegistryInit /\ half \in {"channel", "rows"}

NextOfEither ==
  /\ UNCHANGED half
  /\ \/ half = "channel" /\ Next /\ UNCHANGED registryVars
     \/ half = "rows" /\ RegistryNext /\ UNCHANGED vars

SpecOfEither == InitOfEither /\ [][NextOfEither]_<<vars, registryVars, half>>

Symmetry == UNION {Permutations(S) : S \in {Daemon, Browser, Session, Link, Tab}}
=============================================================================
