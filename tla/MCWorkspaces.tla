---------------------------- MODULE MCWorkspaces ----------------------------
(* Small instances of Workspaces, each in its own behaviours: a launched      *)
(* session and its continuation on one socket, and a launched session alone   *)
(* over a redial, with the chains of two sockets.                             *)
EXTENDS Workspaces

VARIABLE about   \* the instance the behaviour is about

InitOfEither == Init /\ about \in {"continuation", "redial"}

NextOfEither ==
  /\ Next /\ UNCHANGED about
  /\ \/ about = "continuation" /\ UNCHANGED link
     \/ about = "redial" /\ \A s \in Session \ Launched : making'[s] = Unmade

SpecOfEither == InitOfEither /\ [][NextOfEither]_<<vars, about>>
=============================================================================
