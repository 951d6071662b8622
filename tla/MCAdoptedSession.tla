-------------------------- MODULE MCAdoptedSession --------------------------
(* Two small instances of AdoptedSession, each in its own behaviours: two     *)
(* handlers of hook events that overlap, and a terminal the user escapes; and *)
(* handlers one at a time over a restart.  Hook events and takes are          *)
(* interchangeable.                                                           *)
EXTENDS AdoptedSession, TLC

VARIABLE about   \* the instance the behaviour is about

InitOfEither == AdoptedInit /\ about \in {"overlaps", "restart"}

NextOfEither ==
  /\ AdoptedNext /\ UNCHANGED about
  /\ \/ about = "overlaps" /\ UNCHANGED restarts
     \/ /\ about = "restart" /\ UNCHANGED escapes
        /\ Cardinality({h \in Hook : hook'[h] # NoHook}) <= 1

SpecOfEither == InitOfEither /\ [][NextOfEither]_<<adoptedVars, about>>

Symmetry == Permutations(Hook) \cup Permutations(Take)
=============================================================================
