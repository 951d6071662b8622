---------------------------- MODULE MCSessionMeta ----------------------------
(* SessionMeta alone: how a branch becomes unknown. *)
EXTENDS SessionMeta
=============================================================================
