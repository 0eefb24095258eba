---------------------------- MODULE MCLifecycle ----------------------------
(***************************************************************************)
(* Instances of CollectionLifecycle for TLC: the vocabularies a host may   *)
(* type.                                                                   *)
(***************************************************************************)
EXTENDS LifecycleRefinement

AllTokens == Tokens

(* The sessions, the stop key, the restart, a settings change, and Enter.  *)
CoreTokens == {"start --duration", "start", "q", "restart", "set", "enter"}
=============================================================================
