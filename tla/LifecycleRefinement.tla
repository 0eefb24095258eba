------------------------ MODULE LifecycleRefinement ------------------------
(***************************************************************************)
(* CollectionLifecycle implements CollectionSession.  A session is seen    *)
(* through its baton: the pending START, the run, the pending DONE.        *)
(***************************************************************************)
EXTENDS CollectionLifecycle

Phase == IF ~isCollecting THEN "idle"
         ELSE IF startSignal # NoStart THEN "requested"
         ELSE IF Active THEN "collecting"
         ELSE "ended"

Kind == IF startSignal # NoStart THEN startSignal ELSE duration

Settings == IF Active THEN runCfg ELSE cfg

Session == INSTANCE CollectionSession
             WITH phase <- Phase, kind <- Kind, settings <- Settings, asked <- stopAsked

(* Every behaviour of the tasks is one the console promise allows.         *)
ImplementsSession == Session!Spec

(* With the executor fair, a requested session begins, one that is asked   *)
(* to stop or has a deadline ends, and an ended one gives the prompt back. *)
ImplementsFairSession == Session!FairSpec
=============================================================================
