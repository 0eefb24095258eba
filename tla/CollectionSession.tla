------------------------- MODULE CollectionSession -------------------------
(***************************************************************************)
(* What the firmware promises whoever sits at the console: sessions come   *)
(* one at a time, each runs with the settings in force when it was asked   *)
(* for, a run ends only at its deadline or because its own session was     *)
(* asked to stop, the prompt is back only once it has ended, and a reset   *)
(* never cuts a run short.  CollectionLifecycle implements this.           *)
(***************************************************************************)
CONSTANTS Configs, DefaultConfig

VARIABLES phase,     \* "idle", "requested", "collecting" or "ended"
          kind,      \* "timed" or "forever" from the request to the end, else "none"
          settings,  \* what a run starting, or running, now uses
          asked      \* the current session was asked to stop

vars == <<phase, kind, settings, asked>>

Init == phase = "idle" /\ kind = "none" /\ settings = DefaultConfig /\ asked = FALSE

Configure ==
  /\ phase = "idle"
  /\ settings' \in Configs
  /\ UNCHANGED <<phase, kind, asked>>

Start ==
  /\ phase = "idle"
  /\ phase' = "requested"
  /\ kind' \in {"timed", "forever"}
  /\ asked' = FALSE
  /\ UNCHANGED settings

AskStop ==
  /\ phase # "idle"
  /\ asked' = TRUE
  /\ UNCHANGED <<phase, kind, settings>>

Begin ==
  /\ phase = "requested"
  /\ phase' = "collecting"
  /\ UNCHANGED <<kind, settings, asked>>

End ==
  /\ phase = "collecting"
  /\ kind = "timed" \/ asked
  /\ phase' = "ended"
  /\ kind' = "none"
  /\ UNCHANGED <<settings, asked>>

Unlock ==
  /\ phase = "ended"
  /\ phase' = "idle"
  /\ UNCHANGED <<kind, settings, asked>>

Reset ==
  /\ phase # "collecting"
  /\ phase' = "idle"
  /\ kind' = "none"
  /\ settings' = DefaultConfig
  /\ asked' = FALSE

Next == Configure \/ Start \/ AskStop \/ Begin \/ End \/ Unlock \/ Reset

Spec == Init /\ [][Next]_vars

FairSpec == Spec /\ WF_vars(Begin) /\ WF_vars(End) /\ WF_vars(Unlock)
=============================================================================
