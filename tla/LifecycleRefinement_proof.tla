--------------------- MODULE LifecycleRefinement_proof ---------------------
(***************************************************************************)
(* Builds with the raw peek implement CollectionSession: every step of the *)
(* two tasks is a step of the session or leaves it alone.                  *)
(***************************************************************************)
EXTENDS LifecycleRefinement, CollectionLifecycle_proof

LEMMA InitMaps == Init => Session!Init
  BY DEF Init, Session!Init, Phase, Kind, Settings, Active, NoStart

LEMMA StepMaps ==
  ASSUME PeekBuild, IInv, [Next]_vars
  PROVE  [Session!Next]_(Session!vars)
<1> DEFINE Goal == [Session!Next]_(Session!vars)
<1> SUFFICES Goal
  OBVIOUS
<1>a. FlagTypes /\ RunTypes /\ OneBaton /\ SettingsFrozen /\ RunState /\ StopState /\ PanicAtPrompt
  BY DEF IInv, TypeOK
<1> USE <1>a, BatonFacts DEF FlagTypes, RunTypes, SettingsFrozen, RunState, StopState,
        Phase, Kind, Settings, Active, NoStart, Durations, signals, run
(* Steps the console promise does not see.                                 *)
<1>1. ASSUME UNCHANGED <<isCollecting, startSignal, pc, duration, cfg, runCfg, stopAsked>>
      PROVE  Goal
  BY <1>1 DEF Session!vars
<1>2. ASSUME NEW t \in HostTokens, HostSend(t) PROVE Goal
  BY <1>1, <1>2 DEF HostSend
<1>3. CASE CliRestart
  BY <1>1, <1>3 DEF CliRestart, Command, AtPrompt
<1>4. CASE CliNoEffect
  BY <1>1, <1>4 DEF CliNoEffect, Command, AtPrompt
<1>5. CASE CliEdit
  <2>1. UNCHANGED <<isCollecting, startSignal, pc, duration, cfg, runCfg, stopAsked>>
    BY <1>5 DEF CliEdit, AtPrompt
  <2> QED
    BY <1>1, <2>1
<1>6. CASE CliReadPanics
  BY <1>1, <1>6 DEF CliReadPanics
<1>7. CASE LockedReadError
  BY <1>1, <1>7 DEF LockedReadError
<1>8. CASE WatcherStops
  BY <1>1, <1>8 DEF WatcherStops
(* The session's own steps.                                                *)
<1>9. CASE CliConfigure
  <2>1. ~isCollecting /\ cfg' \in Configs
        /\ UNCHANGED <<isCollecting, signals, run, stopAsked>>
    BY <1>9, ConstantFacts DEF CliConfigure, Command, AtPrompt
  <2>2. Session!Configure
    BY <2>1 DEF Session!Configure
  <2> QED
    BY <2>2 DEF Session!Next
<1>10. CASE CliStart
  <2>1. /\ ~isCollecting /\ isCollecting' = TRUE
        /\ startSignal' \in Durations /\ stopAsked' = FALSE
        /\ UNCHANGED <<run, cfg>>
    BY <1>10 DEF CliStart, Command, AtPrompt, Lock
  <2>2. Session!Start
    BY <2>1 DEF Session!Start
  <2> QED
    BY <2>2 DEF Session!Next
<1>11. ASSUME isCollecting, DrainBurst,
              UNCHANGED <<isCollecting, startSignal, cfg, run>>
       PROVE  Goal
  <2>1. CASE stopAsked'
    <3>1. stopAsked' = TRUE
      BY <2>1, <1>11 DEF DrainBurst
    <3>2. Session!AskStop
      BY <3>1, <1>11 DEF Session!AskStop
    <3> QED
      BY <3>2 DEF Session!Next
  <2>2. CASE ~stopAsked'
    <3>1. stopAsked' = stopAsked
      BY <2>2, <1>11 DEF DrainBurst
    <3> QED
      BY <3>1, <1>1, <1>11
  <2> QED
    BY <2>1, <2>2
<1>12. CASE LockedPeek
  BY <1>11, <1>12 DEF LockedPeek
<1>13. CASE LockedRead
  BY <1>11, <1>13 DEF LockedRead
<1>14. CASE TakeStart
  <2>1. Session!Begin
    BY <1>14 DEF TakeStart, Snapshot, Session!Begin
  <2> QED
    BY <2>1 DEF Session!Next
<1>15. CASE RunWindsDown
  BY <1>1, <1>15 DEF RunWindsDown, Session!vars
<1>16. CASE RunEnds
  <2>1. Session!End
    BY <1>16 DEF RunEnds, DropPendingStop, SignalDone, HonourRestart, RadioOff, Session!End
  <2> QED
    BY <2>1 DEF Session!Next
<1>17. CASE LockedDone
  <2>1. Session!Unlock
    BY <1>17 DEF LockedDone, Session!Unlock
  <2> QED
    BY <2>1 DEF Session!Next
<1>18. CASE TakeRestart
  BY <1>18 DEF TakeRestart, RadioOff, Session!vars
<1>19. CASE WatchdogReset
  <2>1. ~Active
    <3>1. CASE halted
      BY <3>1 DEF PanicAtPrompt
    <3> QED
      BY <1>19, <3>1 DEF WatchdogReset
  <2>2. Session!Reset
    BY <1>19, <2>1 DEF WatchdogReset, Reboot, Session!Reset
  <2> QED
    BY <2>2 DEF Session!Next
<1>20. CASE UNCHANGED vars
  BY <1>1, <1>20 DEF vars
<1> QED
  BY <1>2, <1>3, <1>4, <1>5, <1>6, <1>7, <1>8, <1>9, <1>10, <1>12, <1>13, <1>14, <1>15,
     <1>16, <1>17, <1>18, <1>19, <1>20 DEF Next, MainTask, CollectionTask

(* Every behaviour of a peek build's tasks is one the session allows.      *)
THEOREM SessionImplemented ==
  ASSUME PeekBuild
  PROVE  Spec => ImplementsSession
<1>1. IInv /\ [Next]_vars => [Session!Next]_(Session!vars)
  BY StepMaps
<1> QED
  BY <1>1, InitMaps, Invariance, PTL DEF Spec, ImplementsSession, Session!Spec
=============================================================================
