--------------------- MODULE CollectionLifecycle_proof ---------------------
(***************************************************************************)
(* CollectionLifecycle's invariants, for every build, host vocabulary,     *)
(* set of configurations and FIFO size.                                    *)
(***************************************************************************)
EXTENDS CollectionLifecycle, TLAPS

-----------------------------------------------------------------------------
(***************************************************************************)
(* Taking a prefix off a FIFO leaves a FIFO no longer than it was.         *)
(***************************************************************************)
LEMMA SuffixIsShorter ==
  ASSUME NEW S, NEW s \in Seq(S), NEW n \in 1..Len(s)
  PROVE  /\ SubSeq(s, n + 1, Len(s)) \in Seq(S)
         /\ Len(SubSeq(s, n + 1, Len(s))) <= Len(s)
<1>1. n \in Nat /\ Len(s) \in Nat /\ n >= 1 /\ n <= Len(s)
  OBVIOUS
<1>2. SubSeq(s, n + 1, Len(s)) \in Seq(S)
  BY <1>1
<1>3. Len(SubSeq(s, n + 1, Len(s))) = Len(s) - n
  BY <1>1
<1> QED
  BY <1>1, <1>2, <1>3

LEMMA TailIsShorter ==
  ASSUME NEW S, NEW s \in Seq(S), s # <<>>
  PROVE  Tail(s) \in Seq(S) /\ Len(Tail(s)) <= Len(s)
  OBVIOUS

LEMMA AppendIsLonger ==
  ASSUME NEW S, NEW s \in Seq(S), NEW e \in S
  PROVE  Append(s, e) \in Seq(S) /\ Len(Append(s, e)) = Len(s) + 1
  OBVIOUS

-----------------------------------------------------------------------------
(***************************************************************************)
(* Types.                                                                  *)
(***************************************************************************)
(* The assumption, as the provers want it.                                 *)
LEMMA ConstantFacts ==
  /\ Transports # {}
  /\ HostTokens \subseteq Tokens
  /\ DefaultConfig \in Configs
  /\ RxCapacity \in Nat \ {0}
  /\ HostBudget \in Nat
  BY ConstantsAssumption DEF ConstantsAssumption

LEMMA TypeInit == Init => TypeOK
<1> SUFFICES ASSUME Init PROVE TypeOK
  OBVIOUS
<1>1. FlagTypes
  BY DEF Init, FlagTypes
<1>2. RunTypes
  BY ConstantFacts DEF Init, RunTypes
<1>3. ConsoleTypes
  <2>1. rx \in Seq(Tokens) /\ Len(rx) <= RxCapacity
    BY ConstantFacts DEF Init
  <2>2. sent \in 0..HostBudget
    BY ConstantFacts DEF Init
  <2>3. transport \in Transports /\ overrun \in BOOLEAN
    BY DEF Init
  <2> QED
    BY <2>1, <2>2, <2>3 DEF ConsoleTypes
<1> QED
  BY <1>1, <1>2, <1>3 DEF TypeOK

LEMMA FlagStep == ASSUME FlagTypes, RunTypes, [Next]_vars PROVE FlagTypes'
<1> USE DEF FlagTypes, signals
<1>1. ASSUME NEW t \in HostTokens, HostSend(t) PROVE FlagTypes'
  BY <1>1 DEF HostSend
<1>2. CASE CliStart
  BY <1>2 DEF CliStart, Command, AtPrompt, Lock, system
<1>3. CASE CliRestart
  BY <1>3 DEF CliRestart, Command, AtPrompt, system
<1>4. CASE CliConfigure
  BY <1>4 DEF CliConfigure, Command, AtPrompt, system
<1>5. CASE CliNoEffect
  BY <1>5 DEF CliNoEffect, Command, AtPrompt, system
<1>6. CASE CliEdit
  BY <1>6 DEF CliEdit, AtPrompt, system
<1>7. CASE CliReadPanics
  BY <1>7 DEF CliReadPanics
<1>8. CASE LockedPeek
  BY <1>8 DEF LockedPeek, DrainBurst, system
<1>9. CASE LockedRead
  BY <1>9 DEF LockedRead, DrainBurst, system
<1>10. CASE LockedReadError
  BY <1>10 DEF LockedReadError, system
<1>11. CASE LockedDone
  BY <1>11 DEF LockedDone, system
<1>12. CASE TakeStart
  BY <1>12 DEF TakeStart, system
<1>13. CASE TakeRestart
  BY <1>13 DEF TakeRestart, system
<1>14. CASE WatcherStops
  BY <1>14 DEF WatcherStops, system
<1>15. CASE RunWindsDown
  BY <1>15 DEF RunWindsDown, system
<1>16. CASE RunEnds
  BY <1>16 DEF RunEnds, DropPendingStop, SignalDone, system
<1>17. CASE WatchdogReset
  BY <1>17 DEF WatchdogReset, Reboot
<1>18. CASE UNCHANGED vars
  BY <1>18 DEF vars, system
<1> QED
  BY <1>1, <1>2, <1>3, <1>4, <1>5, <1>6, <1>7, <1>8, <1>9, <1>10, <1>11, <1>12, <1>13,
     <1>14, <1>15, <1>16, <1>17, <1>18 DEF Next, MainTask, CollectionTask

LEMMA RunStep == ASSUME FlagTypes, RunTypes, [Next]_vars PROVE RunTypes'
<1> USE DEF RunTypes, run
<1>1. ASSUME NEW t \in HostTokens, HostSend(t) PROVE RunTypes'
  BY <1>1 DEF HostSend
<1>2. CASE CliStart
  BY <1>2 DEF CliStart, Command, AtPrompt
<1>3. CASE CliRestart
  BY <1>3 DEF CliRestart, Command, AtPrompt
<1>4. CASE CliConfigure
  BY <1>4, ConstantFacts DEF CliConfigure, Command, AtPrompt
<1>5. CASE CliNoEffect
  BY <1>5 DEF CliNoEffect, Command, AtPrompt
<1>6. CASE CliEdit
  BY <1>6 DEF CliEdit, AtPrompt
<1>7. CASE CliReadPanics
  BY <1>7 DEF CliReadPanics
<1>8. CASE LockedPeek
  BY <1>8 DEF LockedPeek
<1>9. CASE LockedRead
  BY <1>9 DEF LockedRead
<1>10. CASE LockedReadError
  BY <1>10 DEF LockedReadError
<1>11. CASE LockedDone
  BY <1>11 DEF LockedDone
<1>12. CASE TakeStart
  BY <1>12 DEF TakeStart, Snapshot, FlagTypes
<1>13. CASE TakeRestart
  BY <1>13 DEF TakeRestart, RadioOff
<1>14. CASE WatcherStops
  BY <1>14 DEF WatcherStops
<1>15. CASE RunWindsDown
  BY <1>15 DEF RunWindsDown
<1>16. CASE RunEnds
  BY <1>16 DEF RunEnds, HonourRestart, RadioOff
<1>17. CASE WatchdogReset
  BY <1>17, ConstantFacts DEF WatchdogReset, Reboot
<1>18. CASE UNCHANGED vars
  BY <1>18 DEF vars
<1> QED
  BY <1>1, <1>2, <1>3, <1>4, <1>5, <1>6, <1>7, <1>8, <1>9, <1>10, <1>11, <1>12, <1>13,
     <1>14, <1>15, <1>16, <1>17, <1>18 DEF Next, MainTask, CollectionTask

LEMMA ConsoleStep == ASSUME ConsoleTypes, [Next]_vars PROVE ConsoleTypes'
<1> USE DEF ConsoleTypes, console, system
(* Three things happen to the console: a token arrives, the FIFO is read,  *)
(* or neither.                                                             *)
<1>1. ASSUME NEW t \in HostTokens, HostSend(t) PROVE ConsoleTypes'
  <2>1. CASE Len(rx) < RxCapacity /\ rx' = Append(rx, t) /\ UNCHANGED overrun
    <3>1. rx' \in Seq(Tokens) /\ Len(rx') <= RxCapacity
      BY <2>1, AppendIsLonger, ConstantFacts
    <3> QED
      BY <1>1, <2>1, <3>1, ConstantFacts DEF HostSend
  <2>2. CASE overrun' = TRUE /\ UNCHANGED rx
    BY <1>1, <2>2, ConstantFacts DEF HostSend
  <2> QED
    BY <1>1, <2>1, <2>2 DEF HostSend, Receive
<1>2. ASSUME NEW t, AtPrompt(t) PROVE ConsoleTypes'
  <2>1. rx' \in Seq(Tokens) /\ Len(rx') <= Len(rx)
    BY <1>2, TailIsShorter DEF AtPrompt
  <2> QED
    BY <1>2, <2>1, ConstantFacts DEF AtPrompt
<1>3. ASSUME DrainBurst, UNCHANGED <<system, overrun>> PROVE ConsoleTypes'
  <2>1. PICK n \in 1..Len(rx) : rx' = SubSeq(rx, n + 1, Len(rx))
    BY <1>3 DEF DrainBurst
  <2>2. rx' \in Seq(Tokens) /\ Len(rx') <= Len(rx)
    BY <2>1, SuffixIsShorter
  <2> QED
    BY <1>3, <2>2, ConstantFacts
<1>4. CASE CliStart
  BY <1>2, <1>4 DEF CliStart, Command
<1>5. CASE CliRestart
  BY <1>2, <1>5 DEF CliRestart, Command
<1>6. CASE CliConfigure
  BY <1>2, <1>6 DEF CliConfigure, Command
<1>7. CASE CliNoEffect
  BY <1>2, <1>7 DEF CliNoEffect, Command
<1>8. CASE CliEdit
  BY <1>2, <1>8 DEF CliEdit
<1>9. CASE CliReadPanics
  BY <1>9 DEF CliReadPanics
<1>10. CASE LockedPeek
  BY <1>3, <1>10 DEF LockedPeek
<1>11. CASE LockedRead
  BY <1>3, <1>11 DEF LockedRead
<1>12. CASE LockedReadError
  <2>1. CASE rx' = <<>>
    <3>1. rx' \in Seq(Tokens) /\ Len(rx') <= RxCapacity
      BY <2>1, ConstantFacts
    <3> QED
      BY <1>12, <3>1 DEF LockedReadError
  <2>2. CASE rx' = rx
    BY <1>12, <2>2 DEF LockedReadError
  <2> QED
    BY <1>12, <2>1, <2>2 DEF LockedReadError
<1>13. CASE LockedDone
  BY <1>13 DEF LockedDone
<1>14. CASE TakeStart
  BY <1>14 DEF TakeStart
<1>15. CASE TakeRestart
  BY <1>15 DEF TakeRestart
<1>16. CASE WatcherStops
  BY <1>16 DEF WatcherStops
<1>17. CASE RunWindsDown
  BY <1>17 DEF RunWindsDown
<1>18. CASE RunEnds
  BY <1>18 DEF RunEnds
<1>19. CASE WatchdogReset
  <2>1. rx' = <<>> /\ transport' \in Transports /\ overrun' = FALSE /\ UNCHANGED sent
    BY <1>19 DEF WatchdogReset, Reboot
  <2>2. rx' \in Seq(Tokens) /\ Len(rx') <= RxCapacity
    BY <2>1, ConstantFacts
  <2> QED
    BY <2>1, <2>2
<1>20. CASE UNCHANGED vars
  BY <1>20 DEF vars
<1> QED
  BY <1>1, <1>4, <1>5, <1>6, <1>7, <1>8, <1>9, <1>10, <1>11, <1>12, <1>13, <1>14,
     <1>15, <1>16, <1>17, <1>18, <1>19, <1>20 DEF Next, MainTask, CollectionTask

LEMMA TypeStep == TypeOK /\ [Next]_vars => TypeOK'
  BY FlagStep, RunStep, ConsoleStep DEF TypeOK

(* Every variable keeps its type, and the FIFO its bound.                  *)
THEOREM TypeCorrect == Spec => []TypeOK
  BY TypeInit, TypeStep, PTL DEF Spec

-----------------------------------------------------------------------------
(***************************************************************************)
(* The hand-over between the tasks.                                        *)
(***************************************************************************)
(* OneBaton with its CASE unfolded.                                        *)
LEMMA BatonFacts ==
  OneBaton <=>
    IF isCollecting
    THEN \/ startSignal # NoStart /\ ~Active /\ ~doneSignal
         \/ startSignal = NoStart /\ Active /\ ~doneSignal
         \/ startSignal = NoStart /\ ~Active /\ doneSignal
    ELSE startSignal = NoStart /\ ~Active /\ ~doneSignal
  BY DEF OneBaton, Batons, Holds

LEMMA BatonFactsNext ==
  OneBaton' <=>
    IF isCollecting'
    THEN \/ startSignal' # NoStart /\ ~Active' /\ ~doneSignal'
         \/ startSignal' = NoStart /\ Active' /\ ~doneSignal'
         \/ startSignal' = NoStart /\ ~Active' /\ doneSignal'
    ELSE startSignal' = NoStart /\ ~Active' /\ ~doneSignal'
  BY DEF OneBaton, Batons, Holds

LEMMA InvInit == Init => IInv
<1> SUFFICES ASSUME Init PROVE IInv
  OBVIOUS
<1>1. OneBaton
  BY BatonFacts DEF Init, Active, NoStart
<1>2. SettingsFrozen /\ RunState /\ StopState /\ RestartState /\ PanicAtPrompt
  BY DEF Init, SettingsFrozen, RunState, StopState, RestartState, PanicAtPrompt, Active,
     NoStart
<1> QED
  BY <1>1, <1>2, TypeInit DEF IInv

(***************************************************************************)
(* One step per action.  At the prompt there is no baton, so a command can *)
(* only create one; in the lock loop the keyboard can only latch a stop    *)
(* for the session that holds the baton.                                   *)
(***************************************************************************)
LEMMA HandoverStep ==
  ASSUME FlagTypes, RunTypes, OneBaton, SettingsFrozen, RunState, StopState, [Next]_vars
  PROVE  OneBaton' /\ SettingsFrozen' /\ RunState' /\ StopState'
<1> DEFINE Goal == OneBaton' /\ SettingsFrozen' /\ RunState' /\ StopState'
<1> SUFFICES Goal
  OBVIOUS
<1> USE BatonFacts, BatonFactsNext
    DEF FlagTypes, RunTypes, Active, NoStart, Durations, PeekBuild,
        SettingsFrozen, RunState, StopState, signals, run
<1>1. ASSUME NEW t \in HostTokens, HostSend(t) PROVE Goal
  BY <1>1 DEF HostSend
<1>2. CASE CliStart
  <2>1. PICK d \in Durations :
           /\ Command(IF d = "timed" THEN "start --duration" ELSE "start")
           /\ Lock
           /\ startSignal' = d
           /\ stopAsked' = FALSE
           /\ UNCHANGED <<doneSignal, stopRequest, restartSignal, restartPending, cfg>>
    BY <1>2 DEF CliStart
  <2>2. ~isCollecting /\ isCollecting' /\ UNCHANGED run /\ d # NoStart
    BY <2>1 DEF Command, AtPrompt, Lock
  <2>3. OneBaton' /\ SettingsFrozen'
    BY <2>1, <2>2
  <2>4. RunState'
    BY <2>2
  <2>5. StopState'
    BY <2>1, <2>2
  <2> QED
    BY <2>3, <2>4, <2>5
<1>3. CASE CliRestart
  BY <1>3 DEF CliRestart, Command, AtPrompt
<1>4. ASSUME UNCHANGED <<isCollecting, signals, run, stopAsked>>, SettingsFrozen'
      PROVE  Goal
  BY <1>4
<1>5. CASE CliConfigure
  <2>1. UNCHANGED <<isCollecting, signals, run, stopAsked>> /\ ~isCollecting
    BY <1>5 DEF CliConfigure, Command, AtPrompt
  <2> QED
    BY <1>4, <2>1
<1>6. CASE CliNoEffect
  BY <1>6 DEF CliNoEffect, Command, AtPrompt
<1>7. CASE CliEdit
  <2>1. UNCHANGED <<isCollecting, signals, run, cfg, stopAsked>>
    BY <1>7 DEF CliEdit, AtPrompt
  <2> QED
    BY <1>4, <2>1
<1>8. CASE CliReadPanics
  BY <1>8 DEF CliReadPanics
<1>9. CASE LockedPeek
  BY <1>9 DEF LockedPeek, DrainBurst
<1>10. CASE LockedRead
  BY <1>10 DEF LockedRead
<1>11. CASE LockedReadError
  BY <1>11 DEF LockedReadError
<1>12. CASE LockedDone
  BY <1>12 DEF LockedDone
<1>13. CASE TakeStart
  BY <1>13 DEF TakeStart, Snapshot
<1>14. CASE TakeRestart
  BY <1>14 DEF TakeRestart, RadioOff
<1>15. CASE WatcherStops
  BY <1>15 DEF WatcherStops
<1>16. CASE RunWindsDown
  BY <1>16 DEF RunWindsDown
<1>17. CASE RunEnds
  BY <1>17 DEF RunEnds, DropPendingStop, SignalDone, HonourRestart, RadioOff
<1>18. CASE WatchdogReset
  BY <1>18 DEF WatchdogReset, Reboot
<1>19. CASE UNCHANGED vars
  BY <1>19 DEF vars
<1> QED
  BY <1>1, <1>2, <1>3, <1>5, <1>6, <1>7, <1>8, <1>9, <1>10, <1>11, <1>12, <1>13, <1>14,
     <1>15, <1>16, <1>17, <1>18, <1>19 DEF Next, MainTask, CollectionTask

(* A halted main task does nothing, so it cannot lock the CLI.             *)
LEMMA PanicStep == ASSUME PanicAtPrompt, [Next]_vars PROVE PanicAtPrompt'
<1> USE DEF PanicAtPrompt, system
<1>1. ASSUME NEW t \in HostTokens, HostSend(t) PROVE PanicAtPrompt'
  BY <1>1 DEF HostSend
<1>2. CASE MainTask
  BY <1>2 DEF MainTask, CliStart, CliRestart, CliConfigure, CliNoEffect, CliEdit,
     CliReadPanics, Command, AtPrompt, LockedPeek, LockedRead, LockedReadError, LockedDone
<1>3. CASE CollectionTask
  BY <1>3 DEF CollectionTask, TakeStart, TakeRestart, WatcherStops, RunWindsDown, RunEnds
<1>4. CASE WatchdogReset
  BY <1>4 DEF WatchdogReset, Reboot
<1>5. CASE UNCHANGED vars
  BY <1>5 DEF vars
<1> QED
  BY <1>1, <1>2, <1>3, <1>4, <1>5 DEF Next

(* `restart` raises the pending flag and the signal together.              *)
LEMMA RestartStep == ASSUME RestartState, [Next]_vars PROVE RestartState'
<1> USE DEF RestartState, signals, run
<1>1. ASSUME NEW t \in HostTokens, HostSend(t) PROVE RestartState'
  BY <1>1 DEF HostSend
<1>2. CASE MainTask
  <2>1. UNCHANGED pc
    BY <1>2 DEF MainTask, CliStart, CliRestart, CliConfigure, CliNoEffect, CliEdit,
       CliReadPanics, Command, AtPrompt, LockedPeek, LockedRead, LockedReadError, LockedDone
  <2>2. restartPending' = TRUE \/ UNCHANGED <<restartSignal, restartPending>>
    BY <1>2 DEF MainTask, CliStart, CliRestart, CliConfigure, CliNoEffect, CliEdit,
       CliReadPanics, LockedPeek, LockedRead, LockedReadError, LockedDone
  <2>3. CASE restartPending' = TRUE
    BY <2>3
  <2>4. CASE UNCHANGED <<restartSignal, restartPending>>
    BY <2>1, <2>4
  <2> QED
    BY <2>2, <2>3, <2>4
<1>3. CASE TakeStart \/ WatcherStops \/ RunWindsDown
  <2>1. UNCHANGED <<restartSignal, restartPending>>
    BY <1>3 DEF TakeStart, WatcherStops, RunWindsDown
  <2>2. pc' = pc \/ pc' # "radio off"
    BY <1>3 DEF TakeStart, WatcherStops, RunWindsDown
  <2> QED
    BY <2>1, <2>2
<1>4. CASE TakeRestart
  <2>1. restartSignal' = FALSE /\ restartPending /\ UNCHANGED restartPending
    BY <1>4 DEF TakeRestart
  <2> QED
    BY <2>1
<1>5. CASE RunEnds
  <2>1. UNCHANGED <<restartSignal, restartPending>>
    BY <1>5 DEF RunEnds
  <2>2. pc' = "radio off" => restartPending
    BY <1>5 DEF RunEnds, HonourRestart
  <2> QED
    BY <2>1, <2>2
<1>6. CASE WatchdogReset
  BY <1>6 DEF WatchdogReset, Reboot
<1>7. CASE UNCHANGED vars
  BY <1>7 DEF vars
<1> QED
  BY <1>1, <1>2, <1>3, <1>4, <1>5, <1>6, <1>7 DEF Next, CollectionTask

LEMMA InvStep == IInv /\ [Next]_vars => IInv'
  BY TypeStep, HandoverStep, RestartStep, PanicStep DEF IInv, TypeOK

(* The inductive invariant holds in every build.                           *)
THEOREM Invariance == Spec => []IInv
  BY InvInit, InvStep, PTL DEF Spec

(* While the CLI is locked exactly one of START, a run and DONE exists,    *)
(* and none at the prompt (start_csi_collect, csi_collection, main).       *)
THEOREM Handover == Spec => []OneBaton
  BY Invariance, PTL DEF IInv

(* A run uses the settings that stand in USER_CONFIG while it lasts.       *)
THEOREM RunUsesSettings == Spec => []SettingsFrozen
  BY Invariance, PTL DEF IInv

(* START_SIGNAL is cleared by the task that takes it, or by the reset of   *)
(* a `restart`: the only other reset follows a panic at the open prompt,   *)
(* where no START is pending.                                              *)
THEOREM StartsAreLostOnlyToRestarts == Spec => StartLostOnlyToRestart
<1>1. ASSUME IInv, Next, startSignal # NoStart, startSignal' = NoStart
      PROVE  pc' = "running" \/ restartPending
  <2>1. isCollecting /\ ~halted
    BY <1>1, BatonFacts DEF IInv, PanicAtPrompt
  <2>2. TakeStart \/ WatchdogReset
    BY <1>1, <2>1 DEF Next, MainTask, CollectionTask, HostSend, CliStart, CliRestart,
       CliConfigure, CliNoEffect, CliEdit, CliReadPanics, Command, AtPrompt, LockedPeek,
       LockedRead, LockedReadError, LockedDone, TakeRestart, WatcherStops, RunWindsDown,
       RunEnds, signals
  <2> QED
    BY <1>1, <2>1, <2>2 DEF TakeStart, WatchdogReset, IInv, RestartState
<1>2. IInv /\ [Next]_vars =>
        [startSignal # NoStart /\ startSignal' = NoStart
           => pc' = "running" \/ restartPending]_vars
  BY <1>1
<1> QED
  BY <1>2, Invariance, PTL DEF Spec, StartLostOnlyToRestart

(* With the raw peek compiled in, no stop request outlives its session.    *)
THEOREM StopIsPerSession ==
  ASSUME PeekBuild
  PROVE  Spec => []NoStaleStop
<1>1. IInv => NoStaleStop
  BY DEF IInv, StopState, NoStaleStop
<1> QED
  BY <1>1, Invariance, PTL

(* There a run is stopped only by a key read in its own session.           *)
THEOREM RunsEndAsAsked ==
  ASSUME PeekBuild
  PROVE  Spec => []StopWasAsked
<1>1. IInv => StopWasAsked
  BY DEF IInv, StopState, StopWasAsked
<1> QED
  BY <1>1, Invariance, PTL

(* A restart that was asked for never resets the chip with a live radio:   *)
(* RESTART_PENDING falls only in the reset itself, which the task reaches  *)
(* through drop_in_place, or through a panic.                              *)
THEOREM RestartQuietsRadio == Spec => RadioOffBeforeReset
<1>1. ASSUME IInv, Next, restartPending /\ ~restartPending'
      PROVE  ~controllerLive \/ halted
  <2>1. WatchdogReset
    BY <1>1 DEF Next, MainTask, CollectionTask, HostSend, CliStart, CliRestart, CliConfigure,
       CliNoEffect, CliEdit, CliReadPanics, Command, AtPrompt, LockedPeek, LockedRead,
       LockedReadError, LockedDone, TakeStart, TakeRestart, WatcherStops, RunWindsDown,
       RunEnds, signals
  <2> QED
    BY <1>1, <2>1 DEF WatchdogReset, IInv, RunState
<1>2. IInv /\ [Next]_vars => [restartPending /\ ~restartPending' => ~controllerLive \/ halted]_vars
  BY <1>1
<1> QED
  BY <1>2, Invariance, PTL DEF Spec, RadioOffBeforeReset
=============================================================================
