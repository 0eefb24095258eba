----------------------------- MODULE Boot_proof -----------------------------
(***************************************************************************)
(* For every poll budget: the types of the boot state, that a USB host is  *)
(* heard until the last poll, and that the software reset is only reached  *)
(* from a panic before the clocks.                                         *)
(***************************************************************************)
EXTENDS Boot, TLAPS

(***************************************************************************)
(* The two halves of BootTypeOK: numbers and names, and the truth values.  *)
(***************************************************************************)
Named ==
  /\ phase \in Phases
  /\ waited \in 0..PollBudget
  /\ transport \in {"jtag", "uart", "none"}
Flags == calibrated \in BOOLEAN /\ halting \in BOOLEAN /\ sof \in BOOLEAN

(***************************************************************************)
(* HALTING is only set on the way to a reset; a chip that comes back to    *)
(* custom_halt with it set has met the division by an unset calibration.   *)
(***************************************************************************)
HaltState ==
  /\ halting => phase \in {"watchdog", "reset", "halt"}
  /\ halting /\ phase = "halt" => ~calibrated

BootInv == Named /\ Flags /\ HaltState

(* The invariant holds at the first reset.                                 *)
LEMMA BootStart == BootInit => BootInv
<1> SUFFICES ASSUME BootInit PROVE BootInv
  OBVIOUS
<1>1. Named
  BY BootAssumption DEF BootAssumption, BootInit, Named, Phases
<1>2. Flags
  BY Zenon DEF BootInit, Flags
<1>3. HaltState
  BY DEF BootInit, HaltState
<1> QED
  BY <1>1, <1>2, <1>3 DEF BootInv

(* A reset restores it, whatever came before.                              *)
LEMMA FreshBootKeeps ==
  ASSUME FreshBoot
  PROVE  BootInv'
<1>1. Named'
  BY BootAssumption DEF BootAssumption, FreshBoot, Named, Phases
<1>2. Flags'
  BY Zenon DEF FreshBoot, Flags
<1>3. HaltState'
  BY DEF FreshBoot, HaltState
<1> QED
  BY <1>1, <1>2, <1>3 DEF BootInv

(* The names and the count.                                                *)
LEMMA NamedStep ==
  ASSUME Named, BootNext, ~(SoftwareReset \/ WatchdogBites)
  PROVE  Named'
<1> USE DEF Named, Phases, Goto
<1>1. CASE InitClocks \/ InitRadio \/ SofArrives \/ Panic \/ CleanRestart
  BY <1>1 DEF InitClocks, InitRadio, SofArrives, Panic, CleanRestart
<1>2. CASE ChooseJtag \/ ChooseUart
  BY <1>2 DEF ChooseJtag, ChooseUart, Settle
<1>3. CASE PollAgain
  <2>1. waited < PollBudget
    BY <1>3, BootAssumption DEF BootAssumption, PollAgain, OutOfBudget
  <2> QED
    BY <1>3, <2>1, BootAssumption DEF BootAssumption, PollAgain
<1>4. CASE FirstHalt \/ DivisionPanics \/ ArmWatchdog
  BY <1>4 DEF FirstHalt, DivisionPanics, ArmWatchdog
<1> QED
  BY <1>1, <1>2, <1>3, <1>4 DEF BootNext, Proceed

(* The truth values.                                                       *)
LEMMA FlagsStep ==
  ASSUME Flags, BootNext, ~(SoftwareReset \/ WatchdogBites)
  PROVE  Flags'
<1>1. calibrated' \in {calibrated, TRUE} /\ halting' \in {halting, TRUE} /\ sof' \in {sof, TRUE}
  BY DEF BootNext, Proceed, InitClocks, InitRadio, SofArrives, Panic, CleanRestart, ChooseJtag,
         ChooseUart, Settle, PollAgain, FirstHalt, DivisionPanics, ArmWatchdog
<1> QED
  BY <1>1, Zenon DEF Flags

(* What HALTING says.                                                      *)
LEMMA HaltStateStep ==
  ASSUME HaltState, BootNext, ~(SoftwareReset \/ WatchdogBites)
  PROVE  HaltState'
<1> USE DEF HaltState, Goto
<1>1. CASE InitClocks \/ InitRadio \/ SofArrives \/ Panic \/ CleanRestart
  BY <1>1 DEF InitClocks, InitRadio, SofArrives, Panic, CleanRestart
<1>2. CASE ChooseJtag \/ ChooseUart \/ PollAgain
  BY <1>2 DEF ChooseJtag, ChooseUart, Settle, PollAgain
<1>3. CASE FirstHalt \/ DivisionPanics \/ ArmWatchdog
  BY <1>3 DEF FirstHalt, Reentered, DivisionPanics, ArmWatchdog
<1> QED
  BY <1>1, <1>2, <1>3 DEF BootNext, Proceed

LEMMA BootStep ==
  ASSUME BootInv, [BootNext]_bootVars
  PROVE  BootInv'
<1>1. CASE BootNext /\ ~(SoftwareReset \/ WatchdogBites)
  BY <1>1, NamedStep, FlagsStep, HaltStateStep DEF BootInv
<1>2. CASE SoftwareReset \/ WatchdogBites
  BY <1>2, FreshBootKeeps DEF SoftwareReset, WatchdogBites
<1>3. CASE UNCHANGED bootVars
  BY <1>3 DEF bootVars, BootInv, Named, Flags, HaltState
<1> QED
  BY <1>1, <1>2, <1>3

LEMMA BootInvariance == BootSpec => []BootInv
<1>1. BootInv /\ [BootNext]_bootVars => BootInv'
  BY BootStep
<1> QED
  BY <1>1, BootStart, PTL DEF BootSpec

(* The types of the boot state hold for every poll budget.                 *)
THEOREM BootTypeCorrect == BootSpec => []BootTypeOK
<1>1. BootInv => BootTypeOK
  BY Zenon DEF BootInv, BootTypeOK, Named, Flags
<1> QED
  BY <1>1, BootInvariance, PTL

(* custom_halt: the software reset is taken only before the clocks.        *)
THEOREM SoftwareResetOnlyUncalibrated == BootSpec => SoftwareResetIsLastResort
<1>1. BootInv => [SoftwareReset => ~calibrated]_bootVars
  BY DEF BootInv, HaltState, SoftwareReset, Reentered
<1> QED
  BY <1>1, BootInvariance, PTL DEF SoftwareResetIsLastResort

(* is_jtag: UART is chosen only when the whole window passed in silence.   *)
THEOREM HostHeard == BootSpec => HostIsHeard
<1> DEFINE Silence == transport' = "uart" /\ transport = "none" => ~sof /\ waited = PollBudget
<1>1. ASSUME BootInv, [BootNext]_bootVars
      PROVE  [Silence]_bootVars
  <2>1. CASE ChooseUart
    BY <1>1, <2>1, BootAssumption
    DEF BootAssumption, ChooseUart, OutOfBudget, BootInv, Named
  <2>2. CASE ChooseJtag
    BY <2>2 DEF ChooseJtag, Settle
  <2>3. CASE SoftwareReset \/ WatchdogBites
    BY <2>3 DEF SoftwareReset, WatchdogBites, FreshBoot
  <2>4. CASE InitClocks \/ InitRadio \/ PollAgain \/ FirstHalt \/ DivisionPanics \/ ArmWatchdog
             \/ SofArrives \/ Panic \/ CleanRestart
    BY <2>4 DEF InitClocks, InitRadio, PollAgain, FirstHalt, DivisionPanics, ArmWatchdog,
                SofArrives, Panic, CleanRestart
  <2> QED
    BY <1>1, <2>1, <2>2, <2>3, <2>4 DEF BootNext, Proceed
<1>2. BootInv /\ [BootNext]_bootVars => [Silence]_bootVars
  BY <1>1
<1> QED
  BY <1>2, BootInvariance, PTL DEF HostIsHeard, BootSpec
=============================================================================
