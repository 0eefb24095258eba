-------------------------------- MODULE Boot --------------------------------
(***************************************************************************)
(* From reset to prompt and back on an `auto` build: the init order of     *)
(* main (main.rs:478-606), the transport choice of is_jtag, and the two    *)
(* ways down, `restart` and the panic hook custom_halt.  What interrupts   *)
(* do to a halting chip is not modelled.                                   *)
(***************************************************************************)
EXTENDS Naturals

CONSTANT PollBudget  \* POLL_BUDGET_MS (300)

ASSUME BootAssumption == PollBudget \in Nat

Phases == {"clocks", "radio", "detect", "prompt", "halt", "watchdog", "reset"}

VARIABLES
  phase,      \* what the one thread of control is in
  calibrated, \* esp_hal::init has set the RTC slow-clock calibration
  halting,    \* HALTING
  sof,        \* SOF_INT, latched while a USB host talks (external)
  waited,     \* polls that found no SOF
  transport   \* "jtag", "uart", or "none" before the choice

bootVars == <<phase, calibrated, halting, sof, waited, transport>>

-----------------------------------------------------------------------------
(* The statics are zeroed by the startup code; the latch of the USB        *)
(* peripheral may or may not survive a reset.                              *)
FreshBoot ==
  /\ phase' = "clocks"
  /\ calibrated' = FALSE
  /\ halting' = FALSE
  /\ sof' \in BOOLEAN
  /\ waited' = 0
  /\ transport' = "none"

BootInit ==
  /\ phase = "clocks"
  /\ calibrated = FALSE
  /\ halting = FALSE
  /\ sof \in BOOLEAN
  /\ waited = 0
  /\ transport = "none"

Goto(from, to) == phase = from /\ phase' = to

InitClocks ==
  /\ Goto("clocks", "radio")
  /\ calibrated' = TRUE
  /\ UNCHANGED <<halting, sof, waited, transport>>

(* Logger, heap, executor, Wi-Fi controller, collection task.              *)
InitRadio ==
  /\ Goto("radio", "detect")
  /\ UNCHANGED <<calibrated, halting, sof, waited, transport>>

(* A USB host sends a start-of-frame; the bit stays.                       *)
SofArrives ==
  /\ phase \in {"clocks", "radio", "detect"} /\ ~sof
  /\ sof' = TRUE
  /\ UNCHANGED <<phase, calibrated, halting, waited, transport>>

(* One turn of the loop in is_jtag: a set bit decides before the budget is *)
(* looked at.                                                              *)
Settle(choice) ==
  /\ Goto("detect", "prompt")
  /\ transport' = choice
  /\ UNCHANGED <<calibrated, halting, sof, waited>>

OutOfBudget_First == waited >= PollBudget  \* mutant: the budget decides before the bit
OutOfBudget_Late == waited > PollBudget /\ ~sof  \* mutant: one poll too many
OutOfBudget == waited >= PollBudget /\ ~sof

ChooseJtag == sof /\ ~OutOfBudget /\ Settle("jtag")
ChooseUart == OutOfBudget /\ Settle("uart")
PollAgain ==
  /\ phase = "detect" /\ ~sof /\ ~OutOfBudget
  /\ waited' = waited + 1
  /\ UNCHANGED <<phase, calibrated, halting, sof, transport>>

-----------------------------------------------------------------------------
(* A panic anywhere enters custom_halt.                                    *)
Panic ==
  /\ phase \in {"clocks", "radio", "detect", "prompt"}
  /\ phase' = "halt"
  /\ UNCHANGED <<calibrated, halting, sof, waited, transport>>

(* custom_halt: the first time through, spin and reset by watchdog; back   *)
(* again means that reset panicked.                                        *)
Reentered_Never == FALSE  \* mutant: no HALTING guard
Reentered_Always == TRUE  \* mutant: the software reset is taken first
Reentered == halting

FirstHalt ==
  /\ ~Reentered
  /\ Goto("halt", "watchdog")
  /\ halting' = TRUE
  /\ UNCHANGED <<calibrated, sof, waited, transport>>
SoftwareReset == Reentered /\ phase = "halt" /\ FreshBoot

(* `restart`: the radio is down, the watchdog next.                        *)
CleanRestart ==
  /\ Goto("prompt", "watchdog")
  /\ UNCHANGED <<calibrated, halting, sof, waited, transport>>

(* rwdt_full_system_reset divides by the calibration.                      *)
DivisionPanics ==
  /\ ~calibrated
  /\ Goto("watchdog", "halt")
  /\ UNCHANGED <<calibrated, halting, sof, waited, transport>>
ArmWatchdog ==
  /\ calibrated
  /\ Goto("watchdog", "reset")
  /\ UNCHANGED <<calibrated, halting, sof, waited, transport>>
WatchdogBites == phase = "reset" /\ FreshBoot

(* What the chip does by itself once control has reached it.               *)
Proceed ==
  \/ InitClocks \/ InitRadio
  \/ ChooseJtag \/ ChooseUart \/ PollAgain
  \/ FirstHalt \/ SoftwareReset \/ DivisionPanics \/ ArmWatchdog \/ WatchdogBites

BootNext == Proceed \/ SofArrives \/ Panic \/ CleanRestart

BootSpec == BootInit /\ [][BootNext]_bootVars /\ WF_bootVars(Proceed)

-----------------------------------------------------------------------------
(***************************************************************************)
(* Properties.                                                             *)
(***************************************************************************)
(* The types of the boot state.                                            *)
BootTypeOK ==
  /\ phase \in Phases
  /\ calibrated \in BOOLEAN /\ halting \in BOOLEAN /\ sof \in BOOLEAN
  /\ waited \in 0..PollBudget
  /\ transport \in {"jtag", "uart", "none"}

(* serial.rs:178-181: a board with a USB host never falls back to UART; one*)
(* without takes UART only after the whole window.                         *)
HostIsHeard ==
  [][transport' = "uart" /\ transport = "none" => ~sof /\ waited = PollBudget]_bootVars

(* main.rs:461-463, 1001-1006: the software reset, which hangs the next    *)
(* boot of a C5, is left for a panic that came before the clocks.          *)
SoftwareResetIsLastResort == [][SoftwareReset => ~calibrated]_bootVars

(* main.rs:461-463: every panic, a panic of the reset included, ends in a  *)
(* new boot.                                                               *)
PanicReboots == phase = "halt" ~> phase = "clocks"
=============================================================================
