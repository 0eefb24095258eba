-------------------------------- MODULE Menu --------------------------------
(***************************************************************************)
(* The command table (ROOT_MENU of cli/mod.rs) and what each handler of    *)
(* cli/cmds.rs looks up in it.  `menu` finds the item a line names, checks *)
(* the flags of the line against the item's parameters and calls the       *)
(* handler; the handler asks for the flags it wants by name, once more,    *)
(* and takes a name that is not in the table for a flag that was not       *)
(* given.  So both tables are here, to be compared, for an image with the  *)
(* default features (`statistics` adds show-stats).                        *)
(***************************************************************************)
Chips == {"esp32", "esp32c3", "esp32s3", "esp32c5", "esp32c6"}
IsAx(chip) == chip \in {"esp32c5", "esp32c6"}
Ax(chip, flags) == IF IsAx(chip) THEN flags ELSE {}
C5(chip, flags) == IF chip = "esp32c5" THEN flags ELSE {}

-----------------------------------------------------------------------------
(* What ROOT_MENU declares.                                                *)
SetMeasurementItem == {"type", "periodicity-hz", "unsolicited"}
SetCsiOutputItem   == {"enabled"}
SetCsiFilterItem   == {"peer-mac", "min-phy"}
SetLogModeItem     == {"mode"}
ClassicCsiItem     == {"lltf", "htltf", "stbc-htltf", "ltf-merge"}
AxCsiItem(chip)    ==
  {"csi", "csi-legacy", "csi-ht20", "csi-ht40", "val-scale-cfg", "preset", "dump-ack",
   "csi-su", "csi-mu", "csi-dcm", "csi-beamformed", "csi-he-stbc"}
    \cup C5(chip, {"csi-force-lltf", "csi-vht"})
SetWifiItem(chip)  ==
  {"mode", "sta-ssid", "sta-password", "ap-ssid", "ap-password", "ap-dhcp", "ap-leases",
   "ap-burst", "set-channel", "peer-mac", "ht40", "inject-period-ms", "reporting",
   "report-to", "inject-period-us", "emitter-iface"}
    \cup Ax(chip, {"he20"})
StartItem          == {"duration"}
SetRateItem        == {"rate"}
SetProtocolItem    == {"protocol"}
SetIoTasksItem     == {"tx", "rx"}
SetCsiDeliveryItem == {"mode", "logging"}
SetReportingItem   == {"policy", "report-to", "level", "hold-ms", "n"}
SetSessionItem     == {"id", "epoch"}

FlaglessItems ==
  {"show-config", "info", "version", "restart", "reset-config", "show-stats"}
Items == FlaglessItems \cup
  {"set-measurement", "set-csi-output", "set-csi-filter", "set-log-mode", "set-csi",
   "set-wifi", "start", "set-rate", "set-protocol", "set-io-tasks", "set-csi-delivery",
   "set-reporting", "set-session"}

(* Pairs of an item and a flag.                                            *)
Declared(chip) ==
       ({"set-measurement"}  \X SetMeasurementItem)
  \cup ({"set-csi-output"}   \X SetCsiOutputItem)
  \cup ({"set-csi-filter"}   \X SetCsiFilterItem)
  \cup ({"set-log-mode"}     \X SetLogModeItem)
  \cup ({"set-csi"}          \X (IF IsAx(chip) THEN AxCsiItem(chip) ELSE ClassicCsiItem))
  \cup ({"set-wifi"}         \X SetWifiItem(chip))
  \cup ({"start"}            \X StartItem)
  \cup ({"set-rate"}         \X SetRateItem)
  \cup ({"set-protocol"}     \X SetProtocolItem)
  \cup ({"set-io-tasks"}     \X SetIoTasksItem)
  \cup ({"set-csi-delivery"} \X SetCsiDeliveryItem)
  \cup ({"set-reporting"}    \X SetReportingItem)
  \cup ({"set-session"}      \X SetSessionItem)

-----------------------------------------------------------------------------
(* What the handlers look up.                                              *)
MeasurementLookups == {"periodicity-hz", "unsolicited"}
CsiOutputLookups   == {"enabled"}
CsiFilterLookups   == {"peer-mac", "min-phy"}
LogModeLookups     == {"mode"}
ClassicCsiLookups  == {"lltf", "htltf", "stbc-htltf", "ltf-merge"}
AxCsiLookups(chip) ==
  {"csi", "csi-legacy", "csi-ht20", "csi-ht40", "dump-ack", "csi-su", "csi-mu", "csi-dcm",
   "csi-beamformed", "csi-he-stbc", "preset", "val-scale-cfg"}
    \cup C5(chip, {"csi-force-lltf", "csi-vht"})
NetworkLookups     ==
  {"mode", "sta-ssid", "sta-password", "ap-ssid", "ap-password", "ap-dhcp", "ap-leases",
   "ap-burst", "set-channel", "peer-mac", "ht40"}
RadioLookups_Micros(chip) ==  \* mutant: the flag's unit is spelled out
  {"inject-period-ms", "reporting", "report-to", "inject-period-micros", "emitter-iface"}
    \cup Ax(chip, {"he20"})
RadioLookups(chip) ==
  {"inject-period-ms", "reporting", "report-to", "inject-period-us", "emitter-iface"}
    \cup Ax(chip, {"he20"})
StartLookups       == {"duration"}
RateLookups        == {"rate"}
ProtocolLookups    == {"protocol"}
IoTasksLookups     == {"tx", "rx"}
CsiDeliveryLookups == {"mode", "logging"}
ReportingLookups   == {"policy", "report-to", "level", "hold-ms", "n"}
SessionLookups     == {"id", "epoch"}

LookedUp(chip) ==
       ({"set-measurement"}  \X MeasurementLookups)
  \cup ({"set-csi-output"}   \X CsiOutputLookups)
  \cup ({"set-csi-filter"}   \X CsiFilterLookups)
  \cup ({"set-log-mode"}     \X LogModeLookups)
  \cup ({"set-csi"}          \X (IF IsAx(chip) THEN AxCsiLookups(chip) ELSE ClassicCsiLookups))
  \cup ({"set-wifi"}         \X (NetworkLookups \cup RadioLookups(chip)))
  \cup ({"start"}            \X StartLookups)
  \cup ({"set-rate"}         \X RateLookups)
  \cup ({"set-protocol"}     \X ProtocolLookups)
  \cup ({"set-io-tasks"}     \X IoTasksLookups)
  \cup ({"set-csi-delivery"} \X CsiDeliveryLookups)
  \cup ({"set-reporting"}    \X ReportingLookups)
  \cup ({"set-session"}      \X SessionLookups)

-----------------------------------------------------------------------------
(* `menu`'s dispatch of a line (external): an item it does not know, a     *)
(* flag the item does not declare, or a call.                              *)
Dispatch(chip, command, given) ==
  IF command \notin Items THEN "unknown"
  ELSE IF {command} \X given \subseteq Declared(chip) THEN "called"
  ELSE "refused"

(* The images whose handlers hear every flag menu accepts, but for the     *)
(* reserved `type` (specs/SPECS.md:174), and ask for none it would refuse. *)
HearsItsFlags ==
  {chip \in Chips :
     LookedUp(chip) = {called \in Declared(chip) : called # <<"set-measurement", "type">>}}
=============================================================================
