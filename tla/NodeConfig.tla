----------------------------- MODULE NodeConfig -----------------------------
(***************************************************************************)
(* UserConfig (config.rs:54-300), the commands that write it, and          *)
(* build_mode, which turns it into the esp-csi-rs mode of the next run and *)
(* which `show-config` prints from.  A command line is a record of its     *)
(* flags: a flag that was not given is Absent, a value the parser refuses  *)
(* is outside the flag's domain, and either leaves the field as it was.    *)
(***************************************************************************)
EXTENDS Naturals

CONSTANTS
  Absent, None,
  HasHe20,                        \* the chip is an ESP32-C5 or C6
  Macs,
  Channels, DefaultChannel,
  Networks, DefaultNetwork,       \* SSIDs, passwords, DHCP, leases, burst
  Rates, DefaultRate,
  Protocols, DefaultProtocol,
  CsiFlags, He20Flags,            \* acquisition flags, and those of CsiConfig::he20()
  U16Max, U32Max,                 \* 2^16 - 1 and 2^32 - 1
  DefaultPeriodicity, DefaultThreshold, DefaultDecimation, DefaultPeriod,
  WifiLines, ReportingLines, MeasurementLines, CsiLines, IoLines, OutputLines,
  RateLines, ProtocolLines,
  FilterLines, DeliveryLines      \* the command lines the host types

U16 == 0..U16Max
Positive(max) == 1..max

WifiModes   == {"sniffer", "station", "wifi-ap"}
Emitters    == {"ht20-emitter", "ht40-emitter"}
EspNowPair  == {"esp-now-initiator", "esp-now-responder"}
Simplex     == {"esp-now-simplex-peer", "esp-now-simplex-source"}
NodeModes   == WifiModes \cup Emitters \cup EspNowPair \cup Simplex
Destinations == {"host", "local"}
Secondaries == {"above", "below", None}

(* esp_csi_rs::Reporting.                                                  *)
Report(to)   == [kind |-> "report", param |-> to]
Silent       == [kind |-> "none", param |-> None]
Threshold(t) == [kind |-> "threshold", param |-> t]
Decimate(n)  == [kind |-> "decimate", param |-> n]
Thresholds   == [level : U16, hold_ms : U16]

ASSUME ConfigAssumption ==
  /\ U16Max \in Nat \ {0} /\ U32Max \in Nat \ {0}
  /\ HasHe20 \in BOOLEAN
  /\ DefaultChannel \in Channels /\ DefaultNetwork \in Networks
  /\ DefaultRate \in Rates /\ DefaultProtocol \in Protocols
  /\ DefaultPeriodicity \in U16
  /\ DefaultThreshold \in Thresholds
  /\ DefaultDecimation \in Positive(U16Max)
  /\ DefaultPeriod \in Positive(U32Max)
  /\ He20Flags \subseteq CsiFlags
  /\ \A line \in CsiLines : line.on \subseteq CsiFlags

(* None is a value of its own.                                             *)
Roles == {"initiator", "responder"}
Remarks == {"fixed by mode", "cannot report none"}
ASSUME NoneAssumption == None \notin U16 /\ None \notin Roles \cup Remarks \cup {"he20"}

VARIABLE cfg
configVars == <<cfg>>

-----------------------------------------------------------------------------
(* UserConfig::new.                                                        *)
DefaultCsi == [flags |-> CsiFlags, scale |-> 2]
DefaultConfig ==
  [node_mode |-> "sniffer", csi_output_enabled |-> TRUE,
   reporting |-> Report("host"), report_to |-> "host",
   threshold |-> DefaultThreshold, decimate_n |-> DefaultDecimation,
   he20 |-> FALSE, csi_peer_filter |-> None, csi_min_sig_mode |-> 0,
   periodicity_hz |-> DefaultPeriodicity, flood_unsolicited |-> FALSE,
   network |-> DefaultNetwork, csi_config |-> DefaultCsi,
   channel |-> DefaultChannel, phy_rate |-> DefaultRate,
   protocol |-> DefaultProtocol, tx_enabled |-> TRUE, rx_enabled |-> TRUE,
   peer_mac |-> None, ht40_secondary |-> None, delivery_raw |-> FALSE,
   inject_period_us |-> DefaultPeriod, emitter_use_sta_if |-> TRUE]

Init == cfg = DefaultConfig

(* The value of a flag that was given and parses; the old one otherwise.   *)
Given(value, domain, old) == IF value \in domain THEN value ELSE old

-----------------------------------------------------------------------------
(* apply_reporting_flags: the destination first, then the policy.          *)
WithDestination_NoRederive(c, to) ==  \* mutant: an active report keeps its old destination
  IF to \in Destinations THEN [c EXCEPT !.report_to = to] ELSE c
WithDestination(c, to) ==
  IF to \in Destinations
  THEN [c EXCEPT !.report_to = to,
                 !.reporting = IF @.kind = "report" THEN Report(to) ELSE @]
  ELSE c

(* parse_reporting.                                                        *)
Policies == {"report", "none", "threshold", "decimate"}
ParseReporting(policy, c) ==
  CASE policy = "report"    -> Report(c.report_to)
    [] policy = "none"      -> Silent
    [] policy = "threshold" -> Threshold(c.threshold)
    [] policy = "decimate"  -> Decimate(c.decimate_n)

Refused(policy, c) == policy = "none" /\ c.node_mode = "sniffer"
WithPolicy(c, policy) ==
  IF policy \in Policies /\ ~Refused(policy, c)
  THEN [c EXCEPT !.reporting = ParseReporting(policy, c)]
  ELSE c

ApplyReportingFlags(c, policy, to) == WithPolicy(WithDestination(c, to), policy)

(* set-reporting: the parameters, the active value re-derived, the flags.  *)
WithParameters(c, line) ==
  [c EXCEPT !.threshold.level   = Given(line.level, U16, @),
            !.threshold.hold_ms = Given(line.hold_ms, U16, @),
            !.decimate_n        = Given(line.n, Positive(U16Max), @)]

Rederive(c) ==
  [c EXCEPT !.reporting =
     CASE @.kind = "threshold" -> Threshold(c.threshold)
       [] @.kind = "decimate"  -> Decimate(c.decimate_n)
       [] OTHER                -> @]

SetReporting(line) ==
  cfg' = ApplyReportingFlags(Rederive(WithParameters(cfg, line)),
                             line.policy, line.report_to)

-----------------------------------------------------------------------------
(* Both period flags write the microsecond field; the coarse one first.    *)
FromMs_Wrapping(ms) == (ms * 1000) % (U32Max + 1)  \* mutant: the product wraps
FromMs(ms) == IF ms * 1000 > U32Max THEN U32Max ELSE ms * 1000

WithPeriod(old, ms, us) ==
  Given(us, Positive(U32Max), IF ms \in Positive(U32Max) THEN FromMs(ms) ELSE old)

(* set-wifi.  `--mode` comes before `--reporting`, so the sniffer check    *)
(* sees the mode of the same line.                                         *)
WithWifi(c, line) ==
  [c EXCEPT !.node_mode          = Given(line.mode, NodeModes, @),
            !.channel            = Given(line.channel, Channels, @),
            !.network            = Given(line.network, Networks, @),
            !.peer_mac           = Given(line.peer_mac, Macs \cup {None}, @),
            !.ht40_secondary     = Given(line.ht40, Secondaries, @),
            !.he20               = IF HasHe20 THEN Given(line.he20, BOOLEAN, @) ELSE @,
            !.inject_period_us   = WithPeriod(@, line.period_ms, line.period_us),
            !.emitter_use_sta_if = Given(line.sta_iface, BOOLEAN, @)]

WifiResult_ModeLast(c, line) ==  \* mutant: reporting is checked against the old mode
  WithWifi(ApplyReportingFlags(c, line.reporting, line.report_to), line)
WifiResult(c, line) ==
  ApplyReportingFlags(WithWifi(c, line), line.reporting, line.report_to)

(* An SSID or password over 32 bytes panics in heapless push_str, and the  *)
(* board reboots with a fresh configuration.                               *)
Overlong == "overlong"
SetWifi(line) == line.network # Overlong /\ cfg' = WifiResult(cfg, line)
SetWifiPanics(line) == line.network = Overlong /\ cfg' = DefaultConfig

-----------------------------------------------------------------------------
SetMeasurement(line) ==
  cfg' = [cfg EXCEPT !.periodicity_hz    = Given(line.periodicity_hz, U16, @),
                     !.flood_unsolicited = Given(line.unsolicited, BOOLEAN, @)]

(* set-csi: the toggles, then the preset, which replaces the whole         *)
(* CsiConfig, then the scale.  Only the C5 and C6 have the last two.       *)
Toggled(csi, line) == [csi EXCEPT !.flags = (@ \cup line.on) \ line.off]
Preset(csi, line) ==
  CASE HasHe20 /\ line.preset = "default" -> DefaultCsi
    [] HasHe20 /\ line.preset = "he20"    -> [flags |-> He20Flags, scale |-> 2]
    [] OTHER -> csi
Scaled(csi, line) == IF HasHe20 THEN [csi EXCEPT !.scale = Given(line.scale, 0..3, @)] ELSE csi

SetCsi(line) ==
  cfg' = [cfg EXCEPT !.csi_config = Scaled(Preset(Toggled(@, line), line), line)]

(* set-io-tasks, set-csi-output, set-rate and set-protocol.                *)
SetIoTasks(line) ==
  cfg' = [cfg EXCEPT !.tx_enabled = Given(line.tx, BOOLEAN, @),
                     !.rx_enabled = Given(line.rx, BOOLEAN, @)]
SetCsiOutput(enabled) ==
  cfg' = [cfg EXCEPT !.csi_output_enabled = Given(enabled, BOOLEAN, @)]
SetPhyRate(rate) == cfg' = [cfg EXCEPT !.phy_rate = Given(rate, Rates, @)]
SetProtocol(p) == cfg' = [cfg EXCEPT !.protocol = Given(p, Protocols, @)]

(* set-csi-filter: a bad address refuses the whole line, a bad PHY class   *)
(* comes after the address has been applied.                               *)
FilterGiven(line) == line.peer_mac = "any" \/ line.peer_mac \in Macs
FilterOf(line) == IF line.peer_mac = "any" THEN None ELSE line.peer_mac
MinPhyGiven(line) == line.min_phy \in {0, 1} /\ (line.peer_mac = Absent \/ FilterGiven(line))

SetCsiFilter(line) ==
  cfg' = [cfg EXCEPT !.csi_peer_filter  = IF FilterGiven(line) THEN FilterOf(line) ELSE @,
                     !.csi_min_sig_mode = IF MinPhyGiven(line) THEN line.min_phy ELSE @]

(* set-csi-delivery: only `raw` is kept in the configuration.              *)
DeliveryModes == {"off", "callback", "async"}
SetCsiDelivery(line) ==
  cfg' = [cfg EXCEPT !.delivery_raw =
            CASE line.mode = "raw" -> TRUE
              [] line.mode \in DeliveryModes -> FALSE
              [] OTHER -> @]

ResetConfig == cfg' = DefaultConfig

(* The commands that write the configuration and nothing else.             *)
ConfigCommand ==
  \/ \E line \in WifiLines : SetWifi(line)
  \/ \E line \in ReportingLines : SetReporting(line)
  \/ \E line \in MeasurementLines : SetMeasurement(line)
  \/ \E line \in CsiLines : SetCsi(line)
  \/ \E line \in IoLines : SetIoTasks(line)
  \/ \E enabled \in OutputLines : SetCsiOutput(enabled)
  \/ \E rate \in RateLines : SetPhyRate(rate)
  \/ \E p \in ProtocolLines : SetProtocol(p)
  \/ ResetConfig

Next ==
  \/ ConfigCommand
  \/ \E line \in WifiLines : SetWifiPanics(line)
  \/ \E line \in FilterLines : SetCsiFilter(line)
  \/ \E line \in DeliveryLines : SetCsiDelivery(line)

Spec == Init /\ [][Next]_configVars

-----------------------------------------------------------------------------
(* NodeMode::reads_reporting, which show-config trusts.                    *)
ReadsReporting(mode) == mode \in WifiModes \cup EspNowPair

(* write_node_attributes: the modes whose session role is a choice.        *)
SessionFixed_Station(mode) == mode \notin EspNowPair  \* mutant: station forgotten
SessionFixed(mode) == mode \notin EspNowPair \cup {"station"}

(* build_mode, by what it sets in the esp-csi-rs mode.                     *)
SessionRole(c) ==
  CASE c.node_mode \in {"wifi-ap", "esp-now-initiator", "esp-now-simplex-source"} -> "initiator"
    [] c.node_mode \in {"esp-now-responder", "esp-now-simplex-peer"} -> "responder"
    [] c.node_mode = "station" /\ c.periodicity_hz > 0 -> "initiator"
    [] OTHER -> None

(* A sniffer left with `none` by another mode reports to the host.         *)
SnifferReporting(reporting) ==
  IF reporting.kind = "none" THEN Report("host") ELSE reporting

ModeReporting(c) ==
  CASE c.node_mode = "sniffer" -> SnifferReporting(c.reporting)
    [] c.node_mode \in {"station", "wifi-ap"} \cup EspNowPair -> c.reporting
    [] c.node_mode = "esp-now-simplex-peer" -> Report("host")
    [] OTHER -> Silent

(* HE20 replaces whatever PHY the mode has otherwise.                      *)
Phy(c) ==
  IF c.node_mode \in Emitters \cup EspNowPair /\ c.he20 THEN "he20"
  ELSE CASE c.node_mode = "ht40-emitter" -> "above"
         [] c.node_mode \in EspNowPair \cup {"wifi-ap", "esp-now-simplex-source"} -> c.ht40_secondary
         [] OTHER -> None

BuildMode(c) ==
  [mode      |-> c.node_mode,
   session   |-> SessionRole(c),
   reporting |-> ModeReporting(c),
   channel   |-> c.channel,
   phy       |-> Phy(c),
   peer      |-> IF c.node_mode \in Emitters \cup EspNowPair \cup Simplex THEN c.peer_mac ELSE None,
   rate      |-> IF c.node_mode \in EspNowPair THEN c.phy_rate ELSE None,
   network   |-> IF c.node_mode \in {"station", "wifi-ap"} THEN c.network ELSE None,
   period    |-> IF c.node_mode \in Emitters THEN c.inject_period_us ELSE None,
   sta_iface |-> IF c.node_mode \in Emitters THEN c.emitter_use_sta_if ELSE None]

(* write_node_attributes and reporting_line: what show-config, set-wifi and*)
(* set-reporting say of the next run, read back from the mode it will have.*)
ReportingRemark(c) ==
  IF ~ReadsReporting(c.node_mode) THEN "fixed by mode"
  ELSE IF c.node_mode = "sniffer" /\ c.reporting = Silent THEN "cannot report none"
  ELSE None

NodeAttributes_AsStored(c) ==  \* mutant: the stored reporting is printed
  [mode |-> c.node_mode, session |-> SessionRole(c), session_fixed |-> SessionFixed(c.node_mode),
   reporting |-> c.reporting, remark |-> ReportingRemark(c)]
NodeAttributes(c) ==
  [mode |-> c.node_mode, session |-> BuildMode(c).session,
   session_fixed |-> SessionFixed(c.node_mode),
   reporting |-> BuildMode(c).reporting, remark |-> ReportingRemark(c)]

-----------------------------------------------------------------------------
(***************************************************************************)
(* Properties.                                                             *)
(***************************************************************************)
Reportings ==
  [kind : {"report"}, param : Destinations] \cup {Silent}
    \cup [kind : {"threshold"}, param : Thresholds]
    \cup [kind : {"decimate"}, param : Positive(U16Max)]

(* The types of the configuration, the ranges the parsers enforce included:*)
(* a decimation and an injection period are never zero.                    *)
Configs ==
  [node_mode : NodeModes, csi_output_enabled : BOOLEAN,
   reporting : Reportings, report_to : Destinations,
   threshold : Thresholds, decimate_n : Positive(U16Max),
   he20 : BOOLEAN, csi_peer_filter : Macs \cup {None}, csi_min_sig_mode : {0, 1},
   periodicity_hz : U16, flood_unsolicited : BOOLEAN,
   network : Networks, csi_config : [flags : SUBSET CsiFlags, scale : 0..3],
   channel : Channels, phy_rate : Rates,
   protocol : Protocols, tx_enabled : BOOLEAN, rx_enabled : BOOLEAN,
   peer_mac : Macs \cup {None}, ht40_secondary : Secondaries, delivery_raw : BOOLEAN,
   inject_period_us : Positive(U32Max), emitter_use_sta_if : BOOLEAN]
ConfigTypeOK == cfg \in Configs

(* commands.md:142: parameters are kept while another policy is active and *)
(* apply at once when the matching policy already is, whichever of         *)
(* set-wifi and set-reporting wrote what, in whatever order.               *)
ReportingCoherent ==
  CASE cfg.reporting.kind = "report"    -> cfg.reporting = Report(cfg.report_to)
    [] cfg.reporting.kind = "threshold" -> cfg.reporting = Threshold(cfg.threshold)
    [] cfg.reporting.kind = "decimate"  -> cfg.reporting = Decimate(cfg.decimate_n)
    [] OTHER -> cfg.reporting = Silent

(* main.rs:368-370: no command gives a sniffer `none`, the mode and the    *)
(* reporting of one line included; it can only be left with one.           *)
NoneIsLeftOver ==
  [][cfg'.node_mode = "sniffer" /\ cfg'.reporting = Silent => cfg.reporting = Silent]_configVars

(* show-config marks an attribute "(fixed by mode)" exactly when no other  *)
(* setting could change it, build_mode agrees, and a reporting it prints   *)
(* without a remark is the one that was set (cmds.rs:163-178, 197-225).    *)
Candidates == {Report("host"), Report("local"), Silent, Decimate(1)}
FixedByModeIsFixed ==
  /\ ReportingRemark(cfg) # "fixed by mode" <=>
       \E r \in Candidates : ModeReporting([cfg EXCEPT !.reporting = r]) # ModeReporting(cfg)
  /\ ReportingRemark(cfg) = None => ModeReporting(cfg) = cfg.reporting
  /\ SessionFixed(cfg.node_mode) =>
       \A hz \in {0, 1} : SessionRole([cfg EXCEPT !.periodicity_hz = hz]) = SessionRole(cfg)
=============================================================================
