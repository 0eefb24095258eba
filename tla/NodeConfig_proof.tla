-------------------------- MODULE NodeConfig_proof --------------------------
(***************************************************************************)
(* No sequence of commands, valid or not, takes the configuration out of   *)
(* its ranges or lets the active reporting drift from its parameters.      *)
(* Every command is a composition of updates; a lemma says of each update  *)
(* that it keeps a well-formed configuration well-formed.                  *)
(***************************************************************************)
EXTENDS NodeConfig, TLAPS

CoherentReporting(c) ==
  \/ c.reporting = Report(c.report_to)
  \/ c.reporting = Threshold(c.threshold)
  \/ c.reporting = Decimate(c.decimate_n)
  \/ c.reporting = Silent
Good(c) == c \in Configs /\ CoherentReporting(c)

(* The parts of a configuration the reporting updates leave alone.         *)
LEMMA GivenType ==
  ASSUME NEW S, NEW T, NEW old \in T, S \subseteq T, NEW value
  PROVE  Given(value, S, old) \in T
BY DEF Given

LEMMA ReportingTypes ==
  /\ \A to \in Destinations : Report(to) \in Reportings
  /\ Silent \in Reportings
  /\ \A t \in Thresholds : Threshold(t) \in Reportings
  /\ \A n \in Positive(U16Max) : Decimate(n) \in Reportings
BY DEF Report, Silent, Threshold, Decimate, Reportings

LEMMA KindsDiffer ==
  \A to, t, n : /\ Report(to).kind = "report" /\ Silent.kind = "none"
                /\ Threshold(t).kind = "threshold" /\ Decimate(n).kind = "decimate"
BY DEF Report, Silent, Threshold, Decimate

LEMMA DefaultIsGood == Good(DefaultConfig)
<1>1. DefaultConfig \in Configs
  BY ConfigAssumption DEF DefaultConfig, Configs, DefaultCsi, NodeModes, WifiModes, Reportings,
     Report, Destinations, Secondaries, U16, Positive, Thresholds
<1>2. CoherentReporting(DefaultConfig)
  BY DEF CoherentReporting, DefaultConfig
<1>. QED
  BY <1>1, <1>2 DEF Good

(* An update of the fields reporting does not depend on.                   *)
Same(c, d) ==
  /\ d.reporting = c.reporting /\ d.report_to = c.report_to
  /\ d.threshold = c.threshold /\ d.decimate_n = c.decimate_n
LEMMA SameIsCoherent ==
  ASSUME NEW c, NEW d, CoherentReporting(c), Same(c, d)
  PROVE  CoherentReporting(d)
BY DEF CoherentReporting, Same

LEMMA DestinationIsGood ==
  ASSUME NEW c, Good(c), NEW to
  PROVE  Good(WithDestination(c, to))
<1>. DEFINE d == WithDestination(c, to)
            r == IF c.reporting.kind = "report" THEN Report(to) ELSE c.reporting
<1>1. CASE to \notin Destinations
  BY <1>1 DEF WithDestination
<1>2. CASE to \in Destinations
  <2>0. r \in Reportings
    BY <1>2, ReportingTypes DEF Good, Configs
  <2>1. d = [c EXCEPT !.report_to = to, !.reporting = r]
    BY <1>2 DEF WithDestination, Good, Configs
  <2>2. d \in Configs
    <3>. HIDE DEF r, d
    <3>. QED
      BY <1>2, <2>0, <2>1 DEF Good, Configs
  <2>3. /\ d.report_to = to /\ d.threshold = c.threshold /\ d.decimate_n = c.decimate_n
        /\ d.reporting = IF c.reporting.kind = "report" THEN Report(to) ELSE c.reporting
    BY <2>1 DEF Good, Configs
  <2>4. CoherentReporting(d)
    BY <2>3, KindsDiffer DEF Good, CoherentReporting
  <2>. QED
    BY <2>2, <2>4 DEF Good
<1>. QED
  BY <1>1, <1>2

LEMMA PolicyIsGood ==
  ASSUME NEW c, Good(c), NEW policy
  PROVE  Good(WithPolicy(c, policy))
<1>1. CASE ~(policy \in Policies /\ ~Refused(policy, c))
  BY <1>1 DEF WithPolicy
<1>2. CASE policy \in Policies /\ ~Refused(policy, c)
  <2>1. WithPolicy(c, policy) = [c EXCEPT !.reporting = ParseReporting(policy, c)]
    BY <1>2 DEF WithPolicy
  <2>2. /\ c.report_to \in Destinations /\ c.threshold \in Thresholds
        /\ c.decimate_n \in Positive(U16Max)
    BY DEF Good, Configs
  <2>3. /\ ParseReporting(policy, c) \in Reportings
        /\ ParseReporting(policy, c) \in {Report(c.report_to), Silent, Threshold(c.threshold),
                                          Decimate(c.decimate_n)}
    BY <1>2, <2>2, ReportingTypes DEF ParseReporting, Policies
  <2>4. WithPolicy(c, policy) \in Configs
    BY <2>1, <2>3 DEF Good, Configs
  <2>5. CoherentReporting(WithPolicy(c, policy))
    BY <2>1, <2>3 DEF Good, Configs, CoherentReporting
  <2>. QED
    BY <2>4, <2>5 DEF Good
<1>. QED
  BY <1>1, <1>2

LEMMA FlagsAreGood ==
  ASSUME NEW c, Good(c), NEW policy, NEW to
  PROVE  Good(ApplyReportingFlags(c, policy, to))
BY DestinationIsGood, PolicyIsGood DEF ApplyReportingFlags

-----------------------------------------------------------------------------
(* One lemma per command.                                                  *)
LEMMA ParametersAreTyped ==
  ASSUME NEW c \in Configs, NEW line
  PROVE  LET d == WithParameters(c, line)
         IN /\ d \in Configs
            /\ d.reporting = c.reporting /\ d.report_to = c.report_to
<1>. DEFINE l == Given(line.level, U16, c.threshold.level)
            h == Given(line.hold_ms, U16, c.threshold.hold_ms)
            n == Given(line.n, Positive(U16Max), c.decimate_n)
            t == [c.threshold EXCEPT !.level = l, !.hold_ms = h]
<1>0. c.threshold \in Thresholds /\ c.decimate_n \in Positive(U16Max)
  BY DEF Configs
<1>1. l \in U16 /\ h \in U16 /\ n \in Positive(U16Max)
  BY <1>0 DEF Given, Thresholds
<1>2. t \in Thresholds
  BY <1>0, <1>1 DEF Thresholds
<1>3. WithParameters(c, line) = [c EXCEPT !.threshold = t, !.decimate_n = n]
  BY <1>0 DEF WithParameters, Configs, Thresholds
<1>. HIDE DEF t, n
<1>. QED
  BY <1>1, <1>2, <1>3 DEF Configs

LEMMA RederiveIsGood ==
  ASSUME NEW b, Good(b), NEW c \in Configs,
         c.reporting = b.reporting, c.report_to = b.report_to
  PROVE  Good(Rederive(c))
<1>. DEFINE r == CASE c.reporting.kind = "threshold" -> Threshold(c.threshold)
                   [] c.reporting.kind = "decimate"  -> Decimate(c.decimate_n)
                   [] OTHER -> c.reporting
<1>0. c.threshold \in Thresholds /\ c.decimate_n \in Positive(U16Max) /\ c.reporting \in Reportings
  BY DEF Configs
<1>1. r \in Reportings
  BY <1>0, ReportingTypes
<1>2. Rederive(c) = [c EXCEPT !.reporting = r]
  BY DEF Rederive, Configs
<1>3. r \in {Report(c.report_to), Threshold(c.threshold), Decimate(c.decimate_n), Silent}
  BY KindsDiffer DEF Good, CoherentReporting
<1>. HIDE DEF r
<1>4. Rederive(c) \in Configs
  BY <1>1, <1>2 DEF Configs
<1>5. CoherentReporting(Rederive(c))
  BY <1>2, <1>3 DEF CoherentReporting, Configs
<1>. QED
  BY <1>4, <1>5 DEF Good

LEMMA SetReportingIsGood ==
  ASSUME Good(cfg), NEW line, SetReporting(line)
  PROVE  Good(cfg')
<1>1. Good(Rederive(WithParameters(cfg, line)))
  BY ParametersAreTyped, RederiveIsGood DEF Good
<1>. QED
  BY <1>1, FlagsAreGood DEF SetReporting

LEMMA PeriodIsPositive ==
  ASSUME NEW old \in Positive(U32Max), NEW ms, NEW us
  PROVE  WithPeriod(old, ms, us) \in Positive(U32Max)
<1>1. ASSUME ms \in Positive(U32Max) PROVE FromMs(ms) \in Positive(U32Max)
  BY <1>1, ConfigAssumption DEF FromMs, Positive
<1>. QED
  BY <1>1 DEF WithPeriod, Given

LEMMA WifiIsGood ==
  ASSUME NEW c, Good(c), NEW line
  PROVE  Good(WithWifi(c, line))
<1>. DEFINE f1 == Given(line.mode, NodeModes, c.node_mode)
            f2 == Given(line.channel, Channels, c.channel)
            f3 == Given(line.network, Networks, c.network)
            f4 == Given(line.peer_mac, Macs \cup {None}, c.peer_mac)
            f5 == Given(line.ht40, Secondaries, c.ht40_secondary)
            f6 == IF HasHe20 THEN Given(line.he20, BOOLEAN, c.he20) ELSE c.he20
            f7 == WithPeriod(c.inject_period_us, line.period_ms, line.period_us)
            f8 == Given(line.sta_iface, BOOLEAN, c.emitter_use_sta_if)
            d  == WithWifi(c, line)
<1>1. /\ f1 \in NodeModes /\ f2 \in Channels /\ f3 \in Networks /\ f4 \in Macs \cup {None}
      /\ f5 \in Secondaries
  BY DEF Given, Good, Configs
<1>2. f6 \in BOOLEAN /\ f8 \in BOOLEAN
  BY DEF Given, Good, Configs
<1>3. f7 \in Positive(U32Max)
  BY PeriodIsPositive DEF Good, Configs
<1>4. d = [c EXCEPT !.node_mode = f1, !.channel = f2, !.network = f3, !.peer_mac = f4,
                    !.ht40_secondary = f5, !.he20 = f6, !.inject_period_us = f7,
                    !.emitter_use_sta_if = f8]
  BY DEF WithWifi, Good, Configs
<1>. HIDE DEF f1, f2, f3, f4, f5, f6, f7, f8, d
<1>5. d \in Configs
  BY <1>1, <1>2, <1>3, <1>4 DEF Good, Configs
<1>6. Same(c, d)
  BY <1>4 DEF Same, Good, Configs
<1>. QED
  BY <1>5, <1>6, SameIsCoherent DEF Good, d

LEMMA CsiIsGood ==
  ASSUME Good(cfg), NEW line \in CsiLines, SetCsi(line)
  PROVE  Good(cfg')
<1>. DEFINE C == [flags : SUBSET CsiFlags, scale : 0..3]
            t == Toggled(cfg.csi_config, line)
            p == Preset(t, line)
            q == Scaled(p, line)
<1>1. t \in C
  BY ConfigAssumption DEF Toggled, Good, Configs
<1>2. p \in C
  BY <1>1, ConfigAssumption DEF Preset, DefaultCsi
<1>3. q \in C
  BY <1>2 DEF Scaled, Given
<1>4. cfg' = [cfg EXCEPT !.csi_config = q]
  BY DEF SetCsi, Good, Configs
<1>. HIDE DEF q
<1>5. cfg' \in Configs
  BY <1>3, <1>4 DEF Good, Configs
<1>6. Same(cfg, cfg')
  BY <1>4 DEF Same, Good, Configs
<1>. QED
  BY <1>5, <1>6, SameIsCoherent DEF Good

(* The commands that set one or two fields from a checked domain.          *)
LEMMA FieldCommandsAreGood ==
  ASSUME Good(cfg), NEW line,
         \/ SetMeasurement(line) \/ SetIoTasks(line) \/ SetCsiOutput(line)
         \/ SetPhyRate(line) \/ SetProtocol(line)
  PROVE  Good(cfg')
<1>1. CASE SetMeasurement(line)
  <2>1. cfg' \in Configs
    BY <1>1 DEF SetMeasurement, Given, Good, Configs
  <2>2. Same(cfg, cfg')
    BY <1>1 DEF SetMeasurement, Same, Good, Configs
  <2>. QED
    BY <2>1, <2>2, SameIsCoherent DEF Good
<1>2. CASE SetIoTasks(line)
  <2>1. cfg' \in Configs
    BY <1>2 DEF SetIoTasks, Given, Good, Configs
  <2>2. Same(cfg, cfg')
    BY <1>2 DEF SetIoTasks, Same, Good, Configs
  <2>. QED
    BY <2>1, <2>2, SameIsCoherent DEF Good
<1>3. CASE SetCsiOutput(line)
  <2>1. cfg' \in Configs
    BY <1>3 DEF SetCsiOutput, Given, Good, Configs
  <2>2. Same(cfg, cfg')
    BY <1>3 DEF SetCsiOutput, Same, Good, Configs
  <2>. QED
    BY <2>1, <2>2, SameIsCoherent DEF Good
<1>4. CASE SetPhyRate(line)
  <2>1. cfg' \in Configs
    BY <1>4 DEF SetPhyRate, Given, Good, Configs
  <2>2. Same(cfg, cfg')
    BY <1>4 DEF SetPhyRate, Same, Good, Configs
  <2>. QED
    BY <2>1, <2>2, SameIsCoherent DEF Good
<1>5. CASE SetProtocol(line)
  <2>1. cfg' \in Configs
    BY <1>5 DEF SetProtocol, Given, Good, Configs
  <2>2. Same(cfg, cfg')
    BY <1>5 DEF SetProtocol, Same, Good, Configs
  <2>. QED
    BY <2>1, <2>2, SameIsCoherent DEF Good
<1>. QED
  BY <1>1, <1>2, <1>3, <1>4, <1>5

(* The commands that write the configuration and the library.              *)
LEMMA SharedCommandsAreGood ==
  ASSUME Good(cfg), NEW line, SetCsiFilter(line) \/ SetCsiDelivery(line)
  PROVE  Good(cfg')
<1>1. CASE SetCsiFilter(line)
  <2>. DEFINE f == IF FilterGiven(line) THEN FilterOf(line) ELSE cfg.csi_peer_filter
              m == IF MinPhyGiven(line) THEN line.min_phy ELSE cfg.csi_min_sig_mode
  <2>1. f \in Macs \cup {None} /\ m \in {0, 1}
    BY DEF FilterGiven, FilterOf, MinPhyGiven, Good, Configs
  <2>2. cfg' = [cfg EXCEPT !.csi_peer_filter = f, !.csi_min_sig_mode = m]
    BY <1>1 DEF SetCsiFilter, Good, Configs
  <2>. HIDE DEF f, m
  <2>3. cfg' \in Configs
    BY <2>1, <2>2 DEF Good, Configs
  <2>4. Same(cfg, cfg')
    BY <2>2 DEF Same, Good, Configs
  <2>. QED
    BY <2>3, <2>4, SameIsCoherent DEF Good
<1>2. CASE SetCsiDelivery(line)
  <2>. DEFINE r == CASE line.mode = "raw" -> TRUE
                     [] line.mode \in DeliveryModes -> FALSE
                     [] OTHER -> cfg.delivery_raw
  <2>1. r \in BOOLEAN
    BY DEF Good, Configs, DeliveryModes
  <2>2. cfg' = [cfg EXCEPT !.delivery_raw = r]
    BY <1>2 DEF SetCsiDelivery, Good, Configs
  <2>. HIDE DEF r
  <2>3. cfg' \in Configs
    BY <2>1, <2>2 DEF Good, Configs
  <2>4. Same(cfg, cfg')
    BY <2>2 DEF Same, Good, Configs
  <2>. QED
    BY <2>3, <2>4, SameIsCoherent DEF Good
<1>. QED
  BY <1>1, <1>2

LEMMA CommandIsGood == ASSUME Good(cfg), ConfigCommand PROVE Good(cfg')
<1>1. ASSUME NEW line \in WifiLines, SetWifi(line) PROVE Good(cfg')
  BY <1>1, WifiIsGood, FlagsAreGood DEF SetWifi, WifiResult
<1>2. ASSUME NEW line \in ReportingLines, SetReporting(line) PROVE Good(cfg')
  BY <1>2, SetReportingIsGood
<1>3. ASSUME NEW line \in MeasurementLines, SetMeasurement(line) PROVE Good(cfg')
  BY <1>3, FieldCommandsAreGood
<1>4. ASSUME NEW line \in CsiLines, SetCsi(line) PROVE Good(cfg')
  BY <1>4, CsiIsGood
<1>5. ASSUME NEW line \in IoLines, SetIoTasks(line) PROVE Good(cfg')
  BY <1>5, FieldCommandsAreGood
<1>6. ASSUME NEW line \in OutputLines, SetCsiOutput(line) PROVE Good(cfg')
  BY <1>6, FieldCommandsAreGood
<1>7. ASSUME NEW line \in RateLines, SetPhyRate(line) PROVE Good(cfg')
  BY <1>7, FieldCommandsAreGood
<1>8. ASSUME NEW line \in ProtocolLines, SetProtocol(line) PROVE Good(cfg')
  BY <1>8, FieldCommandsAreGood
<1>9. CASE ResetConfig
  BY <1>9, DefaultIsGood DEF ResetConfig
<1>. QED
  BY <1>1, <1>2, <1>3, <1>4, <1>5, <1>6, <1>7, <1>8, <1>9 DEF ConfigCommand

LEMMA GoodStep == Good(cfg) /\ [Next]_configVars => Good(cfg')
<1>. SUFFICES ASSUME Good(cfg), [Next]_configVars PROVE Good(cfg')
  OBVIOUS
<1>1. CASE ConfigCommand
  BY <1>1, CommandIsGood
<1>2. ASSUME NEW line \in WifiLines, SetWifiPanics(line) PROVE Good(cfg')
  BY <1>2, DefaultIsGood DEF SetWifiPanics
<1>3. ASSUME NEW line \in FilterLines, SetCsiFilter(line) PROVE Good(cfg')
  BY <1>3, SharedCommandsAreGood
<1>4. ASSUME NEW line \in DeliveryLines, SetCsiDelivery(line) PROVE Good(cfg')
  BY <1>4, SharedCommandsAreGood
<1>5. CASE UNCHANGED configVars
  BY <1>5 DEF configVars
<1>. QED
  BY <1>1, <1>2, <1>3, <1>4, <1>5 DEF Next

Inv == Good(cfg)

LEMMA AlwaysGood == Spec => []Inv
<1>1. Init => Inv
  BY DefaultIsGood DEF Init, Inv
<1>2. Inv /\ [Next]_configVars => Inv'
  BY GoodStep DEF Inv
<1>. QED
  BY <1>1, <1>2, PTL DEF Spec

(* For every chip, every range and every set of command lines the fields   *)
(* stay in the ranges their parsers enforce.                               *)
THEOREM ConfigTypeCorrect == Spec => []ConfigTypeOK
<1>1. Inv => ConfigTypeOK
  BY DEF Inv, Good, ConfigTypeOK
<1>. QED
  BY <1>1, AlwaysGood, PTL

(* The active reporting always has the stored parameters of its policy     *)
(* (cmds.rs:253-286 and 1900-1908 together).                               *)
THEOREM ReportingIsCoherent == Spec => []ReportingCoherent
<1>1. Inv => ReportingCoherent
  BY KindsDiffer DEF Inv, Good, CoherentReporting, ReportingCoherent
<1>. QED
  BY <1>1, AlwaysGood, PTL

-----------------------------------------------------------------------------
(* The reporting flags put `none` on no sniffer.                           *)
LEMMA FlagsLeaveSniffer ==
  ASSUME NEW c, Good(c), NEW policy, NEW to,
         ApplyReportingFlags(c, policy, to).node_mode = "sniffer",
         ApplyReportingFlags(c, policy, to).reporting = Silent
  PROVE  c.reporting = Silent
<1>. DEFINE d == WithDestination(c, to)
<1>1. Good(d) /\ (d.reporting = Silent => c.reporting = Silent)
  <2>1. CASE to \notin Destinations
    BY <2>1 DEF WithDestination
  <2>2. CASE to \in Destinations
    <3>1. Good(d)
      BY DestinationIsGood
    <3>2. d.reporting = IF c.reporting.kind = "report" THEN Report(to) ELSE c.reporting
      BY <2>2 DEF WithDestination, Good, Configs
    <3>3. Report(to) # Silent
      BY KindsDiffer
    <3>. QED
      BY <3>1, <3>2, <3>3
  <2>. QED
    BY <2>1, <2>2
<1>. HIDE DEF d
<1>2. CASE ~(policy \in Policies /\ ~Refused(policy, d))
  BY <1>1, <1>2 DEF ApplyReportingFlags, WithPolicy, d
<1>3. CASE policy \in Policies /\ ~Refused(policy, d)
  <2>1. ApplyReportingFlags(c, policy, to) = [d EXCEPT !.reporting = ParseReporting(policy, d)]
    BY <1>3 DEF ApplyReportingFlags, WithPolicy, d
  <2>2. d.node_mode = "sniffer" /\ ParseReporting(policy, d) = Silent
    BY <1>1, <2>1 DEF Good, Configs
  <2>3. policy # "none"
    BY <1>3, <2>2 DEF Refused
  <2>. QED
    BY <1>3, <2>2, <2>3, KindsDiffer DEF ParseReporting, Policies
<1>. QED
  BY <1>2, <1>3

LEMMA ReportingUntouched ==
  ASSUME Good(cfg), NEW line,
         \/ SetMeasurement(line) \/ SetCsi(line) \/ SetIoTasks(line) \/ SetCsiOutput(line)
         \/ SetPhyRate(line) \/ SetProtocol(line) \/ SetCsiFilter(line) \/ SetCsiDelivery(line)
  PROVE  cfg'.reporting = cfg.reporting
BY DEF SetMeasurement, SetCsi, SetIoTasks, SetCsiOutput, SetPhyRate, SetProtocol, SetCsiFilter,
       SetCsiDelivery, Good, Configs

LEMMA NoneStep ==
  Inv /\ [Next]_configVars =>
    [cfg'.node_mode = "sniffer" /\ cfg'.reporting = Silent => cfg.reporting = Silent]_configVars
<1>. SUFFICES ASSUME Inv, Next, cfg'.node_mode = "sniffer", cfg'.reporting = Silent
              PROVE  cfg.reporting = Silent
  BY DEF configVars
<1>. USE DEF Inv
<1>1. ASSUME NEW line \in WifiLines, SetWifi(line) PROVE cfg.reporting = Silent
  <2>1. Good(WithWifi(cfg, line)) /\ WithWifi(cfg, line).reporting = cfg.reporting
    BY WifiIsGood DEF WithWifi, Good, Configs
  <2>. QED
    BY <1>1, <2>1, FlagsLeaveSniffer DEF SetWifi, WifiResult
<1>2. ASSUME NEW line \in ReportingLines, SetReporting(line) PROVE cfg.reporting = Silent
  <2>. DEFINE c == WithParameters(cfg, line)
  <2>1. c \in Configs /\ c.reporting = cfg.reporting /\ Good(Rederive(c))
    BY ParametersAreTyped, RederiveIsGood DEF Good
  <2>2. Rederive(c).reporting = Silent
    BY <1>2, <2>1, FlagsLeaveSniffer DEF SetReporting
  <2>. HIDE DEF c
  <2>. QED
    BY <2>1, <2>2, KindsDiffer DEF Rederive, Configs
<1>3. CASE ResetConfig \/ \E line \in WifiLines : SetWifiPanics(line)
  BY <1>3, KindsDiffer DEF ResetConfig, SetWifiPanics, DefaultConfig
<1>. QED
  BY <1>1, <1>2, <1>3, ReportingUntouched DEF Next, ConfigCommand

(* No command line gives a sniffer the reporting `none`: one that has it   *)
(* kept it from another mode.                                              *)
THEOREM NoneIsOnlyLeftOver == Spec => NoneIsLeftOver
BY AlwaysGood, NoneStep, PTL DEF Spec, NoneIsLeftOver

-----------------------------------------------------------------------------
LEMMA CandidatesDiffer ==
  /\ Report("host") # Report("local") /\ Report("local") # Silent
  /\ Report("host") # Silent /\ Silent # Decimate(1)
BY DEF Report, Silent, Decimate

(* Changing one field of a configuration changes what reads that field.    *)
LEMMA Otherwise ==
  ASSUME cfg \in Configs, NEW r, NEW hz
  PROVE  /\ [cfg EXCEPT !.reporting = r].reporting = r
         /\ [cfg EXCEPT !.reporting = r].node_mode = cfg.node_mode
         /\ [cfg EXCEPT !.periodicity_hz = hz].periodicity_hz = hz
         /\ [cfg EXCEPT !.periodicity_hz = hz].node_mode = cfg.node_mode
BY DEF Configs

LEMMA ReadingModes ==
  ASSUME cfg \in Configs
  PROVE  ReadsReporting(cfg.node_mode) <=>
           \E r \in Candidates : ModeReporting([cfg EXCEPT !.reporting = r]) # ModeReporting(cfg)
<1>. DEFINE With(r) == [cfg EXCEPT !.reporting = r]
<1>0. \A r : With(r).reporting = r /\ With(r).node_mode = cfg.node_mode
  BY Otherwise
<1>. HIDE DEF With
<1>1. CASE ~ReadsReporting(cfg.node_mode)
  <2>1. cfg.node_mode \notin {"sniffer", "station", "wifi-ap"} \cup EspNowPair
    BY <1>1 DEF ReadsReporting, WifiModes
  <2>2. ASSUME NEW r PROVE ModeReporting(With(r)) = ModeReporting(cfg)
    BY <1>0, <2>1 DEF ModeReporting
  <2>. QED
    BY <1>1, <2>2 DEF With
<1>2. CASE ReadsReporting(cfg.node_mode)
  <2>1. ModeReporting(With(Report("host"))) # ModeReporting(With(Report("local")))
    <3>1. CASE cfg.node_mode = "sniffer"
      <4>1. ASSUME NEW r PROVE ModeReporting(With(r)) = SnifferReporting(r)
        <5>1. With(r).reporting = r /\ With(r).node_mode = "sniffer"
          BY <1>0, <3>1
        <5>. QED
          BY <5>1 DEF ModeReporting, EspNowPair
      <4>2. \A to : SnifferReporting(Report(to)) = Report(to)
        BY KindsDiffer DEF SnifferReporting
      <4>. QED
        BY <4>1, <4>2, CandidatesDiffer
    <3>2. CASE cfg.node_mode \in {"station", "wifi-ap"} \cup EspNowPair
      <4>1. \A to : ModeReporting(With(Report(to))) = Report(to)
        BY <1>0, <3>2 DEF ModeReporting, EspNowPair
      <4>. QED
        BY <4>1, CandidatesDiffer
    <3>. QED
      BY <1>2, <3>1, <3>2 DEF ReadsReporting, WifiModes
  <2>2. Report("host") \in Candidates /\ Report("local") \in Candidates
    BY DEF Candidates
  <2>3. \E r \in Candidates : ModeReporting(With(r)) # ModeReporting(cfg)
    BY <2>1, <2>2
  <2>. QED
    BY <1>2, <2>3 DEF With
<1>. QED
  BY <1>1, <1>2

LEMMA UnmarkedIsStored ==
  ASSUME cfg \in Configs, ReadsReporting(cfg.node_mode),
         ~(cfg.node_mode = "sniffer" /\ cfg.reporting = Silent)
  PROVE  ModeReporting(cfg) = cfg.reporting
<1>1. CASE cfg.node_mode = "sniffer"
  <2>1. cfg.reporting \in Reportings /\ cfg.reporting # Silent
    BY <1>1 DEF Configs
  <2>2. cfg.reporting.kind # "none"
    BY <2>1 DEF Reportings
  <2>. QED
    BY <1>1, <2>2 DEF ModeReporting, SnifferReporting
<1>2. CASE cfg.node_mode \in {"station", "wifi-ap"} \cup EspNowPair
  BY <1>2 DEF ModeReporting, EspNowPair
<1>. QED
  BY <1>1, <1>2 DEF ReadsReporting, WifiModes

LEMMA FixedRoles ==
  ASSUME cfg \in Configs, SessionFixed(cfg.node_mode), NEW hz
  PROVE  SessionRole([cfg EXCEPT !.periodicity_hz = hz]) = SessionRole(cfg)
<1>1. cfg.node_mode # "station"
  BY DEF SessionFixed
<1>. QED
  BY <1>1, Otherwise DEF SessionRole

(* The three tables that describe build_mode by hand, reads_reporting, the *)
(* session_fixed list and the remark, describe it for every configuration. *)
THEOREM RemarksAreTrue == Spec => []FixedByModeIsFixed
<1>1. ConfigTypeOK => FixedByModeIsFixed
  <2>. SUFFICES ASSUME cfg \in Configs PROVE FixedByModeIsFixed
    BY DEF ConfigTypeOK
  <2>1. /\ ReportingRemark(cfg) # "fixed by mode" <=> ReadsReporting(cfg.node_mode)
        /\ ReportingRemark(cfg) = None =>
             ReadsReporting(cfg.node_mode) /\ ~(cfg.node_mode = "sniffer" /\ cfg.reporting = Silent)
    <3>1. None # "fixed by mode" /\ None # "cannot report none"
      BY NoneAssumption DEF Remarks
    <3>2. CASE ~ReadsReporting(cfg.node_mode)
      BY <3>1, <3>2 DEF ReportingRemark
    <3>3. CASE ReadsReporting(cfg.node_mode)
      <4>1. CASE cfg.node_mode = "sniffer" /\ cfg.reporting = Silent
        BY <3>1, <3>3, <4>1 DEF ReportingRemark
      <4>2. CASE ~(cfg.node_mode = "sniffer" /\ cfg.reporting = Silent)
        <5>1. ReportingRemark(cfg) = None
          BY <3>3, <4>2 DEF ReportingRemark
        <5>. QED
          BY <3>1, <3>3, <4>2, <5>1
      <4>. QED
        BY <4>1, <4>2
    <3>. QED
      BY <3>2, <3>3
  <2>. QED
    BY <2>1, ReadingModes, UnmarkedIsStored, FixedRoles DEF FixedByModeIsFixed
<1>. QED
  BY <1>1, ConfigTypeCorrect, PTL

=============================================================================
