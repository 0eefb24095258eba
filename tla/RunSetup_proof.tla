--------------------------- MODULE RunSetup_proof ---------------------------
(***************************************************************************)
(* A run delivers what its configuration says, whatever runs, resets and   *)
(* commands came before it.                                                *)
(***************************************************************************)
EXTENDS RunSetup, NodeConfig_proof

(* Every step of the run's specification is a step of the configuration's, *)
(* or leaves the configuration alone.                                      *)
LEMMA ConfigMaps == RunSpec => Spec
<1>1. RunInit => Init
  BY DEF RunInit
<1>2. [RunNext]_runVars => [Next]_configVars
  BY DEF RunNext, runVars, configVars, Next, PlainCommand, PanicCommand, FilterCommand,
         DeliveryCommand, LogModeCommand, SessionCommand, StartRun, FinishRun
<1>. QED
  BY <1>1, <1>2, PTL DEF RunSpec, Spec

(* What was proved of the commands alone holds between and during runs.    *)
THEOREM RunsKeepReportingCoherent == RunSpec => []ReportingCoherent
BY ConfigMaps, ReportingIsCoherent, PTL

(* And what show-config marks fixed is fixed.                              *)
THEOREM RunsKeepRemarksTrue == RunSpec => []FixedByModeIsFixed
BY ConfigMaps, RemarksAreTrue, PTL

(* No command, in any order with runs and panics, gives a sniffer `none`.*)
THEOREM RunsLeaveNoNone == RunSpec => NoneIsLeftOver
BY ConfigMaps, NoneIsOnlyLeftOver, PTL

-----------------------------------------------------------------------------
LEMMA LibraryInit == RunInit => LibraryTypeOK
BY SetupAssumption DEF RunInit, BootLibrary, LibraryTypeOK, DeliveryModes, SessionNames

LEMMA SessionIsTyped ==
  ASSUME LibraryTypeOK, NEW line
  PROVE  NamedSession(line) \in SessionNames
<1>1. lib.session \in SessionNames
  BY DEF LibraryTypeOK
<1>. QED
  BY <1>1 DEF NamedSession, SessionNames

LEMMA StaticIsMac == \A mac \in Macs \cup {None} : AsStatic(mac) \in Macs
BY SetupAssumption DEF AsStatic

LEMMA LibraryStep == ConfigTypeOK /\ LibraryTypeOK /\ [RunNext]_runVars => LibraryTypeOK'
<1>. SUFFICES ASSUME ConfigTypeOK, LibraryTypeOK, [RunNext]_runVars PROVE LibraryTypeOK'
  OBVIOUS
<1>. USE DEF LibraryTypeOK
<1>1. CASE PlainCommand \/ UNCHANGED runVars
  BY <1>1 DEF PlainCommand, libraryVars, runVars
<1>2. CASE PanicCommand
  BY <1>2, SetupAssumption DEF PanicCommand, BootLibrary, DeliveryModes, SessionNames
<1>3. ASSUME NEW line \in FilterLines, FilterCommand(line) PROVE LibraryTypeOK'
  <2>. DEFINE p == IF FilterGiven(line) THEN AsStatic(FilterOf(line)) ELSE lib.peer
              m == IF MinPhyGiven(line) THEN line.min_phy ELSE lib.min_sig
  <2>1. p \in Macs /\ m \in {0, 1}
    BY StaticIsMac DEF FilterGiven, FilterOf, MinPhyGiven
  <2>2. lib' = [lib EXCEPT !.peer = p, !.min_sig = m] /\ power' = power
    BY <1>3 DEF FilterCommand, FilterStatics
  <2>. HIDE DEF p, m
  <2>. QED
    BY <2>1, <2>2
<1>4. ASSUME NEW line \in DeliveryLines, DeliveryCommand(line) PROVE LibraryTypeOK'
  BY <1>4 DEF DeliveryCommand, Given
<1>5. ASSUME NEW mode \in LogModeLines, LogModeCommand(mode) PROVE LibraryTypeOK'
  BY <1>5, SetupAssumption DEF LogModeCommand
<1>6. ASSUME NEW line \in SessionLines, SessionCommand(line) PROVE LibraryTypeOK'
  <2>1. NamedSession(line) \in SessionNames
    BY SessionIsTyped
  <2>. QED
    BY <1>6, <2>1 DEF SessionCommand
<1>7. CASE StartRun
  <2>1. /\ cfg.csi_output_enabled \in BOOLEAN /\ cfg.csi_min_sig_mode \in {0, 1}
        /\ AsStatic(cfg.csi_peer_filter) \in Macs
    BY StaticIsMac DEF ConfigTypeOK, Configs
  <2>. QED
    BY <1>7, <2>1 DEF StartRun, PowerSaving, Delivered, Gated, DeliveryModes
<1>8. CASE FinishRun
  BY <1>8 DEF FinishRun, DeliveryModes
<1>. QED
  BY <1>1, <1>2, <1>3, <1>4, <1>5, <1>6, <1>7, <1>8 DEF RunNext

LEMMA AlwaysTyped == RunSpec => [](ConfigTypeOK /\ LibraryTypeOK)
<1>1. RunSpec => []ConfigTypeOK
  BY ConfigMaps, ConfigTypeCorrect, PTL
<1>. QED
  BY <1>1, LibraryInit, LibraryStep, PTL DEF RunSpec

(* For every set of addresses, log modes and command lines the statics stay*)
(* in their ranges.                                                        *)
THEOREM LibraryTypeCorrect == RunSpec => []LibraryTypeOK
BY AlwaysTyped, PTL

-----------------------------------------------------------------------------
(* The inductive invariant: a run has the node of its configuration, and   *)
(* the library the gates, filters and delivery of it.                      *)
AsConfigured ==
  Running =>
    /\ node = BuildNode(cfg)
    /\ lib.output = cfg.csi_output_enabled
    /\ lib.peer = AsStatic(cfg.csi_peer_filter)
    /\ lib.min_sig = cfg.csi_min_sig_mode
    /\ lib.delivery = "off"
    /\ lib.callback = (IF cfg.delivery_raw THEN "raw" ELSE None)
    /\ lib.logging = (cfg.csi_output_enabled /\ ~cfg.delivery_raw)

LEMMA ConfiguredStep ==
  LibraryTypeOK /\ AsConfigured /\ [RunNext]_runVars => AsConfigured'
<1>. SUFFICES ASSUME LibraryTypeOK, AsConfigured, [RunNext]_runVars PROVE AsConfigured'
  OBVIOUS
<1>1. CASE UNCHANGED runVars
  BY <1>1 DEF AsConfigured, Running, runVars
<1>2. CASE StartRun
  <2>1. node' = BuildNode(cfg) /\ lib' = Delivered(Gated(lib, cfg), cfg) /\ cfg' = cfg
    BY <1>2 DEF StartRun
  <2>2. /\ lib'.output = cfg.csi_output_enabled
        /\ lib'.peer = AsStatic(cfg.csi_peer_filter)
        /\ lib'.min_sig = cfg.csi_min_sig_mode
        /\ lib'.delivery = "off"
        /\ lib'.callback = (IF cfg.delivery_raw THEN "raw" ELSE None)
        /\ lib'.logging = (cfg.csi_output_enabled /\ ~cfg.delivery_raw)
    BY <2>1 DEF Delivered, Gated, LibraryTypeOK
  <2>. QED
    BY <2>1, <2>2 DEF AsConfigured
<1>3. CASE ~Running'
  BY <1>3 DEF AsConfigured
<1>4. CASE PlainCommand \/ PanicCommand \/ FinishRun
  BY <1>3, <1>4 DEF PlainCommand, PanicCommand, FinishRun, libraryVars, Running
<1>5. ASSUME NEW line, FilterCommand(line) \/ DeliveryCommand(line) \/ LogModeCommand(line)
                         \/ SessionCommand(line)
      PROVE  ~Running'
  BY <1>5 DEF FilterCommand, DeliveryCommand, LogModeCommand, SessionCommand, Running
<1>. QED
  BY <1>1, <1>2, <1>3, <1>4, <1>5 DEF RunNext

LEMMA AlwaysConfigured == RunSpec => []AsConfigured
<1>1. RunInit => AsConfigured
  BY DEF RunInit, AsConfigured, Running
<1>. QED
  BY <1>1, AlwaysTyped, ConfiguredStep, PTL DEF RunSpec

(* A run is a function of its configuration: it finds the library as it    *)
(* would right after boot (main.rs:897-908, 949-956).                      *)
THEOREM RunsHaveNoHistory == RunSpec => []RunsLikeAfterBoot
<1>1. /\ Delivered(Gated(BootLibrary, cfg), cfg).output = cfg.csi_output_enabled
      /\ Delivered(Gated(BootLibrary, cfg), cfg).peer = AsStatic(cfg.csi_peer_filter)
      /\ Delivered(Gated(BootLibrary, cfg), cfg).min_sig = cfg.csi_min_sig_mode
      /\ Delivered(Gated(BootLibrary, cfg), cfg).delivery = "off"
      /\ Delivered(Gated(BootLibrary, cfg), cfg).callback = (IF cfg.delivery_raw THEN "raw" ELSE None)
      /\ Delivered(Gated(BootLibrary, cfg), cfg).logging = (cfg.csi_output_enabled /\ ~cfg.delivery_raw)
  BY DEF Delivered, Gated, BootLibrary
<1>2. AsConfigured => RunsLikeAfterBoot
  BY <1>1 DEF AsConfigured, RunsLikeAfterBoot
<1>. QED
  BY <1>2, AlwaysConfigured, PTL

(* Raw runs and runs with output disabled log nothing (main.rs:949-956).   *)
THEOREM QuietRunsAreQuiet == RunSpec => []QuietRunsLogNothing
<1>1. AsConfigured => QuietRunsLogNothing
  BY DEF AsConfigured, QuietRunsLogNothing
<1>. QED
  BY <1>1, AlwaysConfigured, PTL

-----------------------------------------------------------------------------
LEMMA BuiltNode ==
  /\ BuildNode(cfg).mode = BuildMode(cfg)
  /\ BuildNode(cfg).periodicity = (IF cfg.periodicity_hz > 0 THEN cfg.periodicity_hz ELSE None)
  /\ BuildNode(cfg).acquisition = cfg.csi_config
  /\ BuildNode(cfg).tx = RunTx(cfg) /\ BuildNode(cfg).rx = cfg.rx_enabled
  /\ BuildNode(cfg).protocol = cfg.protocol
BY DEF BuildNode

LEMMA BuiltMode ==
  /\ BuildMode(cfg).mode = cfg.node_mode /\ BuildMode(cfg).channel = cfg.channel
  /\ BuildMode(cfg).session = SessionRole(cfg) /\ BuildMode(cfg).reporting = ModeReporting(cfg)
  /\ BuildMode(cfg).phy = Phy(cfg)
  /\ BuildMode(cfg).network \in {cfg.network, None}
  /\ BuildMode(cfg).peer \in {cfg.peer_mac, None}
  /\ BuildMode(cfg).rate \in {cfg.phy_rate, None}
  /\ BuildMode(cfg).period \in {cfg.inject_period_us, None}
BY DEF BuildMode

(* An unpaced access point or station generates nothing, and a paced one   *)
(* what the user asked for (main.rs:909-924).                              *)
THEOREM UnpacedRunsAreSilent == RunSpec => []UnpacedIsSilent
<1>1. ConfigTypeOK /\ LibraryTypeOK /\ AsConfigured => UnpacedIsSilent
  <2>. SUFFICES ASSUME ConfigTypeOK, AsConfigured, Running,
                       cfg.node_mode \in {"station", "wifi-ap"}
                PROVE  /\ node.periodicity = None => ~node.tx
                       /\ node.periodicity # None => node.tx = cfg.tx_enabled
                       /\ cfg.node_mode = "station" =>
                            (node.mode.session = None <=> node.periodicity = None)
    BY BuiltNode, BuiltMode DEF AsConfigured, UnpacedIsSilent
  <2>1. node = BuildNode(cfg)
    BY DEF AsConfigured
  <2>2. cfg.periodicity_hz \in Nat /\ cfg.tx_enabled \in BOOLEAN
    BY ConfigAssumption DEF ConfigTypeOK, Configs, U16
  <2>3. node.periodicity = (IF cfg.periodicity_hz > 0 THEN cfg.periodicity_hz ELSE None)
    BY <2>1, BuiltNode
  <2>4. node.tx = RunTx(cfg) /\ node.mode.session = SessionRole(cfg)
    BY <2>1, BuiltNode, BuiltMode
  <2>5. CASE cfg.periodicity_hz = 0
    <3>1. node.periodicity = None
      BY <2>3, <2>5
    <3>2. ~RunTx(cfg)
      BY <2>5 DEF RunTx
    <3>3. ~node.tx
      BY <2>4, <3>2
    <3>4. cfg.node_mode = "station" => node.mode.session = None
      BY <2>4, <2>5 DEF SessionRole, EspNowPair
    <3>. QED
      BY <3>1, <3>3, <3>4
  <2>6. CASE cfg.periodicity_hz > 0
    <3>1. node.periodicity = cfg.periodicity_hz
      BY <2>3, <2>6
    <3>2. node.tx = cfg.tx_enabled
      BY <2>2, <2>4, <2>6 DEF RunTx
    <3>3. cfg.node_mode = "station" => node.mode.session = "initiator"
      BY <2>4, <2>6 DEF SessionRole
    <3>4. node.periodicity # None /\ "initiator" # None
      BY <3>1, NoneAssumption DEF ConfigTypeOK, Configs, Roles
    <3>. QED
      BY <3>1, <3>2, <3>3, <3>4
  <2>. QED
    BY <2>2, <2>5, <2>6
<1>. QED
  BY <1>1, AlwaysTyped, AlwaysConfigured, PTL

(* The fields of what show-config prints.                                  *)
LEMMA ShownConfig ==
  /\ ShowConfig.node = NodeAttributes(cfg) /\ ShowConfig.periodicity = cfg.periodicity_hz
  /\ ShowConfig.channel = cfg.channel /\ ShowConfig.network = cfg.network
  /\ ShowConfig.peer = cfg.peer_mac /\ ShowConfig.output = cfg.csi_output_enabled
  /\ ShowConfig.filter = cfg.csi_peer_filter /\ ShowConfig.min_phy = cfg.csi_min_sig_mode
  /\ ShowConfig.rate = cfg.phy_rate /\ ShowConfig.protocol = cfg.protocol
  /\ ShowConfig.tx = cfg.tx_enabled /\ ShowConfig.rx = cfg.rx_enabled
  /\ ShowConfig.period = cfg.inject_period_us /\ ShowConfig.csi_config = cfg.csi_config
  /\ ShowConfig.ht40 = cfg.ht40_secondary /\ ShowConfig.he20 = cfg.he20
  /\ ShowConfig.report_to = cfg.report_to /\ ShowConfig.threshold = cfg.threshold
  /\ ShowConfig.decimate = cfg.decimate_n
BY DEF ShowConfig

(* A reporting printed without a remark has the parameters printed below   *)
(* it: it is the stored one, and the stored one is coherent.               *)
LEMMA ShownParameters ==
  ASSUME ConfigTypeOK, ReportingCoherent, ShowConfig.node.remark = None
  PROVE  ModeReporting(cfg) \in ShownReportings
<1>1. ReportingRemark(cfg) = None
  BY ShownConfig DEF NodeAttributes
<1>2. ReadsReporting(cfg.node_mode) /\ ~(cfg.node_mode = "sniffer" /\ cfg.reporting = Silent)
  BY <1>1, NoneAssumption DEF ReportingRemark, Remarks
<1>3. ModeReporting(cfg) = cfg.reporting
  BY <1>2, UnmarkedIsStored DEF ConfigTypeOK
<1>4. cfg.reporting \in {Report(cfg.report_to), Silent, Threshold(cfg.threshold),
                         Decimate(cfg.decimate_n)}
  BY DEF ReportingCoherent
<1>. QED
  BY <1>3, <1>4, ShownConfig DEF ShownReportings

(* The PHY of the run is the one that HE20 and the secondary channel tell, *)
(* but for the emitter that has a secondary channel of its own.            *)
LEMMA ShownPhy ==
  ASSUME ConfigTypeOK
  PROVE  /\ Phy(cfg) = "he20" <=> cfg.he20 /\ cfg.node_mode \in Emitters \cup EspNowPair
         /\ cfg.node_mode # "ht40-emitter" => Phy(cfg) \in {"he20", cfg.ht40_secondary, None}
<1>1. cfg.ht40_secondary # "he20" /\ None # "he20" /\ cfg.he20 \in BOOLEAN
  BY NoneAssumption DEF ConfigTypeOK, Configs, Secondaries
<1>2. CASE cfg.node_mode \in Emitters \cup EspNowPair /\ cfg.he20
  BY <1>2 DEF Phy
<1>3. CASE cfg.node_mode \notin Emitters \cup EspNowPair
  BY <1>1, <1>3 DEF Phy
<1>4. CASE cfg.he20 = FALSE
  BY <1>1, <1>4 DEF Phy
<1>. QED
  BY <1>1, <1>2, <1>3, <1>4

(* What show-config prints is what the run has (README.md:34).             *)
THEOREM ShowConfigTellsTheRun == RunSpec => []ShownIsInForce
<1>1. ConfigTypeOK /\ ReportingCoherent /\ AsConfigured => ShownIsInForce
  <2>. SUFFICES ASSUME ConfigTypeOK, ReportingCoherent, AsConfigured, Running
                PROVE  ShownIsInForce
    BY DEF ShownIsInForce
  <2>. DEFINE built == BuildMode(cfg)
  <2>1. node.mode = built
    BY BuiltNode DEF AsConfigured
  <2>2. /\ ShowConfig.node.mode = built.mode /\ ShowConfig.node.session = built.session
        /\ ShowConfig.node.reporting = built.reporting
    BY ShownConfig, BuiltMode DEF NodeAttributes
  <2>3. /\ ShowConfig.channel = built.channel /\ built.network \in {ShowConfig.network, None}
        /\ built.peer \in {ShowConfig.peer, None} /\ built.rate \in {ShowConfig.rate, None}
        /\ built.period \in {ShowConfig.period, None}
    BY ShownConfig, BuiltMode
  <2>4. ShowConfig.periodicity = (IF node.periodicity = None THEN 0 ELSE node.periodicity)
    <3>1. cfg.periodicity_hz \in Nat /\ cfg.periodicity_hz # None
      BY ConfigAssumption, NoneAssumption DEF ConfigTypeOK, Configs, U16
    <3>2. node.periodicity = (IF cfg.periodicity_hz > 0 THEN cfg.periodicity_hz ELSE None)
      BY BuiltNode DEF AsConfigured
    <3>. QED
      BY <3>1, <3>2, ShownConfig
  <2>5. /\ ShowConfig.protocol = node.protocol /\ ShowConfig.csi_config = node.acquisition
        /\ ShowConfig.rx = node.rx
    BY ShownConfig, BuiltNode DEF AsConfigured
  <2>6. ShowConfig.tx # node.tx => ShowConfig.periodicity = 0 /\ ~node.tx
    <3>1. node.tx = RunTx(cfg) /\ cfg.tx_enabled \in BOOLEAN
      BY BuiltNode DEF AsConfigured, ConfigTypeOK, Configs
    <3>2. RunTx(cfg) = cfg.tx_enabled \/ (cfg.periodicity_hz = 0 /\ ~RunTx(cfg))
      BY <3>1 DEF RunTx
    <3>. QED
      BY <3>1, <3>2, ShownConfig
  <2>7. /\ ShowConfig.output = lib.output /\ AsStatic(ShowConfig.filter) = lib.peer
        /\ ShowConfig.min_phy = lib.min_sig
    BY ShownConfig DEF AsConfigured
  <2>8. ShowConfig.node.remark = None => built.reporting \in ShownReportings
    BY ShownParameters, BuiltMode
  <2>9. /\ built.phy = "he20" <=> ShowConfig.he20 /\ built.mode \in Emitters \cup EspNowPair
        /\ built.mode # "ht40-emitter" => built.phy \in {"he20", ShowConfig.ht40, None}
    BY ShownPhy, ShownConfig, BuiltMode
  <2>. HIDE DEF built
  <2>. QED
    BY <2>1, <2>2, <2>3, <2>4, <2>5, <2>6, <2>7, <2>8, <2>9 DEF ShownIsInForce
<1>. QED
  BY <1>1, AlwaysTyped, AlwaysConfigured, RunsKeepReportingCoherent, PTL

-----------------------------------------------------------------------------
(* A given address or PHY class goes to both of its places, or to none.    *)
LEMMA FilterLineAgrees ==
  ASSUME ConfigTypeOK, LibraryTypeOK, FiltersAgree, NEW line, FilterCommand(line)
  PROVE  FiltersAgree'
<1>1. /\ cfg'.csi_peer_filter = (IF FilterGiven(line) THEN FilterOf(line) ELSE cfg.csi_peer_filter)
      /\ cfg'.csi_min_sig_mode = (IF MinPhyGiven(line) THEN line.min_phy ELSE cfg.csi_min_sig_mode)
  BY DEF FilterCommand, SetCsiFilter, ConfigTypeOK, Configs
<1>2. /\ lib'.peer = (IF FilterGiven(line) THEN AsStatic(FilterOf(line)) ELSE lib.peer)
      /\ lib'.min_sig = (IF MinPhyGiven(line) THEN line.min_phy ELSE lib.min_sig)
  BY DEF FilterCommand, FilterStatics, LibraryTypeOK
<1>. QED
  BY <1>1, <1>2 DEF FiltersAgree, AsStatic

(* Between the two places a filter is kept in, no set-csi-filter line,     *)
(* refused half-way or not, opens a gap (cmds.rs:1010-1056).               *)
THEOREM FilterLinesKeepAgreement == RunSpec => FilterCommandsAgree
<1>1. ConfigTypeOK /\ LibraryTypeOK
      => [\A line \in FilterLines : FilterCommand(line) /\ FiltersAgree => FiltersAgree']_runVars
  BY FilterLineAgrees
<1>. QED
  BY <1>1, AlwaysTyped, PTL DEF FilterCommandsAgree
=============================================================================
