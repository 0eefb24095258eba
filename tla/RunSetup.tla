------------------------------ MODULE RunSetup ------------------------------
(***************************************************************************)
(* From a configuration to a run: what csi_collection (main.rs:870-983)    *)
(* does between a START_SIGNAL and the run, and what the commands that     *)
(* reach past the configuration do to esp-csi-rs.  The library keeps its   *)
(* gates and filters in process-wide statics that outlive a run and a      *)
(* `reset-config`, so each run has to put back every one of them.          *)
(*                                                                         *)
(* There is no await between the snapshot and the run, so one step sets a  *)
(* run up.  That no command interleaves is CollectionLifecycle's business. *)
(***************************************************************************)
EXTENDS NodeConfig

CONSTANTS
  ZeroMac,      \* 00:00:00:00:00:00, "no filter" to the library
  LogModes, BootLogMode,
  Sessions, Epochs,           \* session ids and wall-clock anchors that parse
  LogModeLines, SessionLines

ASSUME SetupAssumption ==
  /\ ZeroMac \in Macs
  /\ BootLogMode \in LogModes /\ LogModeLines \subseteq LogModes

VARIABLES
  lib,    \* the statics of esp-csi-rs (external)
  power,  \* the Wi-Fi controller's power saving: "boot" or "off" (external)
  node    \* the CsiNode that runs, or None

libraryVars == <<lib, power, node>>
runVars == <<cfg, lib, power, node>>

Running == node # None

(* The statics at boot.                                                    *)
BootLibrary ==
  [output |-> TRUE, peer |-> ZeroMac, min_sig |-> 0, delivery |-> "off",
   logging |-> TRUE, callback |-> None, log_mode |-> BootLogMode, session |-> None]

RunInit == Init /\ lib = BootLibrary /\ power = "boot" /\ node = None

-----------------------------------------------------------------------------
(* Commands at the prompt.                                                 *)
AsStatic_Raw(mac) == mac  \* mutant: a cleared filter has no value to write
AsStatic(mac) == IF mac = None THEN ZeroMac ELSE mac

PlainCommand == ~Running /\ ConfigCommand /\ UNCHANGED libraryVars

(* set-csi-filter writes each setting to the configuration and the library.*)
FilterStatics_AllOrNothing(statics, line) ==  \* mutant: the library is told last, if all went well
  IF FilterGiven(line) /\ MinPhyGiven(line)
  THEN [statics EXCEPT !.peer = AsStatic(FilterOf(line)), !.min_sig = line.min_phy]
  ELSE statics
FilterStatics(statics, line) ==
  [statics EXCEPT !.peer    = IF FilterGiven(line) THEN AsStatic(FilterOf(line)) ELSE @,
                  !.min_sig = IF MinPhyGiven(line) THEN line.min_phy ELSE @]

FilterCommand(line) ==
  /\ ~Running
  /\ SetCsiFilter(line)
  /\ lib' = FilterStatics(lib, line)
  /\ UNCHANGED <<power, node>>

(* set-csi-delivery: the mode and the log gate go straight to the library. *)
DeliveryCommand(line) ==
  /\ ~Running
  /\ SetCsiDelivery(line)
  /\ lib' = [lib EXCEPT !.delivery = Given(line.mode, DeliveryModes, @),
                        !.logging  = Given(line.logging, BOOLEAN, @)]
  /\ UNCHANGED <<power, node>>

(* set-log-mode touches nothing but the library.                           *)
LogModeCommand(mode) ==
  /\ ~Running
  /\ lib' = [lib EXCEPT !.log_mode = mode]
  /\ UNCHANGED <<cfg, power, node>>

(* set-session: no id, or an id or an epoch that does not parse, sets      *)
(* nothing; an id alone drops the wall-clock anchor of an earlier one.     *)
NamedSession(line) ==
  IF line.id \in Sessions /\ line.epoch \in Epochs \cup {Absent}
  THEN [id |-> line.id, epoch |-> IF line.epoch = Absent THEN None ELSE line.epoch]
  ELSE lib.session
SessionCommand(line) ==
  /\ ~Running
  /\ lib' = [lib EXCEPT !.session = NamedSession(line)]
  /\ UNCHANGED <<cfg, power, node>>

(* An overlong name panics, and the reboot starts from the defaults.       *)
PanicCommand ==
  /\ ~Running
  /\ \E line \in WifiLines : SetWifiPanics(line)
  /\ lib' = BootLibrary /\ power' = "boot" /\ node' = None

-----------------------------------------------------------------------------
(* No pacing means no generated traffic on the two Wi-Fi infra modes.      *)
RunTx_AsStored(c) == c.tx_enabled  \* mutant: esp-csi-rs floods at its default rate
RunTx(c) ==
  c.tx_enabled /\ ~(c.periodicity_hz = 0 /\ c.node_mode \in {"wifi-ap", "station"})

BuildNode(c) ==
  [mode        |-> BuildMode(c),
   periodicity |-> IF c.periodicity_hz > 0 THEN c.periodicity_hz ELSE None,
   acquisition |-> c.csi_config,
   tx          |-> RunTx(c),
   rx          |-> c.rx_enabled,
   unsolicited |-> c.flood_unsolicited,
   protocol    |-> c.protocol]

(* The gates, filters and delivery of a run, as csi_collection sets them.  *)
Gated_LatchedFilter(statics, c) ==  \* mutant: the filters are only set by set-csi-filter
  [statics EXCEPT !.output = c.csi_output_enabled]
Gated(statics, c) ==
  [statics EXCEPT !.output  = c.csi_output_enabled,
                  !.peer    = AsStatic(c.csi_peer_filter),
                  !.min_sig = c.csi_min_sig_mode]
Delivered_RawLogs(statics, c) ==  \* mutant: raw leaves the log gate alone
  [statics EXCEPT !.delivery = "off",
                  !.callback = IF c.delivery_raw THEN "raw" ELSE None,
                  !.logging  = IF c.delivery_raw THEN @ ELSE c.csi_output_enabled]
Delivered(statics, c) ==
  [statics EXCEPT !.delivery = "off",
                  !.callback = IF c.delivery_raw THEN "raw" ELSE None,
                  !.logging  = c.csi_output_enabled /\ ~c.delivery_raw]

(* Four modes switch Wi-Fi power saving off; a refusal by the driver is    *)
(* ignored, and nothing switches it on again.                              *)
Throughput == {"wifi-ap", "station", "esp-now-simplex-peer", "esp-now-simplex-source"}
PowerSaving ==
  IF cfg.node_mode \in Throughput THEN power' \in {"off", power} ELSE UNCHANGED power

StartRun ==
  /\ ~Running
  /\ PowerSaving
  /\ node' = BuildNode(cfg)
  /\ lib' = Delivered(Gated(lib, cfg), cfg)
  /\ UNCHANGED cfg

(* The library's reset_globals ends a run: delivery off, no callback, and  *)
(* gates that nothing here may rely on (external).                         *)
FinishRun ==
  /\ Running
  /\ node' = None
  /\ \E output, logging \in BOOLEAN :
       lib' = [lib EXCEPT !.output = output, !.logging = logging,
                          !.delivery = "off", !.callback = None]
  /\ UNCHANGED <<cfg, power>>

RunNext ==
  \/ PlainCommand
  \/ PanicCommand
  \/ \E line \in FilterLines : FilterCommand(line)
  \/ \E line \in DeliveryLines : DeliveryCommand(line)
  \/ \E mode \in LogModeLines : LogModeCommand(mode)
  \/ \E line \in SessionLines : SessionCommand(line)
  \/ StartRun
  \/ FinishRun

RunSpec == RunInit /\ [][RunNext]_runVars

-----------------------------------------------------------------------------
(* show-config: the node's attributes from the mode build_mode gives, the  *)
(* session from the library, everything else from the configuration.       *)
ShowConfig ==
  [node       |-> NodeAttributes(cfg),
   periodicity |-> cfg.periodicity_hz,
   channel    |-> cfg.channel,
   network    |-> cfg.network,
   peer       |-> cfg.peer_mac,
   ht40       |-> cfg.ht40_secondary,
   he20       |-> cfg.he20,
   report_to  |-> cfg.report_to,
   threshold  |-> cfg.threshold,
   decimate   |-> cfg.decimate_n,
   session    |-> lib.session,
   output     |-> cfg.csi_output_enabled,
   filter     |-> cfg.csi_peer_filter,
   min_phy    |-> cfg.csi_min_sig_mode,
   rate       |-> cfg.phy_rate,
   protocol   |-> cfg.protocol,
   tx         |-> cfg.tx_enabled,
   rx         |-> cfg.rx_enabled,
   period     |-> cfg.inject_period_us,
   csi_config |-> cfg.csi_config]

-----------------------------------------------------------------------------
(***************************************************************************)
(* Properties.                                                             *)
(***************************************************************************)
SessionNames == [id : Sessions, epoch : Epochs \cup {None}] \cup {None}

(* The types of the statics; only the raw callback is ever registered, and *)
(* a session has an id whenever it has a wall-clock anchor.                *)
LibraryTypeOK ==
  /\ lib \in [output : BOOLEAN, peer : Macs, min_sig : {0, 1},
              delivery : DeliveryModes, logging : BOOLEAN,
              callback : {"raw", None}, log_mode : LogModes,
              session : SessionNames]
  /\ power \in {"boot", "off"}

(* main.rs:897-908, 949-956: a run finds the library as a run of the same  *)
(* configuration right after boot would, whatever runs, filters, delivery  *)
(* modes, log gates and resets came before: nothing stays latched in the   *)
(* radio callback.  Only the log mode, the session and the power saving    *)
(* are meant to last.                                                      *)
RunsLikeAfterBoot ==
  Running =>
    LET fresh == Delivered(Gated(BootLibrary, cfg), cfg)
    IN  /\ lib.output = fresh.output /\ lib.logging = fresh.logging
        /\ lib.peer = fresh.peer /\ lib.min_sig = fresh.min_sig
        /\ lib.delivery = fresh.delivery /\ lib.callback = fresh.callback

(* A raw run and a run with output disabled log nothing, even when the log *)
(* gate was opened by hand or left open before it (config.rs:58, 169-174). *)
QuietRunsLogNothing ==
  Running => /\ (cfg.delivery_raw \/ ~cfg.csi_output_enabled) => ~lib.logging
             /\ lib.callback = (IF cfg.delivery_raw THEN "raw" ELSE None)

(* The filter the prompt shows is the filter in force after any command    *)
(* that touches it, a line that is refused half-way included.              *)
FiltersAgree ==
  lib.peer = AsStatic(cfg.csi_peer_filter) /\ lib.min_sig = cfg.csi_min_sig_mode
FilterCommandsAgree ==
  [][\A line \in FilterLines : FilterCommand(line) /\ FiltersAgree => FiltersAgree']_runVars

(* README.md:34: what show-config prints is what the next run has.  What a *)
(* mode does not use it need not have: an unpaced access point or station  *)
(* sends nothing whatever is printed of its TX, the HT40 emitter fixes its *)
(* secondary channel, and a reporting with a remark need not have the      *)
(* parameters on the lines below it.                                       *)
ShownReportings ==
  {Report(ShowConfig.report_to), Silent,
   Threshold(ShowConfig.threshold), Decimate(ShowConfig.decimate)}
ShownIsInForce ==
  Running =>
    LET mode == node.mode
    IN  /\ ShowConfig.node.mode = mode.mode
        /\ ShowConfig.node.session = mode.session
        /\ ShowConfig.node.reporting = mode.reporting
        /\ ShowConfig.channel = mode.channel
        /\ ShowConfig.node.remark = None => mode.reporting \in ShownReportings
        /\ mode.phy = "he20" <=> ShowConfig.he20 /\ mode.mode \in Emitters \cup EspNowPair
        /\ mode.mode # "ht40-emitter" => mode.phy \in {"he20", ShowConfig.ht40, None}
        /\ mode.network \in {ShowConfig.network, None}
        /\ mode.peer \in {ShowConfig.peer, None}
        /\ mode.rate \in {ShowConfig.rate, None}
        /\ mode.period \in {ShowConfig.period, None}
        /\ ShowConfig.periodicity = (IF node.periodicity = None THEN 0 ELSE node.periodicity)
        /\ ShowConfig.protocol = node.protocol
        /\ ShowConfig.csi_config = node.acquisition
        /\ ShowConfig.rx = node.rx
        /\ ShowConfig.tx # node.tx => ShowConfig.periodicity = 0 /\ ~node.tx
        /\ ShowConfig.output = lib.output
        /\ AsStatic(ShowConfig.filter) = lib.peer
        /\ ShowConfig.min_phy = lib.min_sig

(* Three places read the periodicity of a run: the setup, the TX override  *)
(* and the station's role.  Unpaced, an access point and a station generate*)
(* nothing and the station has no role; paced, TX is the user's again.     *)
UnpacedIsSilent ==
  Running /\ node.mode.mode \in {"station", "wifi-ap"} =>
    /\ node.periodicity = None => ~node.tx
    /\ node.periodicity # None => node.tx = cfg.tx_enabled
    /\ node.mode.mode = "station" => (node.mode.session = None <=> node.periodicity = None)
=============================================================================
