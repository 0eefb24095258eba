------------------------ MODULE CollectionLifecycle ------------------------
(***************************************************************************)
(* The life of one firmware image: the main task (CLI prompt, and the lock *)
(* loop it sits in while a collection runs), the csi_collection task that  *)
(* owns the Wi-Fi controller, the four embassy Signals and two flags that  *)
(* connect them, and the serial console the host types into.               *)
(*                                                                         *)
(* Both tasks share one cooperative executor, so a handler runs from one   *)
(* await to the next without interruption: an action is such a stretch.    *)
(* The host is asynchronous and may type at any moment, ahead of the       *)
(* prompt too.  A console token is what the preprocessor and `menu` make   *)
(* of some bytes: a submitted command line, an Enter, a `q`, or a key that *)
(* is neither.  LineEditor models the bytes.                               *)
(***************************************************************************)
EXTENDS Naturals, Sequences

CONSTANTS
  Build,          \* the cargo feature that picks the console: Builds below
  Transports,     \* what is_jtag() may answer on this bench
  HostTokens,     \* the tokens the host types, a subset of Tokens
  Configs,        \* the values of USER_CONFIG the commands can reach
  DefaultConfig,  \* UserConfig::new()
  RxCapacity,     \* tokens the receive FIFO holds
  HostBudget      \* tokens the host types in one behaviour

Builds == {"auto", "jtag-serial", "uart"}

Tokens == {"start --duration", "start", "restart", "set", "reset-config",
           "rejected", "enter", "q", "key"}

Durations == {"timed", "forever"}
NoStart   == "none"

(***************************************************************************)
(* "auto" stands for auto on C3/C5/C6/S3, the builds that compile the raw  *)
(* FIFO peek; "uart" also for every esp32 build, whose serial is a UART.   *)
(***************************************************************************)
SelectedTransports == [b \in Builds |-> CASE b = "auto"        -> {"jtag", "uart"}
                                          [] b = "jtag-serial" -> {"jtag"}
                                          [] b = "uart"        -> {"uart"}]

ASSUME ConstantsAssumption ==
  /\ Build \in Builds
  /\ Transports \in (SUBSET SelectedTransports[Build]) \ {{}}
  /\ HostTokens \subseteq Tokens
  /\ DefaultConfig \in Configs
  /\ RxCapacity \in Nat \ {0}
  /\ HostBudget \in Nat

VARIABLES
  (* the flags and signals of config.rs *)
  isCollecting,    \* IS_COLLECTING: the main loop locks the CLI
  startSignal,     \* START_SIGNAL: NoStart, or the duration it carries
  doneSignal,      \* DONE_SIGNAL
  stopRequest,     \* STOP_REQUEST
  restartSignal,   \* RESTART_SIGNAL
  restartPending,  \* RESTART_PENDING
  cfg,             \* USER_CONFIG
  (* the csi_collection task *)
  pc,              \* "waiting", "running", "teardown" or "radio off"
  duration,        \* the duration of the run, NoStart between runs
  runCfg,          \* the snapshot the run was built from
  watcher,         \* stop_watcher: "armed", "parked", or "gone" between runs
  libStop,         \* esp-csi-rs' own stop latch (external)
  controllerLive,  \* the WifiController has not been dropped
  (* the main task *)
  lineDirty,       \* the current input line already holds characters
  halted,          \* a panic reached custom_halt
  (* the console *)
  transport,       \* which serial driver the boot selected
  rx,              \* bytes received and not read, as tokens
  overrun,         \* a UART receive error waits for the next read
  sent,            \* tokens typed so far
  (* history *)
  stopAsked        \* a stop key was read since the last accepted `start`

signals == <<startSignal, doneSignal, stopRequest, restartSignal, restartPending>>
run     == <<pc, duration, runCfg, watcher, libStop, controllerLive>>
console == <<rx, overrun>>
system  == <<transport, halted, sent>>
vars    == <<isCollecting, signals, cfg, run, lineDirty, system, console, stopAsked>>

Active == pc \in {"running", "teardown"}

(***************************************************************************)
(* True exactly when the lock loop is the raw-peek one (main.rs:663-681).  *)
(***************************************************************************)
PeekBuild == Build = "auto"

-----------------------------------------------------------------------------
(***************************************************************************)
(* Boot.  Statics and stack are re-created by every reset, so the same     *)
(* values hold initially and after one; only the host's budget goes on.    *)
(***************************************************************************)
Init ==
  /\ isCollecting = FALSE
  /\ startSignal = NoStart /\ doneSignal = FALSE /\ stopRequest = FALSE
  /\ restartSignal = FALSE /\ restartPending = FALSE
  /\ cfg = DefaultConfig
  /\ pc = "waiting" /\ duration = NoStart /\ runCfg = DefaultConfig
  /\ watcher = "gone" /\ libStop = FALSE /\ controllerLive = TRUE
  /\ lineDirty = FALSE /\ halted = FALSE
  /\ transport \in Transports
  /\ rx = <<>> /\ overrun = FALSE /\ sent = 0
  /\ stopAsked = FALSE

Reboot ==
  /\ isCollecting' = FALSE
  /\ startSignal' = NoStart /\ doneSignal' = FALSE /\ stopRequest' = FALSE
  /\ restartSignal' = FALSE /\ restartPending' = FALSE
  /\ cfg' = DefaultConfig
  /\ pc' = "waiting" /\ duration' = NoStart /\ runCfg' = DefaultConfig
  /\ watcher' = "gone" /\ libStop' = FALSE /\ controllerLive' = TRUE
  /\ lineDirty' = FALSE /\ halted' = FALSE
  /\ transport' \in Transports
  /\ rx' = <<>> /\ overrun' = FALSE
  /\ stopAsked' = FALSE
  /\ UNCHANGED sent

-----------------------------------------------------------------------------
(***************************************************************************)
(* The host.  A USB host is flow-controlled by the device; a UART drops    *)
(* the byte and latches an error instead.                                  *)
(***************************************************************************)
Receive_Unbounded(t) ==  \* mutant: the FIFO never fills
  rx' = Append(rx, t) /\ UNCHANGED overrun

Receive(t) ==
  \/ /\ Len(rx) < RxCapacity
     /\ rx' = Append(rx, t)
     /\ UNCHANGED overrun
  \/ /\ Len(rx) = RxCapacity
     /\ transport = "uart"
     /\ overrun' = TRUE
     /\ UNCHANGED rx

HostSend(t) ==
  /\ sent < HostBudget
  /\ sent' = sent + 1
  /\ Receive(t)
  /\ UNCHANGED <<isCollecting, signals, cfg, run, lineDirty, transport, halted,
                 stopAsked>>

-----------------------------------------------------------------------------
(***************************************************************************)
(* The main task at the prompt.  Read returns the next token; a pending    *)
(* receive error is returned first.                                        *)
(***************************************************************************)
AtPrompt(t) ==
  /\ ~halted /\ ~isCollecting
  /\ ~overrun
  /\ rx # <<>> /\ t = Head(rx)
  /\ rx' = Tail(rx)
  /\ UNCHANGED <<overrun, run, system>>

(* A command line is executed only when it was typed on an empty line.     *)
Command(t) == AtPrompt(t) /\ ~lineDirty /\ UNCHANGED lineDirty

(* IS_COLLECTING.store(true), before START_SIGNAL is raised.               *)
Lock_Skipped == UNCHANGED isCollecting  \* mutant: the CLI stays open
Lock == isCollecting' = TRUE

(* start_csi_collect with a parsable duration, or none.                    *)
CliStart ==
  \E d \in Durations :
    /\ Command(IF d = "timed" THEN "start --duration" ELSE "start")
    /\ Lock
    /\ startSignal' = d
    /\ stopAsked' = FALSE
    /\ UNCHANGED <<doneSignal, stopRequest, restartSignal, restartPending, cfg>>

CliRestart ==
  /\ Command("restart")
  /\ restartPending' = TRUE
  /\ restartSignal' = TRUE
  /\ stopRequest' = (stopRequest \/ isCollecting)
  /\ UNCHANGED <<isCollecting, startSignal, doneSignal, cfg, stopAsked>>

(* Any set-* command, and reset-config.  NodeConfig models what each does, *)
(* and RunSetup the panic of a set-wifi with an overlong name, which is    *)
(* left out here: at the prompt it would be one more CliReadPanics.        *)
CliConfigure ==
  /\ \/ Command("set") /\ cfg' \in Configs
     \/ Command("reset-config") /\ cfg' = DefaultConfig
  /\ UNCHANGED <<isCollecting, signals, stopAsked>>

(* Commands that only print, and those that reject their arguments.        *)
CliNoEffect ==
  /\ Command("rejected")
  /\ UNCHANGED <<isCollecting, signals, cfg, stopAsked>>

(* A key joins the line; Enter, or a command whose text follows earlier    *)
(* keys, is submitted, found unknown, and leaves an empty line.            *)
CliEdit ==
  /\ \/ \E t \in {"q", "key"} : AtPrompt(t) /\ lineDirty' = TRUE
     \/ AtPrompt("enter") /\ lineDirty' = FALSE
     \/ \E t \in Tokens \ {"q", "key", "enter"} :
          AtPrompt(t) /\ lineDirty /\ lineDirty' = FALSE
  /\ UNCHANGED <<isCollecting, signals, cfg, stopAsked>>

(* The prompt's read is unwrapped: a UART error panics into custom_halt.   *)
CliReadPanics ==
  /\ ~halted /\ ~isCollecting
  /\ overrun
  /\ halted' = TRUE
  /\ UNCHANGED <<isCollecting, signals, cfg, run, lineDirty, transport, sent,
                 console, stopAsked>>

-----------------------------------------------------------------------------
(***************************************************************************)
(* The main task in the lock loop.                                         *)
(***************************************************************************)
(* The whole burst is discarded, whatever else it held: any prefix of the  *)
(* FIFO, as bytes still on the wire and the 32/64-byte bounds allow.       *)
DrainBurst_NoSignal ==  \* mutant: the key is found and not signalled
  /\ \E n \in 1..Len(rx) : rx' = SubSeq(rx, n + 1, Len(rx))
  /\ UNCHANGED <<stopRequest, stopAsked>>

DrainBurst ==
  \E n \in 1..Len(rx) :
    LET burst == SubSeq(rx, 1, n)
        found == \E i \in 1..n : burst[i] = "q"
    IN /\ rx' = SubSeq(rx, n + 1, Len(rx))
       /\ stopRequest' = (stopRequest \/ found)
       /\ stopAsked' = (stopAsked \/ found)

(* Peek builds: 5 ms tick, jtag_peek_for_stop().  select polls DONE first. *)
(* The peek reads the USB FIFO and never sees a UART's bytes.              *)
LockedPeek ==
  /\ ~halted /\ isCollecting /\ PeekBuild
  /\ ~doneSignal
  /\ transport = "jtag"
  /\ DrainBurst
  /\ UNCHANGED <<isCollecting, startSignal, doneSignal, restartSignal, restartPending,
                 cfg, run, lineDirty, system, overrun>>

(* Read builds: select3 polls the console read before DONE_SIGNAL.         *)
LockedRead ==
  /\ ~halted /\ isCollecting /\ ~PeekBuild
  /\ ~overrun
  /\ DrainBurst
  /\ UNCHANGED <<isCollecting, startSignal, doneSignal, restartSignal, restartPending,
                 cfg, run, lineDirty, system, overrun>>

(* unwrap_or(0): an error here costs at most the FIFO's contents.          *)
LockedReadError ==
  /\ ~halted /\ isCollecting /\ ~PeekBuild
  /\ overrun
  /\ overrun' = FALSE
  /\ rx' \in {rx, <<>>}
  /\ UNCHANGED <<isCollecting, signals, cfg, run, lineDirty, system, stopAsked>>

LockedDone ==
  /\ ~halted /\ isCollecting
  /\ doneSignal
  /\ PeekBuild \/ (rx = <<>> /\ ~overrun)
  /\ doneSignal' = FALSE
  /\ isCollecting' = FALSE
  /\ UNCHANGED <<startSignal, stopRequest, restartSignal, restartPending, cfg, run,
                 lineDirty, system, console, stopAsked>>

-----------------------------------------------------------------------------
(***************************************************************************)
(* The csi_collection task.                                                *)
(***************************************************************************)
(* USER_CONFIG is cloned into the values the node is built from.           *)
Snapshot_Stale == UNCHANGED runCfg  \* mutant: the node keeps its last settings
Snapshot == runCfg' = cfg

(* From START_SIGNAL to the first await of run/run_duration.               *)
TakeStart ==
  /\ ~halted /\ pc = "waiting"
  /\ startSignal # NoStart
  /\ startSignal' = NoStart
  /\ pc' = "running" /\ duration' = startSignal /\ watcher' = "armed"
  /\ Snapshot
  /\ UNCHANGED <<isCollecting, doneSignal, stopRequest, restartSignal, restartPending,
                 cfg, libStop, controllerLive, lineDirty, system, console, stopAsked>>

(* drop_in_place on the controller, then the 200 ms settle timer.          *)
RadioOff_Live ==  \* mutant: the chip resets with the radio up
  pc' = "radio off" /\ UNCHANGED controllerLive
RadioOff == pc' = "radio off" /\ controllerLive' = FALSE

(* select(START, RESTART): a pending start wins.                           *)
TakeRestart_Never == FALSE /\ UNCHANGED vars  \* mutant: only START is awaited
TakeRestart ==
  /\ ~halted /\ pc = "waiting"
  /\ startSignal = NoStart /\ restartSignal
  /\ restartSignal' = FALSE
  /\ RadioOff
  /\ UNCHANGED <<isCollecting, startSignal, doneSignal, stopRequest, restartPending, cfg,
                 duration, runCfg, watcher, libStop, lineDirty, system, console, stopAsked>>

(* stop_watcher: take STOP_REQUEST, send_stop, park.                       *)
WatcherStops ==
  /\ ~halted /\ Active
  /\ watcher = "armed" /\ stopRequest
  /\ stopRequest' = FALSE
  /\ libStop' = TRUE
  /\ watcher' = "parked"
  /\ UNCHANGED <<isCollecting, startSignal, doneSignal, restartSignal, restartPending, cfg,
                 pc, duration, runCfg, controllerLive, lineDirty, system, console, stopAsked>>

(* esp-csi-rs (external): run_duration ends at its deadline, run and       *)
(* run_duration at send_stop.                                              *)
RunWindsDown ==
  /\ ~halted /\ pc = "running"
  /\ duration = "timed" \/ libStop
  /\ pc' = "teardown"
  /\ UNCHANGED <<isCollecting, signals, cfg, duration, runCfg, watcher, libStop,
                 controllerLive, lineDirty, system, console, stopAsked>>

(* STOP_REQUEST.reset() after the run.                                     *)
DropPendingStop_Skipped == UNCHANGED stopRequest  \* mutant: no reset
DropPendingStop == stopRequest' = FALSE

(* The main task is told.                                                  *)
SignalDone_Never == UNCHANGED doneSignal  \* mutant: the CLI is never unlocked
SignalDone == doneSignal' = TRUE

(* A restart requested before the run is honoured once it has ended.       *)
HonourRestart ==
  IF restartPending THEN RadioOff ELSE pc' = "waiting" /\ UNCHANGED controllerLive

(* The run's future resolves and the select drops the watcher.  That the   *)
(* library clears its own stop latch with its other globals, a stop taken  *)
(* during the teardown included, is assumed (external).                    *)
RunEnds ==
  /\ ~halted /\ pc = "teardown"
  /\ libStop' = FALSE /\ watcher' = "gone" /\ duration' = NoStart
  /\ DropPendingStop
  /\ SignalDone
  /\ HonourRestart
  /\ UNCHANGED <<isCollecting, startSignal, restartSignal, restartPending, cfg,
                 runCfg, lineDirty, system, console, stopAsked>>

(* The RTC watchdog fires: after the settle timer, or after a halt.        *)
WatchdogReset ==
  /\ pc = "radio off" \/ halted
  /\ Reboot

-----------------------------------------------------------------------------
MainTask ==
  \/ CliStart \/ CliRestart \/ CliConfigure \/ CliNoEffect \/ CliEdit \/ CliReadPanics
  \/ LockedPeek \/ LockedRead \/ LockedReadError \/ LockedDone

CollectionTask == TakeStart \/ TakeRestart \/ WatcherStops \/ RunWindsDown \/ RunEnds

Next ==
  \/ \E t \in HostTokens : HostSend(t)
  \/ MainTask
  \/ CollectionTask
  \/ WatchdogReset

Spec == Init /\ [][Next]_vars

(***************************************************************************)
(* The executor polls every woken task and every timer fires; nothing      *)
(* obliges the host to type.  The watcher is polled with its run, which    *)
(* may end before it, so it is fair on its own.                            *)
(***************************************************************************)
Fairness ==
  /\ WF_vars(MainTask)
  /\ WF_vars(TakeStart \/ TakeRestart)
  /\ WF_vars(WatcherStops)
  /\ WF_vars(RunWindsDown \/ RunEnds)
  /\ WF_vars(WatchdogReset)

FairSpec == Spec /\ Fairness

-----------------------------------------------------------------------------
(***************************************************************************)
(* Properties.                                                             *)
(***************************************************************************)
(* The flags and signals.                                                  *)
FlagTypes ==
  /\ isCollecting \in BOOLEAN
  /\ startSignal \in Durations \cup {NoStart}
  /\ doneSignal \in BOOLEAN /\ stopRequest \in BOOLEAN
  /\ restartSignal \in BOOLEAN /\ restartPending \in BOOLEAN
  /\ lineDirty \in BOOLEAN /\ halted \in BOOLEAN
  /\ stopAsked \in BOOLEAN

(* The collection task's own state.                                        *)
RunTypes ==
  /\ pc \in {"waiting", "running", "teardown", "radio off"}
  /\ duration \in Durations \cup {NoStart}
  /\ cfg \in Configs /\ runCfg \in Configs
  /\ watcher \in {"armed", "parked", "gone"}
  /\ libStop \in BOOLEAN /\ controllerLive \in BOOLEAN

(* The console holds tokens, and never more than its FIFO.                 *)
ConsoleTypes ==
  /\ transport \in Transports
  /\ rx \in Seq(Tokens) /\ Len(rx) <= RxCapacity
  /\ overrun \in BOOLEAN
  /\ sent \in 0..HostBudget

(* The type invariant.                                                     *)
TypeOK == FlagTypes /\ RunTypes /\ ConsoleTypes

(* The lock and the hand-over between the two tasks agree: while the CLI   *)
(* is locked exactly one of a pending START, a run in progress and a       *)
(* pending DONE exists, and none while it is not.  So a session is neither *)
(* lost (locked for ever) nor run twice, nor run with the CLI open.        *)
Batons == {"start", "run", "done"}
Holds(b) == CASE b = "start" -> startSignal # NoStart
              [] b = "run"   -> Active
              [] b = "done"  -> doneSignal
OneBaton ==
  IF isCollecting THEN \E b \in Batons : \A c \in Batons : Holds(c) <=> c = b
                  ELSE \A b \in Batons : ~Holds(b)

(* The node runs with the settings `show-config` would print: no command   *)
(* changes USER_CONFIG between `start` and the end of its run.             *)
SettingsFrozen == Active => runCfg = cfg

(* main.rs:970: no stop request that arrived after the collection wound    *)
(* down survives it; none is pending at the prompt, where the next run     *)
(* would inherit it.  Read builds break this: see run ReadStaleStop.       *)
NoStaleStop == ~isCollecting => ~stopRequest

(* A run is told to stop only by a stop key read in its own session.       *)
StopWasAsked == libStop => stopAsked

(* An accepted `start` is taken by the task or falls to a `restart` that   *)
(* was accepted before it: one typed in the settle window of               *)
(* radio_off_and_restart locks the CLI and never runs.  Nothing else       *)
(* clears START_SIGNAL, the panic of an overrun UART included.             *)
StartLostOnlyToRestart ==
  [][startSignal # NoStart /\ startSignal' = NoStart => pc' = "running" \/ restartPending]_vars

(* config.rs:40: a `restart` resets the chip with the radio deinitialised. *)
(* Only a panic resets it live.                                            *)
RadioOffBeforeReset ==
  [][restartPending /\ ~restartPending' => ~controllerLive \/ halted]_vars

(* A timed session gives the prompt back.                                  *)
TimedSession == "timed" \in {startSignal, duration}
TimedSessionUnlocks == TimedSession ~> ~isCollecting

(* README: `q` stops a running collection, including an indefinite one.    *)
StopKeyTyped == isCollecting /\ \E i \in 1..Len(rx) : rx[i] = "q"
StopKeyUnlocks == StopKeyTyped ~> ~isCollecting

(* It does so for every key that the lock loop can see: a peek build looks *)
(* at USB only (see run AutoOnUartStop), and a UART that overran may have  *)
(* lost the key.                                                           *)
KeySeen == PeekBuild => transport = "jtag"
SeenStopKeyUnlocks == StopKeyTyped /\ KeySeen ~> ~isCollecting \/ overrun

(* cmds.rs:1790: an accepted `restart` stops any active run and resets.    *)
RestartReboots == restartPending ~> ~restartPending

(* Only a `start` without a deadline, typed behind it, can hold it up; see *)
(* run RestartThenStart.                                                   *)
RestartOutlastsRuns ==
  restartPending ~> ~restartPending \/ "forever" \in {startSignal, duration}

(***************************************************************************)
(* What the run's own variables say about where its task stands.           *)
(***************************************************************************)
RunState ==
  /\ duration = NoStart <=> ~Active
  /\ watcher = "gone" <=> ~Active
  /\ libStop => Active
  /\ controllerLive <=> pc # "radio off"

(***************************************************************************)
(* Peek builds look at DONE before the keyboard, so a stop key is only     *)
(* ever latched for a session that has not ended.                          *)
(***************************************************************************)
StopState ==
  PeekBuild => /\ stopRequest => isCollecting /\ ~doneSignal /\ stopAsked
               /\ libStop => stopAsked
               /\ pc = "teardown" => duration = "timed" \/ stopAsked

(* RESTART_PENDING is raised with RESTART_SIGNAL and outlives it, so the   *)
(* radio is only ever taken down for a `restart`.                          *)
RestartState ==
  /\ restartSignal => restartPending
  /\ pc = "radio off" => restartPending

(* Only the prompt's read is unwrapped.                                    *)
PanicAtPrompt == halted => ~isCollecting

(* The inductive invariant: what the properties above need of each other.  *)
IInv ==
  /\ TypeOK /\ OneBaton /\ SettingsFrozen
  /\ RunState /\ StopState /\ RestartState /\ PanicAtPrompt
=============================================================================
