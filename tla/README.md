# Verification of esp-csi-cli-rs

`esp-csi-cli-rs` is an embedded Rust firmware (ESP32, C3, C5, C6, S3) that turns
a board into a Wi-Fi channel-state-information (CSI) node with an interactive
serial console. This directory holds TLA+ models of it, the TLC configurations
that check them on small instances, and proofs that TLAPS checks for every value
of the constants. All line numbers refer to the repository at the modelled
commit (`src/main.rs` below is `src/src/main.rs` in `PROJECT.json`).

To check a run: `tlc -config <run>.cfg <module>.tla`, with the module
`PROJECT.json` names. To check a proof: `tlapm <module>_proof.tla`.

## 1. The system

One firmware image, one core, one cooperative `embassy` executor with two tasks.

| Component | State | Operations | Where |
|---|---|---|---|
| **main task** | the `menu` runner, the line editor, the lock | prompt, byte preprocessor, lock loop | `main.rs` 476-842 |
| **`csi_collection` task** | the Wi-Fi controller, `USER_CONFIG` snapshot | wait for START or RESTART, set a run up, run it beside `stop_watcher`, tear down | `main.rs` 844-1000 |
| **shared statics** | `IS_COLLECTING`, `RESTART_PENDING`, `USER_CONFIG`, four `Signal`s: `START_SIGNAL`, `DONE_SIGNAL`, `STOP_REQUEST`, `RESTART_SIGNAL` | store, signal, wait, reset | `config.rs` 1-52 |
| **commands** | write `USER_CONFIG`, the signals and the statics of `esp-csi-rs` | `start`, `restart`, the `set-*` commands, `reset-config`, and those that only print | `cli/cmds.rs` |
| **user configuration** | `UserConfig` | `new`, `build_mode`, `reads_reporting` | `config.rs` 54-300, `main.rs` 318-458 |
| **line editor** | `shadow`, `quote_char`, `forwarded`, `at_capacity` | echo, quotes, backspace, capacity, Enter | `main.rs` 610-840 |
| **serial transports** | the USB-Serial-JTAG or UART driver | async and blocking read and write, detection, raw FIFO peek | `cli/serial.rs`, `main.rs` 200-300 |
| **boot, panic, reset** | `HALTING`, the RTC calibration | init order, `custom_halt`, `rwdt_full_system_reset` | `main.rs` 459-606, 985-1010 |
| **menu tables** | none | items and their flags; the lookups of each handler | `cli/mod.rs` 36-1022, `cli/cmds.rs` |
| **help, printing** | none | formatting | `cli/mod.rs`, `cli/cli.rs`, `cli/cmds.rs` |
| **libraries** | `esp-csi-rs` statics and node, `menu`'s input buffer, `embassy`, `esp-radio` | outside the repository; modelled from how they are called, and marked external | `Cargo.toml` |

How they interact. The host types bytes at any time, ahead of the prompt too. The
main task reads them, the preprocessor edits them and feeds `menu`, and `menu`
calls a command handler *synchronously*. `start` stores `IS_COLLECTING` and
raises `START_SIGNAL`; the main task then sits in its lock loop, where a `q` is
turned into `STOP_REQUEST`. The collection task takes START, sets the run up
from a clone of `USER_CONFIG` and runs it beside `stop_watcher`, which turns
`STOP_REQUEST` into the library's stop latch. When the run ends the task resets
`STOP_REQUEST` and raises `DONE_SIGNAL`, and the main task unlocks. `restart`
sets `RESTART_PENDING` and raises `RESTART_SIGNAL`; the task that owns the radio
drops the controller, waits 200 ms, and lets the watchdog reset the chip.

What is hard here:

* **Interleaving.** The two tasks and the host interleave at every `await`; the
  lock, its two signals and the run must agree at each of those points.
* **Stale signals.** A `Signal` keeps its value until taken; a stop request, a
  start or a restart may outlive the session it was meant for.
* **Three different lock loops**, selected at compile time, which poll their
  futures in different orders and see different consoles.
* **Priority.** `select` polls its first branch first: which of two ready events
  wins is a design decision in four places.
* **Four pictures of one line**: the terminal, `shadow`, `forwarded` and `menu`'s
  buffer, kept in step by hand, with a capacity.
* **Latched library statics** that outlive a run and `reset-config`.
* **A panic while resetting**, and console bytes lost by a UART.

What each component must satisfy:

* lifecycle: exactly one holder of the session baton; a run uses the settings
  frozen at `start`; a stop ends only its own session; the radio is down before a
  restart resets the chip; a timed run, a stop key and a restart eventually take
  effect;
* console: after a run the prompt starts from an empty line, and only its first
  line can lack bytes the host typed; `menu` and the handlers agree on every flag;
* line editor: the line that runs is the line that is seen; `menu` never
  overflows; the open quote is the one the line shows;
* configuration: values stay in the ranges their parsers promise, whatever the
  order of commands the active reporting agrees with its stored parameters, and
  what `show-config` calls fixed is fixed;
* run setup: a run depends on its configuration and not on the runs and commands
  before it, and `show-config` tells what it will be;
* boot: detection never overlooks a live USB host; every panic ends in a reboot.

`PROJECT.json` lists the hazards with their lines and the properties for each.

## 2. The modules

| Module | Models | Proofs |
|---|---|---|
| `CollectionLifecycle` | both tasks, signals, lock, console, restart, panic | `CollectionLifecycle_proof` |
| `CollectionSession` | what the console promises, abstractly | |
| `LifecycleRefinement` | the mapping from the first to the second | `LifecycleRefinement_proof` |
| `LineEditor` | the preprocessor, with `menu`'s buffer and the terminal's line | `LineEditor_proof` |
| `CommandLine` | what the editor promises, abstractly | |
| `FoldLemmas` | no code: the laws of `FoldLeft`, for any step; `LineEditor_proof` instantiates it for its two walks over a line | itself |
| `Menu` | `ROOT_MENU` of each chip, and the flags each handler looks up | |
| `Console` | extends `LineEditor` and `Menu`: FIFO, prompt, dispatch and lock loop, byte by byte | `Console_proof` |
| `NodeConfig` | `UserConfig`, every command that writes it, `build_mode` | `NodeConfig_proof` |
| `RunSetup` | extends `NodeConfig` with the run setup and the library's statics | `RunSetup_proof` |
| `Boot` | init order, transport choice, panic hook, reset | `Boot_proof` |
| `MCLifecycle`, `MCLineEditor`, `MCConsole`, `MCRunSetup` | instances for TLC | |

An operator whose name has a suffix and whose comment says "mutant" is not used
by the model: it is a plausible wrong version of the definition that follows it,
kept to show that the properties notice the difference.

### CollectionLifecycle

An action is one stretch of a task between two awaits. The tasks share a
cooperative executor, so nothing interrupts such a stretch; the host may type
between any two. Each variable is a static of `config.rs`, a local of a task or
a piece of the console; `stopAsked` is history only.

* `rx` holds *tokens*: what the preprocessor and `menu` make of some bytes. A
  token is a command line, an Enter, a `q`, or another key. `lineDirty` says
  that the input line already holds keys, so a following command line is
  submitted with them in front and found unknown. `Console` has the bytes.
* `Receive` is the FIFO. USB is flow-controlled; a UART drops the byte and
  latches an error, which the next read returns. At the prompt that read is
  unwrapped and panics (`CliReadPanics`), while the lock loop treats it as a
  zero-length read (`LockedReadError`).
* `LockedPeek` is the loop of the `auto` builds (5 ms tick, raw FIFO peek, DONE
  polled first). `LockedRead` is the loop of the other builds: console read
  polled before DONE, so DONE is taken only when no read is ready
  (`LockedDone`). Either one discards the whole burst in which it finds a `q`.
  `DrainBurst` lets a burst be any prefix of the FIFO, as the 32 and 64 byte
  buffers and bytes still on the wire may cut it anywhere.
* `TakeStart` and `TakeRestart` are the `select` of the task, START first.
  `TakeStart` covers the whole setup, which has no await; `RunSetup` opens it.
* `WatcherStops`, `RunWindsDown` and `RunEnds` are the `select` of run and
  watcher. The library's wind-down may take any time, and its drain is
  deliberately left open: "teardown" lasts for any finite time. The watcher may
  take a stop request during it too (`main.rs:937`). `RunEnds` *assumes* that the
  library then clears its own stop latch (`libStop`) with its other globals;
  `main.rs:934` and `specs/SPECS.md` mention `reset_globals`, and the rest is in
  `esp-csi-rs`. If it did not, such a stop could end the next run, and neither
  `StopWasAsked` nor `SeenStopKeyUnlocks` could see it.
* `WatchdogReset` is the hardware reset, after a restart or a panic.
* `CliConfigure` stands for all configuration commands at once; `NodeConfig`
  models each. It never panics, although `set-wifi` does on an overlong SSID or
  password (`cmds.rs:651`): that is `PanicCommand` of `RunSetup`. What a panic at
  the prompt does to the two tasks is checked with `CliReadPanics`.

`CollectionSession` is the promise: idle, requested, collecting, ended; a run
uses the settings of the moment it was asked for; it ends only at its deadline
or when its own session was asked to stop; no reset cuts it short. The mapping
reads the phase off the baton (pending START, run, pending DONE).

### LineEditor

One action per arm of the preprocessor's `match`. `menuBuf` and `overflowed` are
the external `menu` crate, taken from the comments and uses in `main.rs`
(capacity, "Buffer overflow!", backspace, `\n` stripped). The bytes that matter
are the two quotes, space, backspace, `\r` and `\n`; `x` stands for the rest.

The four pictures of a line do part, in three ways: a byte is typed when the
shadow is full, a literal quote is erased, or a line feed falls in the middle.
`intact` is history: it says that none of these has happened since the last
Enter, and is what the two mirror properties are conditional on.

`CommandLine` is the editor's promise, without shadow, count or quote state: a
line, the command it spells, and whether the two can be relied on. A key appends
a glyph or takes the last one away and the command follows; Enter empties both;
the three events above are the only ones that may part them, and after one of
them a key still changes the command by at most one byte, within the buffer. The
mapping is the identity: the terminal's line, `menu`'s buffer and `intact`.

### Console

It puts the editor behind the receive FIFO and the lock, byte by byte, where
`CollectionLifecycle` has tokens and no editor. A byte in the FIFO carries three
facts about where it comes from: its number (`seq`), whether it is the first of
a line of the host's (`head`), and whether the CLI was locked when it was typed.
The prompt takes one byte at a time (`EditKey`, `Submit`); a lock loop drops a
burst of any length (`DropBurst`). There are three loops: "peek" (`auto` on USB),
"blind" (the same code when `auto` fell back to UART, where the peek finds
nothing) and "read" (every other build).

`Unlock` resets two of the editor's variables and leaves four alone, as
`main.rs:727` does. `Submit` hands `menu`'s buffer to `Dispatch`, which splits it
at its spaces and checks its flags against the table of `Menu`. Only `start` and
`restart` change the console's state. Why and when a run ends is left to
`CollectionLifecycle`: here one may end at any time.

`line`, `upTo` and `cut` are history: whether the line at the prompt is an
uninterrupted run of host bytes from the start of a host line, and whether a
lock, an unlock or a boot has cut the input since the last Enter.

### Menu

Two tables per chip, as sets of pairs of an item and a flag, for an image with the
default features: what each item of `ROOT_MENU` declares, and what its handler
asks for with `argument_finder`.
`menu` refuses a flag that is not in the first, and a lookup that is not in it
silently finds nothing, so they have to agree (`type` of `set-measurement` is
declared and deliberately unused).

### NodeConfig

A command line is a record of its flags; a missing flag is `Absent`, a rejected
value is one outside its domain, and both leave the field alone, as the handlers
do. Order inside one line is the code's (`--mode` before `--reporting`, coarse
period before fine, toggles before preset before scale). Integers are bounded by
`U16Max` and `U32Max`, so saturation (`saturating_mul(1000)`) is modelled. SSIDs,
passwords, DHCP, leases and burst are one value `network`, since no property
tells them apart; an overlong name panics and reboots. `build_mode` is
`BuildMode`. `NodeAttributes` is what `show-config` prints of a node: its
reporting, with one of the remarks of `ReportingRemark` ("fixed by mode",
"cannot report none") and its session with the remark of `SessionFixed`.

### RunSetup

It extends `NodeConfig`, whose commands are the prompt of its state machine; the
runs check the configuration's properties under `RunSpec`, while the theorems of
`NodeConfig_proof` are about the configuration alone.

`StartRun` is `main.rs` 870-956 as one step: power saving, node, gates, filters,
delivery and log gate, most of them a write to a static of `esp-csi-rs`. The
driver may refuse to switch power saving off, and the code ignores that
(`PowerSaving`). `FinishRun` is the library's
own reset of globals (external): delivery off, callback gone, gates undefined
(chosen nondeterministically, so that nothing can rely on them). The commands
that write a static as well as the configuration (`set-csi-filter`,
`set-csi-delivery`, `set-log-mode`, `set-session` with its epoch) are actions of
their own. `ShowConfig` is what `show-config` would print in a state, to be
compared with the run of that configuration: node attributes, reporting
parameters, radio and PHY settings, filters, gate, IO tasks, rates and CSI flags.
It leaves out the sensing role, which the library fixes by mode. The emitter's
interface and the unsolicited flood are not printed at all, so `ShownIsInForce`
cannot speak of them.

### Boot

One thread of control from reset to prompt, the `is_jtag` loop with its real
budget of 300 polls, a panic from any phase, `custom_halt` with its re-entry
guard, and the watchdog reset that itself panics on a zero calibration.

## 3. What TLC checks

All passing runs search their whole state space.

| Run | Question | Bounds |
|---|---|---|
| `LifecyclePeek` | `auto` build, USB or UART: can any typing break the hand-over, let settings change under a run, leak a stop into another session? Does a timed run end, `q` end a run, a restart reboot? Is `CollectionSession` implemented, its fairness included? | all 9 tokens, `HostBudget` 5, `RxCapacity` 3, two configurations |
| `LifecycleRead` | a UART build, with overruns and their panics: the inductive invariant, and what fairness promises, minus the stop and refinement properties that read builds break | the same |
| `EditorLines` | is the command the visible line and the shadow its picture, until one of the three events parts them? Past the buffer: is `menu` safe, does the quote state hold? | all bytes, both quote styles, `\n`; buffer 4, line 5 |
| `Console` | is the prompt after a run clean, in each of the three lock loops? Which lines can lack bytes? Do the menu tables agree? | 9 bytes (see below), buffer 4, `RxCapacity` 3, `HostBudget` 6, esp32c6 |
| `RunReporting` | every order of `set-wifi`, `set-reporting`, `set-measurement`, `set-io-tasks`, `set-csi-output`, `set-csi-filter` and runs: coherence, the remarks of `show-config`, `show-config` against the run, silence of an unpaced station or access point | all modes, HT40 and HE20 off or on together, policies, destinations; 16-bit maximum 3 |
| `RunLibrary` | can any history of filters, delivery modes, gates, log modes, sessions and resets be felt by a run? Does a line at the edge of a range leave a field outside it? | all filter, delivery and session lines, accepted and refused; zero, one, the maximum, the maximum + 1; 32-bit maximum 1999, so that 2 ms saturates |
| `BootHalt` | is a USB host ever overlooked, does every panic end in a boot? | the real poll budget, 300 |

`IInv` in the lifecycle runs is the conjunction that the proofs use; several of
its parts are listed separately in `LifecyclePeek`, so that each is shown to be
breakable on its own. `ImplementsSession` is what TLAPS proves;
`ImplementsFairSession` adds the abstract session's fairness, which only TLC checks.

Named bounds, and why they are enough:

* `HostBudget` in the lifecycle counts tokens over a whole behaviour, reboots
  included. Five are
  two sessions, a stop, a restart and one more key. The three lifecycle
  disagreements below need at most four, and every variant of the model in
  which a hand-over is broken on purpose is caught within five. Safety was proved
  for any budget (section 4).
* `HostBudget` in the console counts bytes, but a word is one byte: `re` and
  `start` together spell `restart`, so a line can lose its front and still be a
  command. Six are a `start`, the rest of a line that a lock cuts in two, and a
  whole line after it. The other bytes are `duration`, `q`, space, a quote,
  backspace, `\r` and `\n`.
* `RxCapacity` = 3 holds a stop key with a token on either side of it, and is
  below the budget, so it fills up and a UART overruns.
* `CliBufLen` is 256 in the code. Capacity matters by being reached: with 3 to 6
  it is reached by every kind of byte. `MaxLine` bounds the terminal's line and
  is above `CliBufLen` in `EditorLines` and `Console`, so that lines overflow.
* `U16Max`, `U32Max` stand for 2^16 - 1 and 2^32 - 1; only their edges are used.
* The two configurations `c0` and `c1` of the lifecycle are values to tell apart.

Deadlock is off in the lifecycle and console runs only: a prompt whose host has stopped
typing has nothing to do, and the model's host stops at its budget.

**Fairness.** The executor polls every woken task, and every timer and watchdog
fires, so the main task, the collection task and the watchdog are weakly fair.
`stop_watcher` is polled together with the run, but the run may end before it,
so its fairness is separate; a run asked to stop does end. `RunWindsDown` under
fairness says that the library honours its deadline and its stop latch, which is
what the code relies on. Nothing obliges the host to type. `BootSpec` is fair
about what the chip does alone and obliges neither a USB host nor a panic.

### Disagreements

Each of these runs checks one property that the repository's words claim and the
code does not have; `PROJECT.json` quotes the words.

| Run | What happens |
|---|---|
| `ReadStaleStop` | On builds whose lock loop reads the console, a `q` read after the run has ended and before DONE is taken raises a new `STOP_REQUEST` that nothing clears; the next `start` ends at once. |
| `AutoOnUartStop` | An `auto` build that fell back to UART still peeks only the USB FIFO: `q` never stops an indefinite run. |
| `RestartThenStart` | `restart` with a typed-ahead `start`: both are executed before the task is polled, START wins the `select`, and the restart waits for a run that may never end. |
| `EditorLiteralQuote` | Backspace over a literal quote (one style inside the other) removes the glyph but not the byte in `menu`'s buffer. |
| `LockedByteRuns` | The peek loops leave as soon as DONE is raised, so what was typed since their last look, with the CLI still locked, is executed by the prompt. |

The passing counterparts say how far each promise does hold: `SeenStopKeyUnlocks`
beside `StopKeyUnlocks`, `RestartOutlastsRuns` beside `RestartReboots`,
`IntactLineIsCommand` beside `CommandIsVisibleLine`, `OnlyFirstLineIsTorn` and
`ReadLoopIgnoresLockedBytes` beside `LockedBytesAreIgnored`.

The models also show the following divergences, which follow from one definition
each and have no run of their own:

* `\n` does not submit a line (`LineFeed`), although `specs/WEBSERVER.md:18` says
  it does, and it drops the shadow with which the line could have been edited.
* Quotes are echoed past the capacity of `shadow` (`TypeQuote`, `Push`), which
  then no longer mirrors the line as `main.rs:615` says.
* `--preset` overwrites the toggles beside it (`Preset`), against the example of
  `docs/commands.md:83`.
* With `report-to=local`, a sniffer that inherited the policy `none` reports to
  the host (`SnifferReporting`, `main.rs:375`), against `docs/commands.md:101-102`.
* Every run overwrites both things `set-csi-delivery` writes to the library
  (`Delivered`): the mode, unless it is `raw`, and the log gate of `--logging`,
  which becomes "output enabled and not raw". `README.md:54` and
  `docs/commands.md:215-221` read as if both lasted; `specs/SPECS.md:112-117` and
  632-635 document the override. `RunsLikeAfterBoot` and `QuietRunsLogNothing`
  state the rule the code and SPECS share.
* A filter on `00:00:00:00:00:00` is no filter (`AsStatic`; `docs/commands.md:38`).
* `reset-config` does not reset the log mode (`LogModeCommand`;
  `docs/commands.md:185`).
* `specs/SPECS.md:444` says that a raw run is not stopped by `q`; the lock loop
  polls for it in every mode.

## 4. What TLAPS proves

For all values of the constants that meet the named assumptions
(`ConstantsAssumption`, `LineAssumption`, `ConsoleAssumption`, `ConfigAssumption`,
`NoneAssumption`, `SetupAssumption`, `BootAssumption`, which TLC also evaluates):

| Theorem | States | Holds for |
|---|---|---|
| `TypeCorrect`, `Invariance`, `Handover`, `RunUsesSettings` | `TypeOK`, `IInv`, `OneBaton`, `SettingsFrozen` | every build, transport, FIFO size and host budget |
| `StartsAreLostOnlyToRestarts` | `StartLostOnlyToRestart`, an action property: a start that is dropped was overtaken by a restart | every build |
| `RestartQuietsRadio` | `RadioOffBeforeReset`, an action property | every build |
| `StopIsPerSession`, `RunsEndAsAsked` | `NoStaleStop`, `StopWasAsked` | `PeekBuild`; `ReadStaleStop` shows the other builds lack them |
| `SessionImplemented` | `Spec => Session!Spec` | `PeekBuild` |
| `EditorTypeCorrect`, `CountIsExact`, `ShadowIsTheLine` | `TypeOK`, `ForwardedMirrorsUsed`, `ShadowMirrorsLine` | any buffer size, vocabulary and line |
| `OpenQuoteIsTheShadows`, `CommandIsTheLine` | `QuoteMatchesShadow`, `IntactLineIsCommand` | the same, lines of any length |
| `EditorImplementsCommandLine` | `Spec` of `LineEditor` implements `CommandLine` | the same |
| `ConsoleTypeCorrect`, `PromptIsClean`, `LockedBytesNeverRun`, `EnterResynchronises` | `ConsoleTypeOK`, `LockedLineIsEmpty`, `ReadLoopIgnoresLockedBytes`, `OnlyFirstLineIsTorn` | any FIFO, vocabulary, chip and mix of lock loops |
| `ConsoleDrivesTheEditor`, `EditorBehindTheLock`, `ConsoleImplementsCommandLine` | the console takes only `LineEditor`'s steps and restarts of it, so the editor's five invariants hold in it, and it implements `CommandLine` | the same |
| `EveryFlagIsHeard` | `NoFlagIsIgnored` | every chip and lock loop |
| `ConfigTypeCorrect`, `ReportingIsCoherent`, `NoneIsOnlyLeftOver`, `RemarksAreTrue` | `ConfigTypeOK`, `ReportingCoherent`, `NoneIsLeftOver`, `FixedByModeIsFixed` | any order of commands |
| `RunsKeepReportingCoherent`, `RunsKeepRemarksTrue`, `RunsLeaveNoNone` | three of the same | any order of commands and runs |
| `LibraryTypeCorrect`, `RunsHaveNoHistory`, `QuietRunsAreQuiet`, `UnpacedRunsAreSilent`, `ShowConfigTellsTheRun` | `LibraryTypeOK`, `RunsLikeAfterBoot`, `QuietRunsLogNothing`, `UnpacedIsSilent`, `ShownIsInForce` | any history of commands and runs |
| `FilterLinesKeepAgreement` | `FilterCommandsAgree`, an action property | any filter line |
| `BootTypeCorrect`, `SoftwareResetOnlyUncalibrated`, `HostHeard` | `BootTypeOK`, `SoftwareResetIsLastResort`, `HostIsHeard` | any poll budget |

**The lifecycle's argument.** `IInv` is `TypeOK /\ OneBaton /\ SettingsFrozen /\
RunState /\ StopState /\ RestartState /\ PanicAtPrompt`. `OneBaton` is not
inductive alone: that an ending run holds the baton needs `RunState` (the task's
locals agree with its program counter), and that a panic meets no lock needs
`PanicAtPrompt`. `SettingsFrozen` needs `OneBaton`, because commands run only
unlocked and unlocked means no run. `NoStaleStop` needs `StopState`: on a peek
build DONE is polled before the keyboard, so a stop request exists only while
the run it is for does. That a start is lost to nothing but a restart needs
`RestartState`: the radio is off only while `RESTART_PENDING` is set. The proof
has one lemma per group of actions, one step per action, and `IInv` is itself an
invariant of both lifecycle runs.

**The editor's argument.** `CountIsExact` rests on each arm counting what it
forwards (`Inv`). For `ShadowIsTheLine` the mirror is inductive once it counts the
bytes `menu` was given (`Mirrored`): a backspace may take a byte from `menu` only
if there is one. The other two invariants are about folds of the line, and the
inductive invariant `CommandInv` joins all of it with `Coherent`: on an intact
line the open quote is the shadow's *even when the shadow is full*, and `menu`
holds what the screen spells. `QuoteMatchesShadow` and `IntactLineIsCommand` are
not inductive without each other: what a typed quote does to the command depends
on whether the editor takes it for a delimiter, hence on the open quote, and what
a backspace restores depends on the walk over the shadow being the walk over the
screen (`QuoteOfMirror`: a space and the 0x1F that stands for it open no quote).

**Folds.** `FoldLeft` is defined by recursion over the length of a sequence. What
is needed of it is that it maps the empty sequence to the base and commutes with
`Append`. `FoldLemmas` proves that for any step: induction over the naturals is a
statement about *sets* there (`NatSetInduction`, from the well-foundedness of `<`,
by way of a minimal counterexample), and the value of a fold is identified
with the last element of an iteration, of which `IterationExists` and
`IterationsAgree` say that there is exactly one. `SeqSetInduction` then proves
facts of every line one glyph at a time (`CodeWalks`, `QuoteOfMirror`).

**The abstract command line.** `EditorIsShell` maps an arm of the `match` to a
step or a stutter: a bell is a stutter, a literal and a quote are `Type` below the
capacity and `Overrun` at it, a backspace is `Erase` or, exactly when the quote
it takes away spells itself, `EraseLiteral` (`LiteralQuoteIsErased`), `\n` is
`Break` or a stutter. No run checks this refinement beside the proof, because
`EditorLines` already checks the invariants it rests on.

**The console's argument.** `LockedLineIsEmpty` is inductive: a lock can only begin
in `Submit`, which empties every picture of the line. For `OnlyFirstLineIsTorn`
the invariant has to speak of the whole FIFO: its bytes are consecutive and,
unless a receive error waits, end at the last byte the host typed (`Stream`, which a locked read loop suspends,
since it drops errors and bytes with them), an overrun leaves the FIFO full
until it is read (`OverrunIsFull`), and on an uncut line the next byte to read is
the one behind the last one read (`PromptFollows`).

**The composition.** `Console` extends `LineEditor`, but its steps are not the
editor's: an unlock and a reset assign the editor's variables on their own.
`EditorIsDriven` shows that this makes no new behaviour: a byte the prompt reads
was typed by the host (`FifoTypes`), an unlock changes nothing because
`LockedLineIsEmpty`, and a reset re-establishes `Init`. So each console step is
`[Next]_vars \/ Init'` for the editor, and what was proved of the editor alone
holds behind the lock.

**The refinement.** `SessionImplemented` maps each action to one of the session's,
or to a stutter: `TakeStart` is `Begin`, `RunEnds` is `End`, `LockedDone` is `Unlock`,
`WatchdogReset` is `Reset` or a stutter, a drained `q` is `AskStop`. `End` needs
"teardown only when timed or asked" of `StopState`.

**The library's argument.** `AsConfigured` says what a running node and each
static are as a function of the configuration alone. It is inductive because
`StartRun` rewrites every gate, and no command runs beside a run;
`RunsLikeAfterBoot`, `QuietRunsLogNothing`, `UnpacedIsSilent` and
`ShownIsInForce` follow from it, the last with `ReportingCoherent`: the threshold
and decimation on their own lines are those of the reporting in force only
because the stored reporting never drifts from its parameters. The proofs need the type of the configuration,
hence `NodeConfig_proof`.

Only model-checked: what depends on fairness (`TimedSessionUnlocks`,
`SeenStopKeyUnlocks`, `RestartOutlastsRuns`, `PanicReboots`,
`ImplementsFairSession`), since the prover has no rules for `ENABLED`. Every
invariant and every other action property of a passing run is a theorem. Three
hold on some builds only, and the theorem says so: the stop properties and the
refinement assume `PeekBuild`.

## 5. What is not modelled

What is left of the repository is text, constants and peripheral set-up: it
keeps no state that another part reads, so a model of it would only repeat it.

* Text: the output of `info`, `version` and `show-stats`, the welcome banner and
  the help strings. They read constants and counters and lay them out. What
  `show-config` prints is modelled (`ShowConfig`, `NodeAttributes`), but for the
  sensing role and the layout.
* Counters printed by `show-stats`: they belong to `esp-csi-rs` and nothing here
  decides on them.
* What power saving should be in a run that does not ask for it off: it stays as
  an earlier run left it (`PowerSaving`), no document says what it should be, and
  its result is ignored, so there is nothing to check it against.
* Register addresses, peripheral set-up, and panics raised inside an interrupt
  while the chip halts.
* `build.rs`, which generates a constant and linker arguments at compile time.
* The insides of `esp-csi-rs`, `esp-radio`, `menu` and `embassy`: they are outside
  the repository, and only what the code calls and relies on is modelled.
* `Read`/`Write` forwarding in `serial.rs`; what a read can return is modelled.
* Images with other than the default features: the only item that depends on one
  is `show-stats`, which goes with `statistics`.

## 6. Plan

Done, in order of importance: the lifecycle and its session, its invariant and
refinement proofs; the line editor; the configuration; the run setup; boot; the
console, which puts the editor behind the FIFO and the lock; the menu tables;
`show-config` against the run it describes; the editor's command and quote
proofs; the abstract command line and its refinement, behind the lock too.

What could still be added:

1. the wind-down of a run in more detail: which library events precede DONE.
   The repository only shows that it ends, so this needs the library's source;
2. a proof that `Console`'s lock, with tokens for lines, is `CollectionLifecycle`'s:
   the two agree today because each is translated from the same loops;
3. an abstract specification of a run (settings in, library calls out) for
   `RunSetup`, as `CommandLine` is for the editor.
