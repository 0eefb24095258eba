------------------------------ MODULE Console ------------------------------
(***************************************************************************)
(* The console byte by byte: the receive FIFO, the prompt that reads one   *)
(* byte at a time into the line editor, `menu`'s dispatch of the line, and *)
(* the lock loop that drains the FIFO while a collection runs.  It shows   *)
(* what CollectionLifecycle's tokens cannot: which bytes of a line reach   *)
(* the editor when a lock, an unlock or a reset falls between them.        *)
(*                                                                         *)
(* Why a run ends is CollectionLifecycle's matter: here one may end at any *)
(* time.                                                                   *)
(***************************************************************************)
EXTENDS LineEditor, Menu

(* The lock loops.  "peek": the raw USB peek of an `auto` build.  "blind":  *)
(* the same loop when that build fell back to UART, whose FIFO the peek    *)
(* does not see.  "read": the async read of every other build.             *)
LockLoops == {"peek", "blind", "read"}
ChipsWith(l) == IF l = "read" THEN Chips ELSE Chips \ {"esp32"}

CONSTANTS
  Chip,        \* which ROOT_MENU is compiled in
  Loops,       \* those of LockLoops to look at
  RxCapacity,  \* bytes the receive FIFO holds
  HostBudget   \* bytes the host types in one behaviour

ASSUME ConsoleAssumption ==
  /\ Loops \in (SUBSET LockLoops) \ {{}}
  /\ \A l \in Loops : Chip \in ChipsWith(l)
  /\ RxCapacity \in Nat \ {0}
  /\ HostBudget \in Nat /\ HostBudget <= MaxLine

VARIABLES
  loop,          \* the lock loop this boot will use
  rx,            \* the receive FIFO; a byte with where it comes from
  overrun,       \* a UART receive error waits for the next read
  isCollecting,  \* IS_COLLECTING
  run,           \* "none", "asked" (START raised), "going" or "ended" (DONE raised)
  rebooting,     \* "no", "asked" (RESTART_PENDING) or "radio off"
  halted,        \* a panic reached custom_halt
  (* history *)
  sent,          \* bytes the host has typed; its next byte is number sent + 1
  hostHead,      \* the host's next byte is the first of a line of its own
  line,          \* the prompt's line: "none" read yet, "whole" so far, or "torn"
  upTo,          \* the last byte the prompt read
  cut            \* since the last Enter a lock, an unlock or a boot has cut the input

editor  == vars
console == <<rx, overrun, sent, hostHead>>
cli     == <<isCollecting, run, rebooting, halted, loop>>
history == <<line, upTo, cut>>
all     == <<editor, console, cli, history>>

-----------------------------------------------------------------------------
(* `menu` splits a line at its spaces; 0x1F is none.                       *)
WordStep(words, g) ==
  IF g = " " THEN Append(words, <<>>) ELSE Append(Front(words), Append(Last(words), g))
Words(l) == SelectSeq(FoldLeft(WordStep, << <<>> >>, l), LAMBDA w : w # <<>>)

(* The vocabulary: `re` and `start` spell `restart`, so that a line can    *)
(* lose its first letters and still be a command.                          *)
Spells(w) == CASE w = <<"start">>       -> "start"
               [] w = <<"re", "start">> -> "restart"
               [] w = <<"duration">>    -> "duration"
               [] OTHER                 -> "?"

(* The handler a line calls, or "none".                                    *)
Called(l) ==
  LET words   == Words(l)
      command == Spells(words[1])
      given   == {Spells(words[i]) : i \in 2..Len(words)}
  IN IF words = <<>> \/ Dispatch(Chip, command, given) # "called" THEN "none" ELSE command

-----------------------------------------------------------------------------
ConsoleInit ==
  /\ Init
  /\ loop \in Loops
  /\ rx = <<>> /\ overrun = FALSE
  /\ isCollecting = FALSE /\ run = "none" /\ rebooting = "no" /\ halted = FALSE
  /\ sent = 0 /\ hostHead = TRUE
  /\ line = "none" /\ upTo = 0 /\ cut = TRUE

(* The host types; on a UART a byte that finds the FIFO full is lost.      *)
Accept_Unbounded(b) ==  \* mutant: the FIFO never fills
  rx' = Append(rx, [byte |-> b, seq |-> sent + 1, head |-> hostHead, locked |-> isCollecting])
    /\ UNCHANGED overrun
Accept(b) ==
  \/ /\ Len(rx) < RxCapacity
     /\ rx' = Append(rx, [byte |-> b, seq |-> sent + 1, head |-> hostHead,
                          locked |-> isCollecting])
     /\ UNCHANGED overrun
  \/ /\ Len(rx) = RxCapacity /\ loop # "peek"
     /\ overrun' = TRUE
     /\ UNCHANGED rx

HostTypes(b) ==
  /\ sent < HostBudget
  /\ Accept(b)
  /\ sent' = sent + 1
  /\ hostHead' = (b = "cr")
  /\ UNCHANGED <<editor, cli, history>>

-----------------------------------------------------------------------------
(* The prompt's read takes one byte.                                       *)
Consume_Two ==  \* mutant: a chunk is read and only its first byte used
  rx' = SubSeq(rx, 3, Len(rx))
Consume == rx' = Tail(rx)

(* The byte goes on the prompt's line; the line is whole while every byte  *)
(* is the one the host typed next, from the first of a line of its own.    *)
OnLine(r) ==
  IF line = "none" THEN IF r.head THEN "whole" ELSE "torn"
  ELSE IF r.head \/ r.seq # upTo + 1 THEN "torn" ELSE line

AtPrompt ==
  /\ ~halted /\ ~isCollecting
  /\ ~overrun /\ rx # <<>>
  /\ Consume
  /\ upTo' = Head(rx).seq
  /\ UNCHANGED <<overrun, sent, hostHead, halted, loop>>

(* Any byte but `\r`: the editor's, and the rest stays.                    *)
EditKey ==
  /\ AtPrompt
  /\ Head(rx).byte # "cr"
  /\ \/ Input(Head(rx).byte)
     \/ Head(rx).byte = "bs" /\ shadow = <<>> /\ UNCHANGED editor
  /\ line' = OnLine(Head(rx))
  /\ UNCHANGED <<cut, isCollecting, run, rebooting>>

(* `\r`: the editor forgets the line and menu runs it.  `start` locks the  *)
(* CLI, `restart` asks the collection task for a reset.                    *)
Execute(command) ==
  /\ isCollecting' = (command = "start")
  /\ run' = IF command = "start" THEN "asked" ELSE run
  /\ rebooting' = IF command = "restart" /\ rebooting = "no" THEN "asked" ELSE rebooting

Submit ==
  /\ AtPrompt
  /\ Head(rx).byte = "cr"
  /\ CarriageReturn
  /\ Execute(Called(menuBuf))
  /\ line' = "none"
  /\ cut' = isCollecting'

(* The prompt's read is unwrapped.                                         *)
ReadPanics ==
  /\ ~halted /\ ~isCollecting /\ overrun
  /\ halted' = TRUE
  /\ UNCHANGED <<editor, console, history, isCollecting, run, rebooting, loop>>

-----------------------------------------------------------------------------
(* Locked: a burst is taken off the FIFO and dropped, whatever it holds.   *)
DropBurst ==
  /\ ~halted /\ isCollecting
  /\ \/ loop = "peek" /\ run # "ended"
     \/ loop = "read" /\ ~overrun
  /\ \E n \in 1..Len(rx) : rx' = SubSeq(rx, n + 1, Len(rx))
  /\ UNCHANGED <<editor, cli, history, overrun, sent, hostHead>>

LockedReadError ==
  /\ ~halted /\ isCollecting /\ loop = "read" /\ overrun
  /\ overrun' = FALSE
  /\ rx' \in {rx, <<>>}
  /\ UNCHANGED <<editor, cli, history, sent, hostHead>>

(* The peek loops look at DONE first, the read loop at the console.        *)
DoneIsSeen_First == TRUE  \* mutant: DONE first in every build
DoneIsSeen == loop # "read" \/ (rx = <<>> /\ ~overrun)

(* Only two of the editor's variables are reset, and the prompt redrawn.   *)
Unlock ==
  /\ ~halted /\ isCollecting
  /\ run = "ended" /\ DoneIsSeen
  /\ run' = "none"
  /\ isCollecting' = FALSE
  /\ quoteChar' = None /\ shadow' = <<>> /\ screen' = <<>>
  /\ UNCHANGED <<forwarded, atCapacity, menuBuf, overflowed, intact>>
  /\ UNCHANGED <<console, history, rebooting, halted, loop>>

-----------------------------------------------------------------------------
(* The collection task, as far as the console can tell.  A START pending   *)
(* wins over a restart, and a restart already under way lets none begin.   *)
RunBegins ==
  /\ ~halted /\ run = "asked" /\ rebooting # "radio off"
  /\ run' = "going"
  /\ UNCHANGED <<editor, console, history, isCollecting, rebooting, halted, loop>>

RunEnds ==
  /\ ~halted /\ run = "going"
  /\ run' = "ended"
  /\ rebooting' = IF rebooting = "asked" THEN "radio off" ELSE rebooting
  /\ UNCHANGED <<editor, console, history, isCollecting, halted, loop>>

RadioOff ==
  /\ ~halted /\ run \in {"none", "ended"} /\ rebooting = "asked"
  /\ rebooting' = "radio off"
  /\ UNCHANGED <<editor, console, history, isCollecting, run, halted, loop>>

(* The chip resets: 200 ms after the radio went down, or after a panic.    *)
(* The same build boots, and may settle on the other transport.            *)
Reset ==
  /\ rebooting = "radio off" \/ halted
  /\ shadow' = <<>> /\ quoteChar' = None /\ forwarded' = 0 /\ atCapacity' = FALSE
  /\ menuBuf' = <<>> /\ overflowed' = FALSE /\ screen' = <<>> /\ intact' = TRUE
  /\ rx' = <<>> /\ overrun' = FALSE
  /\ isCollecting' = FALSE /\ run' = "none" /\ rebooting' = "no" /\ halted' = FALSE
  /\ loop' \in {l \in Loops : (l = "read") = (loop = "read")}
  /\ line' = "none" /\ cut' = TRUE
  /\ UNCHANGED <<upTo, sent, hostHead>>

ConsoleNext ==
  \/ \E b \in LineKeys : HostTypes(b)
  \/ EditKey \/ Submit \/ ReadPanics
  \/ DropBurst \/ LockedReadError \/ Unlock
  \/ RunBegins \/ RunEnds \/ RadioOff
  \/ Reset

ConsoleSpec == ConsoleInit /\ [][ConsoleNext]_all

-----------------------------------------------------------------------------
(***************************************************************************)
(* Properties.                                                             *)
(***************************************************************************)
Received == [byte : Bytes, seq : 1..HostBudget, head : BOOLEAN, locked : BOOLEAN]

(* The types of the console's own state; the FIFO never exceeds its size.  *)
ConsoleTypeOK ==
  /\ loop \in Loops
  /\ rx \in Seq(Received) /\ Len(rx) <= RxCapacity
  /\ overrun \in BOOLEAN /\ isCollecting \in BOOLEAN /\ halted \in BOOLEAN
  /\ run \in {"none", "asked", "going", "ended"}
  /\ rebooting \in {"no", "asked", "radio off"}
  /\ sent \in 0..HostBudget /\ upTo \in 0..HostBudget
  /\ hostHead \in BOOLEAN /\ cut \in BOOLEAN
  /\ line \in {"none", "whole", "torn"}

(* main.rs:727: nothing of a line may leak into the prompt that follows a  *)
(* run.  The unlock resets only the quote and the shadow; it is enough,    *)
(* because the CLI is only ever locked from an Enter, which left the       *)
(* count, the bell and menu's buffer empty too, and nothing edits a line   *)
(* while it is locked.                                                     *)
LockedLineIsEmpty ==
  isCollecting =>
    /\ shadow = <<>> /\ quoteChar = None /\ screen = <<>>
    /\ forwarded = 0 /\ ~atCapacity /\ menuBuf = <<>>

(* Only the first line after a boot, a lock or an unlock may lack bytes    *)
(* the host typed: from the next Enter on, the line at the prompt is a     *)
(* line of the host's, whole and in order, whatever the lock loops and the *)
(* UART have dropped before.  (That first line may be what is left of a    *)
(* `restart`: a `start`.)                                                  *)
OnlyFirstLineIsTorn == line = "torn" => cut

(* On read builds the console is polled before DONE, so no byte typed in   *)
(* the locked console is left for the prompt (main.rs:695-713).            *)
ReadLoopIgnoresLockedBytes ==
  loop = "read" /\ ~isCollecting => \A i \in DOMAIN rx : ~rx[i].locked

(* mod.rs:457: a lookup that ROOT_MENU does not declare "reads as working  *)
(* code and silently never fires", and a declared flag nobody looks up is  *)
(* accepted and ignored.  No image with this console has either.           *)
NoFlagIsIgnored == ChipsWith(loop) \subseteq HearsItsFlags

(* specs/SPECS.md:51: while the CLI is locked every byte but the stop key  *)
(* is read and ignored, so none reaches the prompt.  The peek loops leave  *)
(* what arrived after their last look: see run LockedByteRuns.             *)
LockedBytesAreIgnored == ~isCollecting => \A i \in DOMAIN rx : ~rx[i].locked
=============================================================================
