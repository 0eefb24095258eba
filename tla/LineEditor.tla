----------------------------- MODULE LineEditor -----------------------------
(***************************************************************************)
(* The byte preprocessor in front of `menu` (main.rs:739-839).  `menu` is  *)
(* built without echo, so the preprocessor echoes what is typed, keeps its *)
(* own picture of the line (`shadow`), swallows quote delimiters, sends a  *)
(* space inside quotes as the sentinel 0x1F, and stops forwarding before   *)
(* `menu`'s buffer is full.  The menu buffer and the terminal's line are   *)
(* here so that the four pictures of one line can be compared.  Console    *)
(* puts the editor behind the receive FIFO and the collection lock.        *)
(***************************************************************************)
EXTENDS Naturals, Sequences, SequencesExt

CONSTANTS
  CliBufLen,   \* capacity of menu's buffer and of shadow (256)
  Letters,     \* the other bytes: echoed, forwarded and remembered as they are
  LineKeys,    \* the bytes the host types, a subset of Bytes
  MaxLine      \* bound: glyphs on the terminal's line

Quotes == {"'", "\""}
US     == "us"       \* 0x1F
Keys   == {"bs", "cr", "lf"}  \* "bs" is 0x08 and 0x7F
Bytes  == Quotes \cup {" "} \cup Keys \cup Letters
Glyphs == Quotes \cup {" ", US} \cup Letters
None   == "none"

ASSUME LineAssumption ==
  /\ CliBufLen \in Nat \ {0}
  /\ Letters \cap (Quotes \cup Keys \cup {" ", US, None}) = {}
  /\ LineKeys \subseteq Bytes
  /\ MaxLine \in Nat

VARIABLES
  shadow,      \* heapless::Vec of CLI_BUF_LEN bytes
  quoteChar,   \* quote_char: the open quote, or None
  forwarded,   \* bytes forwarded to menu on this line
  atCapacity,  \* the bell has rung
  menuBuf,     \* menu's buffer; its length is menu's `used` (external)
  overflowed,  \* menu has printed "Buffer overflow!" (external)
  screen,      \* the terminal's input line
  intact       \* history: nothing has parted the pictures of this line yet

vars == <<shadow, quoteChar, forwarded, atCapacity, menuBuf, overflowed, screen, intact>>

-----------------------------------------------------------------------------
(* One byte of the walk over a line: open, close, or a literal.            *)
QuoteStep(q, b) ==
  IF q = None /\ b \in Quotes THEN b
  ELSE IF q = b THEN None
  ELSE q

(* recompute_quote_state.                                                  *)
RecomputeQuote(line) == FoldLeft(QuoteStep, None, line)

(* heapless push: a full vector drops the byte, and the result is ignored. *)
Push(line, b) == IF Len(line) < CliBufLen THEN Append(line, b) ELSE line
Remember(b) ==
  /\ shadow' = Push(shadow, b)
  /\ intact' = (intact /\ Len(shadow) < CliBufLen)

(* menu's input_byte (external).                                           *)
MenuAppend(b) ==
  IF Len(menuBuf) < CliBufLen
  THEN menuBuf' = Append(menuBuf, b) /\ UNCHANGED overflowed
  ELSE overflowed' = TRUE /\ UNCHANGED menuBuf
EraseGlyph_Kept == UNCHANGED screen  \* mutant: the glyph stays on the terminal
EraseGlyph == screen' = IF screen = <<>> THEN <<>> ELSE Front(screen)
MenuBackspace ==
  IF menuBuf = <<>>
  THEN UNCHANGED <<menuBuf, screen>>
  ELSE menuBuf' = Front(menuBuf) /\ EraseGlyph

Room == Len(screen) < MaxLine

Init ==
  /\ shadow = <<>> /\ quoteChar = None
  /\ forwarded = 0 /\ atCapacity = FALSE
  /\ menuBuf = <<>> /\ overflowed = FALSE
  /\ screen = <<>> /\ intact = TRUE

-----------------------------------------------------------------------------
(* A quote that opens, or closes its own kind: echoed and remembered, not  *)
(* forwarded, and not limited by the capacity.                             *)
TypeQuote(b) ==
  /\ b \in Quotes /\ quoteChar \in {None, b}
  /\ Room
  /\ quoteChar' = IF quoteChar = None THEN b ELSE None
  /\ Remember(b)
  /\ screen' = Append(screen, b)
  /\ UNCHANGED <<forwarded, atCapacity, menuBuf, overflowed>>

(* What a byte is for the command: a space inside quotes is no separator.  *)
Sent(b) == IF b = " " /\ quoteChar # None THEN US ELSE b

IsLiteral(b) == b \in {" "} \cup Letters \/ (b \in Quotes /\ quoteChar \notin {None, b})

MayForward_Always == TRUE  \* mutant: no look at `forwarded`
MayForward == forwarded < CliBufLen

TypeLiteral(b) ==
  /\ IsLiteral(b)
  /\ MayForward
  /\ Room
  /\ MenuAppend(Sent(b))
  /\ Remember(Sent(b))
  /\ screen' = Append(screen, b)
  /\ forwarded' = forwarded + 1
  /\ UNCHANGED <<quoteChar, atCapacity>>

(* At capacity the bell rings once and the byte is dropped.                *)
Dropped(b) ==
  /\ IsLiteral(b)
  /\ ~MayForward
  /\ atCapacity' = TRUE
  /\ UNCHANGED <<shadow, quoteChar, forwarded, menuBuf, overflowed, screen, intact>>

(* What is popped decides who erases it; the glyph goes either way.        *)
RestoreQuote_Kept == UNCHANGED quoteChar  \* mutant: quote state not recomputed
RestoreQuote == quoteChar' = RecomputeQuote(Front(shadow))

Uncount_Kept == UNCHANGED forwarded  \* mutant: the count is not taken back
Uncount == forwarded' = IF forwarded = 0 THEN 0 ELSE forwarded - 1

ReArm == atCapacity' = FALSE

(* A quote that was forwarded, inside the other style.                     *)
ErasesLiteralQuote ==
  LET before == RecomputeQuote(Front(shadow))
  IN before # None /\ Last(shadow) \in Quotes \ {before}

Backspace ==
  /\ shadow # <<>>
  /\ shadow' = Front(shadow)
  /\ RestoreQuote
  /\ \/ Last(shadow) \in Quotes /\ EraseGlyph /\ UNCHANGED <<menuBuf, forwarded>>
     \/ Last(shadow) \notin Quotes /\ MenuBackspace /\ Uncount
  /\ ReArm
  /\ intact' = (intact /\ ~ErasesLiteralQuote)
  /\ UNCHANGED overflowed

(* `\r`: menu runs the line and prints a fresh prompt.                     *)
ForgetCount_Kept == UNCHANGED forwarded  \* mutant: the count of the line before
ForgetCount == forwarded' = 0

CarriageReturn ==
  /\ quoteChar' = None
  /\ shadow' = <<>>
  /\ ForgetCount
  /\ ReArm
  /\ menuBuf' = <<>>
  /\ screen' = <<>> /\ intact' = TRUE
  /\ UNCHANGED overflowed

(* `\n`: menu strips it and keeps its buffer.                              *)
LineFeed ==
  /\ quoteChar' = None
  /\ shadow' = <<>>
  /\ intact' = (intact /\ shadow = <<>>)
  /\ UNCHANGED <<forwarded, atCapacity, menuBuf, overflowed, screen>>

Input(b) ==
  \/ TypeQuote(b) \/ TypeLiteral(b) \/ Dropped(b)
  \/ b = "bs" /\ Backspace
  \/ b = "cr" /\ CarriageReturn
  \/ b = "lf" /\ LineFeed

Next == \E b \in LineKeys : Input(b)

Spec == Init /\ [][Next]_vars

-----------------------------------------------------------------------------
(***************************************************************************)
(* Properties.                                                             *)
(***************************************************************************)
(* The types of the editor's state.                                        *)
TypeOK ==
  /\ shadow \in Seq(Glyphs) /\ Len(shadow) <= CliBufLen
  /\ quoteChar \in Quotes \cup {None}
  /\ forwarded \in 0..CliBufLen
  /\ atCapacity \in BOOLEAN
  /\ menuBuf \in Seq(Glyphs)
  /\ overflowed \in BOOLEAN
  /\ screen \in Seq(Glyphs)
  /\ intact \in BOOLEAN

(* main.rs:628: `forwarded` mirrors menu's `used`, so menu never prints    *)
(* "Buffer overflow!", and the bell is latched only on a full line.        *)
ForwardedMirrorsUsed ==
  /\ forwarded = Len(menuBuf)
  /\ ~overflowed
  /\ atCapacity => forwarded = CliBufLen

(* The open quote is the one a walk over the shadow finds.  A quote typed  *)
(* when the shadow is full is lost to it, so only a full shadow may differ.*)
QuoteMatchesShadow == quoteChar = RecomputeQuote(shadow) \/ Len(shadow) = CliBufLen

(* main.rs:778-782: a swallowed quote is not in menu's buffer, everything  *)
(* else is erased through menu.  So the command menu will run is the line  *)
(* on the terminal: delimiters dropped, quoted spaces kept together,       *)
(* nothing else added or lost.                                             *)
EncodeStep(acc, b) ==
  LET quote  == QuoteStep(acc.quote, b)
      joined == IF b = " " /\ quote # None THEN US ELSE b
  IN [quote |-> quote,
      out   |-> IF quote # acc.quote THEN acc.out ELSE Append(acc.out, joined)]
Encode(line) == FoldLeft(EncodeStep, [quote |-> None, out |-> <<>>], line).out
CommandIsVisibleLine == menuBuf = Encode(screen)

(* It holds on every line until one of three things happens to it: a byte  *)
(* typed when the shadow is full, a literal quote erased (see run          *)
(* EditorLiteralQuote), or a line feed in its middle.  Enter heals it.     *)
IntactLineIsCommand == intact => CommandIsVisibleLine

(* main.rs:615: the shadow mirrors every visible character of such a line. *)
Shown(b) == IF b = US THEN " " ELSE b
ShadowMirrorsLine == intact => screen = [i \in DOMAIN shadow |-> Shown(shadow[i])]
=============================================================================
