---------------------------- MODULE CommandLine ----------------------------
(***************************************************************************)
(* What the editor promises whoever types at it: what they see is what     *)
(* will run.  A key adds a glyph or takes the last one away, and the       *)
(* command is the one the line spells.  The promise ends (`sure`) in three *)
(* ways only, until the next Enter: a line as long as the buffer grows, a  *)
(* quote that stands for itself is erased, or a line feed falls on a line. *)
(* Even then a key changes the command by one byte at most, and a command  *)
(* is never longer than the buffer.  LineEditor implements this, behind    *)
(* the console's lock too.                                                 *)
(***************************************************************************)
EXTENDS Naturals, Sequences, SequencesExt

CONSTANTS
  Capacity,   \* of the buffer the command goes into
  Glyph,      \* what a key can put on the line or in the command
  Delimiters, \* the glyphs that may spell nothing
  Spelled(_)  \* the command a line spells

VARIABLES line, command, sure

vars == <<line, command, sure>>

Fits == Len(command') <= Capacity

(* A quote that stands for itself, at the end of the line.                 *)
EndsInLiteral ==
  Last(line) \in Delimiters /\ Spelled(line) # Spelled(Front(line))

Init == line = <<>> /\ command = <<>> /\ sure = TRUE

Type ==
  /\ sure /\ Len(line) < Capacity
  /\ \E g \in Glyph : line' = Append(line, g)
  /\ command' = Spelled(line') /\ Fits
  /\ UNCHANGED sure

Erase ==
  /\ sure /\ line # <<>> /\ ~EndsInLiteral
  /\ line' = Front(line)
  /\ command' = Spelled(line') /\ Fits
  /\ UNCHANGED sure

Enter == line' = <<>> /\ command' = <<>> /\ sure' = TRUE

(* One byte of the command.                                                *)
Nudge ==
  /\ \/ UNCHANGED command
     \/ command # <<>> /\ command' = Front(command)
     \/ \E g \in Glyph : command' = Append(command, g)
  /\ Fits

(* The three ways to part, and what follows.                               *)
Overrun ==
  /\ sure /\ Len(line) >= Capacity
  /\ \E g \in Glyph : line' = Append(line, g)
  /\ sure' = FALSE
  /\ Nudge

EraseLiteral ==
  /\ sure /\ line # <<>> /\ EndsInLiteral
  /\ line' = Front(line)
  /\ sure' = FALSE
  /\ UNCHANGED command

Break ==
  /\ sure /\ line # <<>>
  /\ sure' = FALSE
  /\ UNCHANGED <<line, command>>

Unsure ==
  /\ ~sure
  /\ \/ UNCHANGED line
     \/ line # <<>> /\ line' = Front(line)
     \/ \E g \in Glyph : line' = Append(line, g)
  /\ Nudge
  /\ UNCHANGED sure

Next == Type \/ Erase \/ Enter \/ Overrun \/ EraseLiteral \/ Break \/ Unsure

Spec == Init /\ [][Next]_vars
=============================================================================
