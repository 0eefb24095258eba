----------------------------- MODULE MCConsole -----------------------------
(***************************************************************************)
(* Instances of Console for TLC: what the host types.                      *)
(***************************************************************************)
EXTENDS Console

(* Enough for `start`, `start --duration`, `restart`, noise, a quote, a    *)
(* backspace, and a terminal that ends its lines with CR LF.               *)
ConsoleLetters == {"re", "start", "duration", "q"}
ConsoleKeys    == ConsoleLetters \cup {" ", "\"", "bs", "cr", "lf"}
StartKeys      == {"start", "q", "cr"}
=============================================================================
