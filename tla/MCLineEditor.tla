---------------------------- MODULE MCLineEditor ----------------------------
(***************************************************************************)
(* Instances of LineEditor for TLC.                                        *)
(***************************************************************************)
EXTENDS LineEditor

AllKeys == Bytes

(* A terminal that sends `\r` for Enter.                                   *)
NoLineFeed == Bytes \ {"lf"}
=============================================================================
