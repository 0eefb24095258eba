----------------------------- MODULE MCRunSetup -----------------------------
(***************************************************************************)
(* Instances of RunSetup for TLC: one blank line per command, and the      *)
(* lines that differ from it in the flags under test.                      *)
(***************************************************************************)
EXTENDS RunSetup

SmallThreshold == [level |-> 1, hold_ms |-> 1]

-----------------------------------------------------------------------------
(* Commands that only write the configuration.                             *)
BlankWifi ==
  [mode |-> Absent, channel |-> Absent, network |-> Absent, peer_mac |-> Absent,
   ht40 |-> Absent, he20 |-> Absent, period_ms |-> Absent, period_us |-> Absent,
   sta_iface |-> Absent, reporting |-> Absent, report_to |-> Absent]
BlankReporting ==
  [level |-> Absent, hold_ms |-> Absent, n |-> Absent, policy |-> Absent, report_to |-> Absent]

LongNetwork == [BlankWifi EXCEPT !.network = Overlong]

(* Every mode, alone and with every reporting and destination, and both    *)
(* settings that decide the PHY.                                           *)
ModeLines ==
  {[BlankWifi EXCEPT !.mode = m, !.reporting = r, !.report_to = d] :
     m \in {"sniffer", "station", Absent}, r \in Policies \cup {Absent},
     d \in Destinations \cup {Absent}}
  \cup {[BlankWifi EXCEPT !.mode = m] : m \in NodeModes}
  \cup {[BlankWifi EXCEPT !.ht40 = "below", !.he20 = TRUE]}

(* The emitter's two period flags: unparsable, at the boundary, past it;   *)
(* one other radio setting; and a name that does not fit.                  *)
RadioLines ==
  {[BlankWifi EXCEPT !.period_ms = ms, !.period_us = us] :
     ms \in {Absent, 0, 1, 2}, us \in {Absent, 0, 7}}
  \cup {[BlankWifi EXCEPT !.he20 = TRUE], LongNetwork}

(* Zero is no decimation factor; U16Max + 1 is not a level.                *)
AllReportingLines ==
  {[BlankReporting EXCEPT !.level = l, !.n = n, !.policy = p, !.report_to = d] :
     l \in {Absent, 2, U16Max + 1}, n \in {Absent, 0, 3},
     p \in Policies \cup {Absent}, d \in Destinations \cup {Absent}}

RangeReportingLines ==
  {[BlankReporting EXCEPT !.hold_ms = U16Max + 1, !.n = n] : n \in {0, 3}}

PaceLines == {[periodicity_hz |-> hz, unsolicited |-> Absent] : hz \in {0, 1}}
TxLines == {[tx |-> b, rx |-> Absent] : b \in BOOLEAN}
PresetLines ==
  {[on |-> {}, off |-> {"legacy"}, preset |-> p, scale |-> 4] : p \in {Absent, "he20"}}

-----------------------------------------------------------------------------
(* Commands that reach the library: each setting alone, both, and either   *)
(* one refused.                                                            *)
AllFilterLines ==
  {[peer_mac |-> m, min_phy |-> p] : m \in {Absent, "any", "m1", "bad"}, p \in {Absent, 1, 2}}

PlainFilterLines ==
  {[peer_mac |-> m, min_phy |-> Absent] : m \in {"any", "m1"}}

AllSessionLines ==
  {[id |-> i, epoch |-> e] : i \in {Absent, 7, 0}, e \in {Absent, 9, 0}}

AllDeliveryLines ==
  {[mode |-> m, logging |-> l] : m \in {"raw", "async", Absent}, l \in BOOLEAN \cup {Absent}}
=============================================================================
