--------------------------- MODULE MCSlaMonitor ---------------------------
(* Small instances of SlaMonitor. *)
EXTENDS SlaMonitor, TLC

\* The tickets and the workers of an instance are alike.
Alike == Permutations(Ticket) \cup Permutations(Worker)

\* An edit leaves no SLA, or a clock quiet, at risk or breached, in three mixtures.
Mixtures == {NoSla,
             [response |-> "pending", resolution |-> "pending"],
             [response |-> "at_risk", resolution |-> "pending"],
             [response |-> "breached", resolution |-> "at_risk"]}
==========================================================================
