---------------------------- MODULE MCAlertPanel ----------------------------
(* Instances of AlertPanel for TLC. *)
EXTENDS AlertSampling

\* Two rules of different severity on one metric and one on another metric.
MCRules == <<[name |-> "warn", metric |-> "cpu", operator |-> ">=", threshold |-> 1,
              duration |-> 1, severity |-> "warning"],
             [name |-> "crit", metric |-> "cpu", operator |-> ">", threshold |-> 1,
              duration |-> 2, severity |-> "critical"],
             [name |-> "mem", metric |-> "mem", operator |-> "<=", threshold |-> 0,
              duration |-> 0, severity |-> "note"]>>
MCMetrics == {"cpu", "mem"}
MCLevels == 0..2
MCSecuritySeverities == {"critical", "warning"}

=============================================================================
