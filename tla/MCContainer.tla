---------------------------- MODULE MCContainer ------------------------------
(***************************************************************************)
(* An instance of Container for TLC: valid settings, one invalid interval  *)
(* of each kind, RUN_ONCE.                                                 *)
(***************************************************************************)
EXTENDS Container

Config(bad, once, m) == [bad |-> bad, once |-> once, metrics |-> m]

MCConfigs ==
    {Config({}, FALSE, FALSE), Config({}, TRUE, FALSE),
     Config({"heartbeat"}, FALSE, TRUE), Config({"metrics", "run"}, FALSE, TRUE),
     Config({"jitter"}, FALSE, FALSE)}
=============================================================================
