----------------------------- MODULE MCReplay -----------------------------
(* Configurations of the verifier for TLC.                                 *)
EXTENDS Replay

Config(host, policy, configured, used) ==
  [host |-> host, policy |-> policy, configured |-> configured, used |-> used]

\* Verified after every tick and stopped on divergence; verified after every
\* second tick and then more often; an agent with the http capability; the
\* simulator with live and with deterministic hostcalls.
CheckedConfigs ==
  {Config("lab", "migrate", 1, {"receipt", "pay"}),
   Config("lab", "intensify", 2, {"receipt", "pay"}),
   Config("lab", "pause", 1, {"http"}),
   Config("sim", "log", 0, {"rand", "http"}),
   Config("det", "log", 0, {"clock", "receipt"})}
===========================================================================
