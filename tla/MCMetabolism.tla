---------------------------- MODULE MCMetabolism ----------------------------
(***************************************************************************)
(* Instances of Metabolism, with the thresholds of HypothalamusConfig and  *)
(* the cycle counts of the tests in monitoring.rs.                         *)
(***************************************************************************)
EXTENDS Metabolism

Vitals(cpu, memory, latency, errors) ==
    [cpu_usage |-> cpu, memory_usage |-> memory, latency_ms |-> latency, error_rate |-> errors]

\* Saturated and slow; failing, out of range; at either threshold, and next to
\* it; idle.
MCReadings ==
    {Vitals(100, 100, 150, 0), Vitals(130, 0, -1, 9), Vitals(100, 100, 100, 0),
     Vitals(25, 25, 100, 0), Vitals(25, 26, 0, 0), Vitals(0, 0, 0, 0)}

\* Saturated and slow, or idle.
BusyReadings == {Vitals(100, 100, 150, 0), Vitals(0, 0, 0, 0)}
=============================================================================
