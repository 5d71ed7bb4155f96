---------------------------- MODULE MCTelemetry ----------------------------
(* An instance of Telemetry for TLC.                                        *)
EXTENDS Telemetry, TLC

CONSTANTS c1, k1, k2

MCClients == {c1}
MCGpuOf == c1 :> 1
MCLine == [nvml_up |-> 2, gpu |-> 3, client |-> 3, nvml_used |-> 3,
           compute |-> 3, scheduler |-> 2, event |-> 1]
MCConns == {k1, k2}
MCRequests == k1 :> {"metrics", "other"} @@ k2 :> {"healthz"}
=============================================================================
