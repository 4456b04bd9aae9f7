---------------------------- MODULE MCHeartbeat ----------------------------
(* Instances of Heartbeat for TLC: a gateway process with its loop and one   *)
(* requested pulse, and a second process with a loop on the same database.   *)
EXTENDS Heartbeat, TLC

CONSTANTS t1, t2, gateway, daemon, gatewayLoop, request, daemonLoop

MCEngine == {gateway, daemon}
MCPulse == {gatewayLoop, request, daemonLoop}
MCHost == gatewayLoop :> gateway @@ request :> gateway @@ daemonLoop :> daemon
MCRequested == {request}
=============================================================================
