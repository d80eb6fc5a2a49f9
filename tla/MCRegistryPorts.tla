-------------------------- MODULE MCRegistryPorts --------------------------
(* Instances of RegistryPorts for TLC. *)
EXTENDS RegistryPorts

NoRequests == {NoPort}
Explicit   == {NoPort, 1}
=============================================================================
