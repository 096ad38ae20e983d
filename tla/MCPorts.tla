------------------------------ MODULE MCPorts ------------------------------
(* Small instances of Ports for TLC.                                       *)
EXTENDS Ports

\* Two interfaces whose names have different hashes.
MCNames == {"eth0", "eth1"}
MCHash == [n \in MCNames |-> IF n = "eth0" THEN 1 ELSE 2]
=============================================================================
