----------------------------- MODULE MCPortWalk -----------------------------
(* Every hinted port, and two ports nothing hints at.                      *)
EXTENDS PortWalk

MCPorts == {21, 22, 25, 53, 80, 110, 143, 443}
=============================================================================
