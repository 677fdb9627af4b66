--------------------------- MODULE MCControlPanel ---------------------------
EXTENDS ControlPanel

MCKind == [h \in Hosts |-> [source |-> "ns", name |-> "other"]]
=============================================================================
