------------------------------ MODULE PortWalk ------------------------------
(***************************************************************************)
(* One host scanned to the end: getScanPort is asked, its answer is        *)
(* recorded in the port table, and it is asked again with what the table   *)
(* then holds, until it answers 0.  This is the life of a host in          *)
(* backend/scanner.go when no other request for it is in flight (Scanner   *)
(* models the general case).                                               *)
(***************************************************************************)
EXTENDS ScanPorts, Sequences, FiniteSets

(* The ports hinted at are all in the list `Ports`.                        *)
ASSUME WalkAssumption == {21, 25, 53, 80, 110, 143} \subseteq Ports

VARIABLES kind,      \* the host's source and the kind of name it has
          scanned,   \* its ports in the table
          probes,    \* the number of probes so far
          finished   \* TRUE when getScanPort has answered 0

vars == <<kind, scanned, probes, finished>>

TypeOK == /\ kind \in HostKinds
          /\ scanned \subseteq Ports
          /\ probes \in Nat
          /\ finished \in BOOLEAN

Init == /\ kind \in HostKinds
        /\ scanned = {}
        /\ probes = 0
        /\ finished = FALSE

(* The next port is chosen, scanned and recorded.                          *)
Probe == /\ \E port \in GetScanPort(kind, scanned) \ {NoPort} :
              scanned' = scanned \cup {port}
         /\ probes' = probes + 1
         /\ UNCHANGED <<kind, finished>>

(* getScanPort finds nothing left; the host is passed over from now on.    *)
GiveUp == /\ NoPort \in GetScanPort(kind, scanned)
          /\ finished' = TRUE
          /\ UNCHANGED <<kind, scanned, probes>>

Next == Probe \/ GiveUp

Spec == Init /\ [][Next]_vars /\ WF_vars(Next)

-----------------------------------------------------------------------------
(***************************************************************************)
(* The order the code is after, as the list of the ports that come before  *)
(* the random choice.  A name server called like a web or mail server has  *)
(* the hints of its name after port 53; a mail exchanger has none.         *)
(***************************************************************************)
NsHints == CASE kind.name = "www"   -> <<53, 80>>
             [] kind.name = "ftp"   -> <<53, 21>>
             [] kind.name = "mail"  -> <<53, 25, 110, 143>>
             [] kind.name = "other" -> <<53>>

NameHints == CASE kind.name = "www"   -> <<80>>
               [] kind.name = "ftp"   -> <<21>>
               [] kind.name = "mail"  -> <<25, 110, 143>>
               [] kind.name = "other" -> <<>>

Hints == CASE kind.source = "mx" -> <<25, 110, 143>>
           [] kind.source = "ns" -> NsHints
           [] kind.source \notin {"mx", "ns"} -> NameHints

(* Hinted ports are scanned in the order of the list, and no other port is *)
(* scanned before the list is used up: the if-chain of getScanPort, which  *)
(* tests sources, names and ports mixed, amounts to that list.             *)
HintsComeFirst ==
  \A i \in DOMAIN Hints :
    Hints[i] \notin scanned =>
      /\ \A j \in DOMAIN Hints : j > i => Hints[j] \notin scanned
      /\ \A p \in scanned : \E j \in DOMAIN Hints : Hints[j] = p

(* No port is probed twice, and 0 is answered only for a host whose ports  *)
(* are all in the table: the row (host, port) the result needs is always   *)
(* free, and a host is given up only when it is finished.                  *)
NeverTwice ==
  /\ probes = Cardinality(scanned)
  /\ finished => scanned = Ports

(* Every port of the list is scanned in the end, whatever the random       *)
(* choices are.                                                            *)
EveryPortScanned == <>(scanned = Ports)
=============================================================================
