----------------------------- MODULE ScanPorts -----------------------------
(***************************************************************************)
(* Which port of a host the scanner probes next: getScanPort of            *)
(* backend/scanner.go, as a pure operator.  The code picks one of the      *)
(* remaining ports at random where the host gives it no hint, so the       *)
(* operator returns the SET of the answers the code may give.              *)
(***************************************************************************)
EXTENDS Naturals

CONSTANT Ports          \* the port list `Ports`

(* Port 0 is getScanPort's way to say that there is nothing left to scan.  *)
NoPort == 0

ASSUME PortsAssumption == Ports \subseteq Nat /\ NoPort \notin Ports

(***************************************************************************)
(* What the code looks at in a host: where it came from, and which of the  *)
(* patterns wwwPat, ftpPat and mxPat its name matches.  The three patterns *)
(* are anchored at the start of the name and share no prefix, so at most   *)
(* one of them matches.                                                    *)
(***************************************************************************)
HostKinds == [source : {"user", "gen", "a", "mx", "ns"},
              name   : {"www", "ftp", "mail", "other"}]

(* The if-chain for mail servers: 25, else 110, else 143, that is, the      *)
(* lowest of the three that is not scanned yet.                            *)
MailPortsOffList == {25, 110, 587}    \* mutant: 587 is not in `Ports`
MailPorts == {25, 110, 143}

(* Mutant: the three tests are independent ifs.                            *)
NextMailPortAnyOrder(scanned) == MailPorts \ scanned

NextMailPort(scanned) ==
  LET left == MailPorts \ scanned
  IN  {p \in left : \A q \in left : p <= q}

(***************************************************************************)
(* The ports the host's source and name suggest, before the random choice. *)
(* A mail exchanger's name is not looked at; the name of a name server is, *)
(* once its port 53 is known.                                              *)
(***************************************************************************)
SuggestedPort(kind, scanned) ==
  CASE kind.source = "mx" -> NextMailPort(scanned)
    [] kind.source = "ns" /\ 53 \notin scanned -> {53}
    [] OTHER ->
         CASE kind.name = "www" -> {80} \ scanned
           [] kind.name = "ftp" -> {21} \ scanned
           [] kind.name = "mail" -> NextMailPort(scanned)
           [] OTHER -> {}

(* The random walk over Ports at the end of the function: the first index  *)
(* of a random permutation whose port is not scanned yet.                  *)
(* Mutant: the walk stops one short, and never reaches the greatest port.  *)
AnyUnscannedButLast(scanned) ==
  LET walked == {p \in Ports : \E q \in Ports : p < q}
  IN  IF walked \subseteq scanned THEN {NoPort} ELSE walked \ scanned

AnyUnscanned(scanned) ==
  IF Ports \subseteq scanned THEN {NoPort} ELSE Ports \ scanned

(* Mutant: the hints are given without a look at the ports scanned so far. *)
GetScanPortHintsOnly(kind, scanned) ==
  LET suggested == SuggestedPort(kind, {})
  IN  IF suggested # {} THEN suggested ELSE AnyUnscanned(scanned)

GetScanPort(kind, scanned) ==
  LET suggested == SuggestedPort(kind, scanned)
  IN  IF suggested # {} THEN suggested ELSE AnyUnscanned(scanned)
=============================================================================
