--------------------------- MODULE PortWalkProofs ---------------------------
(***************************************************************************)
(* Proofs about the walk over the ports of one host, for every finite or   *)
(* infinite list of ports that has the ports hinted at.                    *)
(*                                                                         *)
(* The if-chain of getScanPort is compared with the list of hints once, in *)
(* FirstHint; that the hints come first then follows for any list without  *)
(* repetitions.                                                            *)
(***************************************************************************)
EXTENDS PortWalk, FiniteSetTheorems, TLAPS

IInv == TypeOK /\ IsFiniteSet(scanned) /\ HintsComeFirst /\ NeverTwice

-----------------------------------------------------------------------------
LEMMA EightLists ==
  ASSUME kind \in HostKinds
  PROVE  Hints \in {<<25, 110, 143>>, <<53, 80>>, <<53, 21>>, <<53, 25, 110, 143>>,
                    <<53>>, <<80>>, <<21>>, <<>>}
BY DEF Hints, NsHints, NameHints, HostKinds

LEMMA HintsDiffer ==
  ASSUME kind \in HostKinds
  PROVE  /\ DOMAIN Hints \subseteq Nat
         /\ \A i, j \in DOMAIN Hints : Hints[i] = Hints[j] => i = j
<1>1. CASE Hints = <<25, 110, 143>>
  BY <1>1
<1>2. CASE Hints = <<53, 25, 110, 143>>
  BY <1>2
<1>3. CASE Hints \in {<<53, 80>>, <<53, 21>>, <<53>>, <<80>>, <<21>>, <<>>}
  BY <1>3
<1> QED
  BY <1>1, <1>2, <1>3, EightLists

-----------------------------------------------------------------------------
(* The if-chain for mail servers.                                          *)
LEMMA MailChain ==
  ASSUME NEW s
  PROVE  /\ \A p \in NextMailPort(s) :
              \/ p = 25 /\ 25 \notin s
              \/ p = 110 /\ 110 \notin s /\ 25 \in s
              \/ p = 143 /\ 143 \notin s /\ 25 \in s /\ 110 \in s
         /\ NextMailPort(s) = {} => {25, 110, 143} \subseteq s
<1>1. ASSUME NEW p \in NextMailPort(s)
      PROVE  \/ p = 25 /\ 25 \notin s
             \/ p = 110 /\ 110 \notin s /\ 25 \in s
             \/ p = 143 /\ 143 \notin s /\ 25 \in s /\ 110 \in s
  BY DEF NextMailPort, MailPorts
<1>2. CASE 25 \notin s
  <2>1. 25 \in NextMailPort(s)
    BY <1>2 DEF NextMailPort, MailPorts
  <2> QED
    BY <1>1, <2>1
<1>3. CASE 25 \in s /\ 110 \notin s
  <2>1. 110 \in NextMailPort(s)
    BY <1>3 DEF NextMailPort, MailPorts
  <2> QED
    BY <1>1, <2>1
<1>4. CASE 25 \in s /\ 110 \in s /\ 143 \notin s
  <2>1. 143 \in NextMailPort(s)
    BY <1>4 DEF NextMailPort, MailPorts
  <2> QED
    BY <1>1, <2>1
<1> QED
  BY <1>1, <1>2, <1>3, <1>4

First(p) ==
  \E i \in DOMAIN Hints :
    /\ Hints[i] = p
    /\ \A j \in DOMAIN Hints : j < i => Hints[j] \in scanned

UsedUp == \A i \in DOMAIN Hints : Hints[i] \in scanned

(* A suggested port is the first of the list that is not scanned yet, and  *)
(* when there is no suggestion the list is used up.                        *)
LEMMA FirstHint ==
  ASSUME kind \in HostKinds
  PROVE  /\ \A p \in SuggestedPort(kind, scanned) : First(p)
         /\ SuggestedPort(kind, scanned) = {} => UsedUp
<1> DEFINE S == SuggestedPort(kind, scanned)
           Mail == NextMailPort(scanned)
<1>1. ASSUME S = Mail, Hints = <<25, 110, 143>>
      PROVE  (\A p \in S : First(p)) /\ (S = {} => UsedUp)
  <2>1. DOMAIN Hints = {1, 2, 3} /\ Hints[1] = 25 /\ Hints[2] = 110 /\ Hints[3] = 143
    BY <1>1
  <2> QED
    BY <1>1, <2>1, MailChain DEF First, UsedUp
<1>2. ASSUME NEW q, S = {q} \ scanned, Hints = <<q>>
      PROVE  (\A p \in S : First(p)) /\ (S = {} => UsedUp)
  <2>1. DOMAIN Hints = {1} /\ Hints[1] = q
    BY <1>2
  <2> QED
    BY <1>2, <2>1 DEF First, UsedUp
<1>3. CASE kind.source = "mx"
  BY <1>1, <1>3 DEF SuggestedPort, Hints, NsHints, NameHints
<1>4. CASE kind.source = "ns" /\ 53 \notin scanned
  <2>1. 1 \in DOMAIN Hints /\ Hints[1] = 53 /\ ~\E j \in DOMAIN Hints : j < 1
    <3>1. Hints \in {<<53, 80>>, <<53, 21>>, <<53>>, <<53, 25, 110, 143>>}
      BY <1>4 DEF HostKinds, Hints, NsHints, NameHints
    <3> QED
      BY <3>1
  <2>2. S = {53}
    BY <1>4 DEF SuggestedPort
  <2> QED
    BY <2>1, <2>2 DEF First
<1>5. CASE kind.source = "ns" /\ 53 \in scanned
  <2>1. ASSUME NEW q, S = {q} \ scanned, Hints = <<53, q>>
        PROVE  (\A p \in S : First(p)) /\ (S = {} => UsedUp)
    <3>1. DOMAIN Hints = {1, 2} /\ Hints[1] = 53 /\ Hints[2] = q
      BY <2>1
    <3> QED
      BY <1>5, <2>1, <3>1 DEF First, UsedUp
  <2>2. CASE kind.name = "www"
    BY <1>5, <2>1, <2>2 DEF SuggestedPort, Hints, NsHints, NameHints
  <2>3. CASE kind.name = "ftp"
    BY <1>5, <2>1, <2>3 DEF SuggestedPort, Hints, NsHints, NameHints
  <2>4. CASE kind.name = "mail"
    <3>1. Hints = <<53, 25, 110, 143>> /\ S = Mail
      BY <1>5, <2>4 DEF SuggestedPort, Hints, NsHints, NameHints
    <3>2. /\ DOMAIN Hints = {1, 2, 3, 4}
          /\ Hints[1] = 53 /\ Hints[2] = 25 /\ Hints[3] = 110 /\ Hints[4] = 143
      BY <3>1
    <3> QED
      BY <1>5, <3>1, <3>2, MailChain DEF First, UsedUp
  <2>5. CASE kind.name = "other"
    <3>1. Hints = <<53>> /\ S = {}
      BY <1>5, <2>5 DEF SuggestedPort, Hints, NsHints, NameHints
    <3> QED
      BY <1>5, <3>1 DEF UsedUp
  <2> QED
    BY <2>2, <2>3, <2>4, <2>5 DEF HostKinds
<1>6. CASE kind.source \notin {"mx", "ns"}
  <2>1. CASE kind.name = "www"
    BY <1>2, <1>6, <2>1 DEF SuggestedPort, Hints, NsHints, NameHints
  <2>2. CASE kind.name = "ftp"
    BY <1>2, <1>6, <2>2 DEF SuggestedPort, Hints, NsHints, NameHints
  <2>3. CASE kind.name = "mail"
    BY <1>1, <1>6, <2>3 DEF SuggestedPort, Hints, NsHints, NameHints
  <2>4. CASE kind.name = "other"
    <3>1. Hints = <<>> /\ S = {}
      BY <1>6, <2>4 DEF SuggestedPort, Hints, NsHints, NameHints
    <3> QED
      BY <3>1 DEF UsedUp
  <2> QED
    BY <2>1, <2>2, <2>3, <2>4 DEF HostKinds
<1> QED
  BY <1>3, <1>4, <1>5, <1>6

-----------------------------------------------------------------------------
(* A port that is chosen is in the list and not scanned yet.               *)
LEMMA FreshPort ==
  ASSUME kind \in HostKinds, NEW p \in GetScanPort(kind, scanned) \ {NoPort}
  PROVE  p \in Ports \ scanned
<1>1. NextMailPort(scanned) \subseteq Ports \ scanned
  BY WalkAssumption, MailChain
<1>2. SuggestedPort(kind, scanned) \subseteq Ports \ scanned
  BY <1>1, WalkAssumption DEF SuggestedPort, HostKinds
<1> QED
  BY <1>2 DEF GetScanPort, AnyUnscanned

(* 0 is answered only when nothing is left.                                *)
LEMMA NothingLeft ==
  ASSUME kind \in HostKinds, NoPort \in GetScanPort(kind, scanned)
  PROVE  Ports \subseteq scanned
<1>1. NoPort \notin NextMailPort(scanned)
  BY WalkAssumption, PortsAssumption, MailChain
<1>2. NoPort \notin SuggestedPort(kind, scanned)
  BY <1>1, WalkAssumption, PortsAssumption DEF SuggestedPort, HostKinds
<1> QED
  BY <1>2, PortsAssumption DEF GetScanPort, AnyUnscanned

LEMMA WalkStep ==
  ASSUME IInv, [Next]_vars
  PROVE  IInv'
<1>0. TypeOK /\ IsFiniteSet(scanned) /\ HintsComeFirst /\ NeverTwice
  BY DEF IInv
<1>1. CASE Probe
  <2>1. PICK p \in GetScanPort(kind, scanned) \ {NoPort} :
          scanned' = scanned \cup {p}
    BY <1>1 DEF Probe
  <2>2. p \in Ports \ scanned
    BY <1>0, <2>1, FreshPort DEF TypeOK
  <2>3. /\ IsFiniteSet(scanned')
        /\ Cardinality(scanned') = Cardinality(scanned) + 1
    BY <1>0, <2>1, <2>2, FS_AddElement
  <2>4. ~finished
    BY <1>0, <2>2 DEF NeverTwice, TypeOK
  <2>5. TypeOK' /\ NeverTwice'
    BY <1>0, <1>1, <2>1, <2>2, <2>3, <2>4 DEF Probe, TypeOK, NeverTwice
  <2>6. Hints' = Hints
    BY <1>1 DEF Probe, Hints, NsHints, NameHints
  <2>7. First(p) \/ UsedUp
    BY <1>0, <2>1, FirstHint DEF GetScanPort, TypeOK
  <2>8. CASE First(p)
    <3>1. PICK i \in DOMAIN Hints : /\ Hints[i] = p
                                    /\ \A j \in DOMAIN Hints : j < i => Hints[j] \in scanned
      BY <2>8 DEF First
    <3>2. /\ DOMAIN Hints \subseteq Nat
          /\ \A k, j \in DOMAIN Hints : Hints[k] = Hints[j] => k = j
      BY <1>0, HintsDiffer DEF TypeOK
    <3>3. HintsComeFirst'
      BY <1>0, <2>1, <2>6, <3>1, <3>2 DEF HintsComeFirst
    <3> QED
      BY <2>3, <2>5, <3>3 DEF IInv
  <2>9. CASE UsedUp
    <3>1. HintsComeFirst'
      BY <2>1, <2>6, <2>9 DEF HintsComeFirst, UsedUp
    <3> QED
      BY <2>3, <2>5, <3>1 DEF IInv
  <2> QED
    BY <2>7, <2>8, <2>9
<1>2. ASSUME kind' = kind, scanned' = scanned, probes' = probes,
             finished' \in BOOLEAN, finished' => Ports \subseteq scanned
      PROVE  IInv'
  <2>1. Hints' = Hints
    BY <1>2 DEF Hints, NsHints, NameHints
  <2> QED
    BY <1>0, <1>2, <2>1 DEF IInv, TypeOK, HintsComeFirst, NeverTwice
<1>3. CASE GiveUp
  BY <1>0, <1>2, <1>3, NothingLeft DEF GiveUp, TypeOK
<1>4. CASE UNCHANGED vars
  BY <1>0, <1>2, <1>4 DEF vars, TypeOK, NeverTwice
<1> QED
  BY <1>1, <1>3, <1>4 DEF Next

-----------------------------------------------------------------------------
(* All parts of IInv hold along every walk.                                *)
THEOREM Invariance == Spec => []IInv
<1>1. Init => IInv
  <2>1. IsFiniteSet({}) /\ Cardinality({}) = 0
    BY FS_EmptySet
  <2>2. Init => TypeOK /\ NeverTwice
    <3>1. Init => probes = Cardinality(scanned)
      BY <2>1, Zenon DEF Init
    <3>2. Init => NeverTwice
      BY <3>1, Zenon DEF Init, NeverTwice
    <3>3. Init => probes \in Nat /\ scanned \subseteq Ports
      BY DEF Init
    <3>4. Init => TypeOK
      BY <3>3, Zenon DEF Init, TypeOK
    <3> QED
      BY <3>2, <3>4
  <2>3. Init => HintsComeFirst
    BY DEF Init, HintsComeFirst
  <2>4. Init => IsFiniteSet(scanned)
    <3>1. Init => scanned = {}
      BY DEF Init
    <3> QED
      BY <2>1, <3>1
  <2> QED
    BY <2>2, <2>3, <2>4 DEF IInv
<1>2. IInv /\ [Next]_vars => IInv'
  BY WalkStep
<1> QED
  BY <1>1, <1>2, PTL DEF Spec

(* The variables keep their types: every port that is probed is one of the *)
(* list (scanner.go:75).                                                  *)
THEOREM Typing == Spec => []TypeOK
BY Invariance, PTL DEF IInv

(* The if-chain of getScanPort probes the ports a host's source and name   *)
(* suggest in the order of one list, and all others after them             *)
(* (scanner.go:75).                                                       *)
THEOREM HintsFirst == Spec => []HintsComeFirst
BY Invariance, PTL DEF IInv

(* No port is probed twice, and 0 is answered only when every port of the  *)
(* list is in the table (scanner.go:75).                                  *)
THEOREM Once == Spec => []NeverTwice
BY Invariance, PTL DEF IInv
=============================================================================
