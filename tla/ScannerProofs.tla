--------------------------- MODULE ScannerProofs ---------------------------
(***************************************************************************)
(* Proofs about the scanner for every set of hosts, ports, replies and     *)
(* workers, every number of workers and every combination of faults.       *)
(*                                                                         *)
(* TypeOK alone is not inductive: cntDec could take the counter below      *)
(* zero, and a worker that sends a result must have a request.  CountExact *)
(* and Held say that this does not happen, and the three together are the  *)
(* inductive invariant IInv.  The stale copies of table rows               *)
(* (SnapshotsSound) and the refinement of the Ledger are proved on top.    *)
(***************************************************************************)
EXTENDS Scanner, SequenceFacts, TLAPS, FiniteSetTheorems, SequenceTheorems

IInv == TypeOK /\ Held /\ CountExact

-----------------------------------------------------------------------------
(* The answer of getScanPort is a port of the list or 0.                   *)
LEMMA PortFromList ==
  ASSUME NEW h \in Hosts, NEW s \in SUBSET Ports,
         NEW p \in GetScanPort(Kind[h], s)
  PROVE  p \in Ports \cup {NoPort}
BY HintsAssumption DEF GetScanPort, AnyUnscanned

(* HostGetRandom returns hosts.                                            *)
LEMMA WindowOfHosts ==
  ASSUME hostTbl \in Seq(Hosts)
  PROVE  HostGetRandom \subseteq Seq(Hosts)
<1> SUFFICES ASSUME NEW i \in DOMAIN hostTbl, NEW j \in 1 .. Len(hostTbl)
             PROVE  SubSeq(hostTbl, i, j) \in Seq(Hosts)
  <2>1. ASSUME NEW i \in DOMAIN hostTbl
        PROVE  (IF i + WorkerCnt - 1 < Len(hostTbl)
                THEN i + WorkerCnt - 1 ELSE Len(hostTbl)) \in 1 .. Len(hostTbl)
    BY <2>1, ScannerAssumption
  <2> QED
    BY <2>1 DEF HostGetRandom
<1>1. \A k \in i .. j : hostTbl[k] \in Hosts
  OBVIOUS
<1> QED
  BY <1>1, SubSeqProperties

(* What one pass of GET_HOST leaves in Loop's variables: it goes on        *)
(* searching, or it has found a request.                                   *)
LEMMA SearchStep ==
  ASSUME TypeOK, LoopGet
  PROVE  /\ portmap' \subseteq Ports
         /\ \/ UNCHANGED <<loop, req>>
            \/ loop' = "select" /\ req' \in Requests
<1>1. Head(hostQ) \in Targets
  BY DEF LoopGet, TypeOK
<1>2. Head(hostQ).host \in Hosts /\ KnownPorts(Head(hostQ)) \in SUBSET Ports
  BY <1>1 DEF KnownPorts, Targets, TypeOK
<1>3. PICK port \in GetScanPort(Kind[Head(hostQ).host],
                               KnownPorts(Head(hostQ))) :
         \/ /\ portmap' = KnownPorts(Head(hostQ))
            /\ UNCHANGED <<loop, req>>
         \/ /\ port # NoPort
            /\ req' = [host |-> Head(hostQ).host, port |-> port]
            /\ portmap' = {}
            /\ loop' = "select"
  BY DEF LoopGet
<1>4. port \in Ports \cup {NoPort}
  BY <1>2, PortFromList
<1> QED
  BY <1>2, <1>3, <1>4 DEF Requests

(* The feeder leaves its inner loop when it has no host left to offer.     *)
LEMMA BatchStep ==
  ASSUME TypeOK, batch # <<>>, NextOfBatch
  PROVE  /\ batch' \in Seq(Hosts)
         /\ feeder' \in {"ports", "fetch", "exit"}
         /\ feeder' = "ports" => batch' # <<>>
<1>1. batch \in Seq(Hosts) /\ batch' = Tail(batch)
  BY DEF TypeOK, NextOfBatch
<1>2. Len(batch) # 1 => Len(Tail(batch)) # 0
  BY <1>1
<1>3. Len(batch) # 1 => batch' # <<>>
  <2>1. Len(<<>>) = 0
    OBVIOUS
  <2> QED
    BY ONLY <1>1, <1>2, <2>1
<1>4. feeder' = IF Len(batch) = 1 THEN FeederHead ELSE "ports"
  BY DEF NextOfBatch
<1>5. batch' \in Seq(Hosts)
  BY <1>1
<1> QED
  BY <1>3, <1>4, <1>5 DEF FeederHead

-----------------------------------------------------------------------------
LEMMA TypeStep ==
  ASSUME IInv, [Next]_vars
  PROVE  TypeOK'
<1>0. TypeOK /\ Held /\ CountExact
  BY DEF IInv
<1> USE <1>0, ScannerAssumption
    DEF TypeOK, Counted, stateVars, loopVars, feedVars, workVars, database
<1>1. CASE Start
  BY <1>1 DEF Start, NoWorkers
<1>2. CASE FeederOpen
  BY <1>2 DEF FeederOpen, FeederHead
<1>3. CASE FeederFetch
  <2>1. batch' \in HostGetRandom \/ batch' = <<>>
    BY <1>3 DEF FeederFetch
  <2>2. HostGetRandom \subseteq Seq(Hosts) /\ <<>> \in Seq(Hosts)
    BY WindowOfHosts
  <2>3. batch' \in Seq(Hosts)
    BY ONLY <2>1, <2>2
  <2> QED
    BY <1>3, <2>3 DEF FeederFetch, FeederHead
<1>4. CASE FeederPorts
  <2>1. batch # <<>>
    BY <1>4 DEF FeederPorts, Held
  <2>2. PortsOf(Head(batch)) \subseteq Ports
    BY DEF PortsOf, Results
  <2>3. target' \in Targets \cup {Nil}
    BY <1>4, <2>1, <2>2 DEF FeederPorts, Targets
  <2>4. CASE NextOfBatch
    BY <1>4, <2>1, <2>3, <2>4, BatchStep DEF FeederPorts
  <2>5. CASE feeder' = "send" /\ UNCHANGED batch
    BY <1>4, <2>3, <2>5 DEF FeederPorts
  <2> QED
    BY <1>4, <2>4, <2>5 DEF FeederPorts
<1>5. CASE FeederSend
  <2>1. batch # <<>> /\ target \in Targets
    BY <1>5 DEF FeederSend, Held
  <2> QED
    BY <1>5, <2>1, BatchStep DEF FeederSend
<1>6. CASE LoopGet
  BY <1>6, SearchStep DEF LoopGet
<1>7. CASE LoopDispatch
  BY <1>7 DEF LoopDispatch, Held
<1>8. CASE LoopResult
  BY <1>8 DEF LoopResult, PortAdd
<1>9. CASE LoopShutdown
  <2>1. RC' \in Seq(CtlMsgs)
    BY <1>9 DEF LoopShutdown, LoopReceives
  <2> QED
    BY <1>9, <2>1 DEF LoopShutdown, LoopReceives
<1>10. CASE LoopStop
  BY <1>10 DEF LoopStop, LoopReceives
<1>11. CASE LoopSpawn
  BY <1>11 DEF LoopSpawn, LoopReceives
<1>12. CASE LoopIgnore
  BY <1>12 DEF LoopIgnore, LoopReceives
<1>13. CASE LoopForward
  BY <1>13 DEF LoopForward
<1>14. ASSUME NEW h \in Hosts, HostArrives(h) PROVE TypeOK'
  BY <1>14 DEF HostArrives
<1>15. ASSUME NEW w \in Workers, WorkerBegin(w) PROVE TypeOK'
  BY <1>15 DEF WorkerBegin, WorkerHead
<1>16. ASSUME NEW w \in Workers, WorkerStop(w) PROVE TypeOK'
  BY <1>16 DEF WorkerStop
<1>17. ASSUME NEW w \in Workers, WorkerTake(w) PROVE TypeOK'
  BY <1>17 DEF WorkerTake
<1>18. ASSUME NEW w \in Workers, WorkerPulse(w) PROVE TypeOK'
  BY <1>18 DEF WorkerPulse
<1>19. ASSUME NEW w \in Workers, WorkerScan(w) PROVE TypeOK'
  BY <1>19 DEF WorkerScan
<1>20. ASSUME NEW w \in Workers, WorkerSend(w) PROVE TypeOK'
  BY <1>20 DEF WorkerSend, WorkerHead, Held, Requests, Results
<1>21. ASSUME NEW w \in Workers, WorkerExit(w) PROVE TypeOK'
  <2>1. w \in {v \in Workers : worker[v] \in Counted}
    BY <1>21 DEF WorkerExit
  <2>2. started \in Nat \ {0}
    BY <2>1, FS_EmptySet, FS_Subset, FS_CardinalityType DEF CountExact
  <2> QED
    BY <1>21, <2>2 DEF WorkerExit
<1>22. ASSUME NEW msg \in CtlMsgs, SendCtl(msg) PROVE TypeOK'
  BY <1>22 DEF SendCtl
<1>23. CASE Crash
  <2>1. \A S : <<>> \in Seq(S)
    OBVIOUS
  <2>2. /\ worker' \in [Workers -> Counted \cup {"none", "born"}]
        /\ job' \in [Workers -> Requests \cup {Nil}]
    BY <1>23 DEF Crash, NoWorkers, NoJobs
  <2>3. hostTbl' \in Seq(Hosts) /\ portTbl' \subseteq Results
    BY <1>23 DEF Crash
  <2> QED
    BY <1>23, <2>1, <2>2, <2>3 DEF Crash
<1>24. CASE UNCHANGED vars
  BY <1>24 DEF vars
<1> QED
  BY <1>1, <1>2, <1>3, <1>4, <1>5, <1>6, <1>7, <1>8, <1>9, <1>10,
     <1>11, <1>12, <1>13, <1>14, <1>15, <1>16, <1>17, <1>18, <1>19, <1>20,
     <1>21, <1>22, <1>23, <1>24
     DEF Next, Step, Feeder, Loop, Control, Worker

LEMMA HeldStep ==
  ASSUME TypeOK, Held, [Next]_vars
  PROVE  Held'
<1> USE ScannerAssumption
    DEF TypeOK, Held, stateVars, loopVars, feedVars, workVars, database
<1>1. CASE Start
  BY <1>1 DEF Start, NoWorkers
<1>2. CASE FeederOpen
  BY <1>2 DEF FeederOpen, FeederHead
<1>3. CASE FeederFetch
  BY <1>3 DEF FeederFetch, FeederHead
<1>4. CASE FeederPorts
  <2>1. batch # <<>>
    BY <1>4 DEF FeederPorts
  <2>2. [host |-> Head(batch), ports |-> PortsOf(Head(batch))] \in Targets
    BY <2>1 DEF Targets, PortsOf, Results
  <2>3. CASE NextOfBatch
    BY <1>4, <2>1, <2>3, BatchStep DEF FeederPorts
  <2>4. CASE feeder' = "send" /\ UNCHANGED batch
    BY <1>4, <2>1, <2>2, <2>4 DEF FeederPorts, NextOfBatch, FeederHead
  <2> QED
    BY <1>4, <2>3, <2>4 DEF FeederPorts
<1>5. CASE FeederSend
  <2>1. batch # <<>>
    BY <1>5 DEF FeederSend
  <2> QED
    BY <1>5, <2>1, BatchStep DEF FeederSend
<1>6. CASE LoopGet
  BY <1>6, SearchStep DEF LoopGet
<1>7. CASE LoopDispatch
  BY <1>7 DEF LoopDispatch
<1>8. CASE LoopResult
  BY <1>8 DEF LoopResult
<1>9. CASE LoopShutdown
  BY <1>9 DEF LoopShutdown, LoopReceives
<1>10. CASE LoopStop
  BY <1>10 DEF LoopStop, LoopReceives
<1>11. CASE LoopSpawn
  BY <1>11 DEF LoopSpawn, LoopReceives
<1>12. CASE LoopIgnore
  BY <1>12 DEF LoopIgnore, LoopReceives
<1>13. CASE LoopForward
  BY <1>13 DEF LoopForward
<1>14. ASSUME NEW h \in Hosts, HostArrives(h) PROVE Held'
  BY <1>14 DEF HostArrives
<1>15. ASSUME NEW w \in Workers, WorkerBegin(w) PROVE Held'
  BY <1>15 DEF WorkerBegin, WorkerHead
<1>16. ASSUME NEW w \in Workers, WorkerStop(w) PROVE Held'
  BY <1>16 DEF WorkerStop
<1>17. ASSUME NEW w \in Workers, WorkerTake(w) PROVE Held'
  <2>1. Head(scanQ) \in Requests
    BY <1>17 DEF WorkerTake
  <2> QED
    BY <1>17, <2>1 DEF WorkerTake
<1>18. ASSUME NEW w \in Workers, WorkerPulse(w) PROVE Held'
  BY <1>18 DEF WorkerPulse
<1>19. ASSUME NEW w \in Workers, WorkerScan(w) PROVE Held'
  BY <1>19 DEF WorkerScan
<1>20. ASSUME NEW w \in Workers, WorkerSend(w) PROVE Held'
  BY <1>20 DEF WorkerSend, WorkerHead
<1>21. ASSUME NEW w \in Workers, WorkerExit(w) PROVE Held'
  BY <1>21 DEF WorkerExit
<1>22. ASSUME NEW msg \in CtlMsgs, SendCtl(msg) PROVE Held'
  BY <1>22 DEF SendCtl
<1>23. CASE Crash
  BY <1>23 DEF Crash, NoWorkers, NoJobs
<1>24. CASE UNCHANGED vars
  BY <1>24 DEF vars
<1> QED
  BY <1>1, <1>2, <1>3, <1>4, <1>5, <1>6, <1>7, <1>8, <1>9, <1>10,
     <1>11, <1>12, <1>13, <1>14, <1>15, <1>16, <1>17, <1>18, <1>19, <1>20,
     <1>21, <1>22, <1>23, <1>24
     DEF Next, Step, Feeder, Loop, Control, Worker

LEMMA CountStep ==
  ASSUME TypeOK, Held, CountExact, [Next]_vars
  PROVE  CountExact'
<1> DEFINE C == {v \in Workers : worker[v] \in Counted}
<1>0. IsFiniteSet(C) /\ Cardinality(C) \in Nat
  BY ScannerAssumption, FS_Subset, FS_CardinalityType
<1> USE DEF TypeOK, CountExact, Counted,
            stateVars, loopVars, feedVars, workVars, database
<1>1. CASE Start
  BY <1>1 DEF Start, NoWorkers, Held
<1>2. CASE FeederOpen
  BY <1>2 DEF FeederOpen, FeederHead
<1>3. CASE FeederFetch
  BY <1>3 DEF FeederFetch, FeederHead
<1>4. CASE FeederPorts
  BY <1>4 DEF FeederPorts, NextOfBatch, FeederHead
<1>5. CASE FeederSend
  BY <1>5 DEF FeederSend, NextOfBatch, FeederHead
<1>6. CASE LoopGet
  BY <1>6 DEF LoopGet
<1>7. CASE LoopDispatch
  BY <1>7 DEF LoopDispatch
<1>8. CASE LoopResult
  BY <1>8 DEF LoopResult
<1>9. CASE LoopShutdown
  BY <1>9 DEF LoopShutdown, LoopReceives
<1>10. CASE LoopStop
  BY <1>10 DEF LoopStop, LoopReceives
<1>11. CASE LoopSpawn
  BY <1>11 DEF LoopSpawn, LoopReceives
<1>12. CASE LoopIgnore
  BY <1>12 DEF LoopIgnore, LoopReceives
<1>13. CASE LoopForward
  BY <1>13 DEF LoopForward
<1>14. ASSUME NEW h \in Hosts, HostArrives(h) PROVE CountExact'
  BY <1>14 DEF HostArrives
<1>15. ASSUME NEW w \in Workers, WorkerBegin(w) PROVE CountExact'
  <2>1. C' = C \cup {w} /\ w \notin C
    BY <1>15 DEF WorkerBegin, WorkerHead
  <2>2. Cardinality(C \cup {w}) = Cardinality(C) + 1
    BY <1>0, <2>1, FS_AddElement
  <2> QED
    BY <1>15, <2>1, <2>2 DEF WorkerBegin
<1>16. ASSUME NEW w \in Workers, WorkerStop(w) PROVE CountExact'
  BY <1>16 DEF WorkerStop
<1>17. ASSUME NEW w \in Workers, WorkerTake(w) PROVE CountExact'
  BY <1>17 DEF WorkerTake
<1>18. ASSUME NEW w \in Workers, WorkerPulse(w) PROVE CountExact'
  BY <1>18 DEF WorkerPulse
<1>19. ASSUME NEW w \in Workers, WorkerScan(w) PROVE CountExact'
  BY <1>19 DEF WorkerScan
<1>20. ASSUME NEW w \in Workers, WorkerSend(w) PROVE CountExact'
  BY <1>20 DEF WorkerSend, WorkerHead
<1>21. ASSUME NEW w \in Workers, WorkerExit(w) PROVE CountExact'
  <2>1. C' = C \ {w} /\ w \in C
    BY <1>21 DEF WorkerExit
  <2>2. Cardinality(C \ {w}) = Cardinality(C) - 1
    BY <1>0, <2>1, FS_RemoveElement
  <2> QED
    BY <1>21, <2>1, <2>2 DEF WorkerExit
<1>22. ASSUME NEW msg \in CtlMsgs, SendCtl(msg) PROVE CountExact'
  BY <1>22 DEF SendCtl
<1>23. CASE Crash
  <2>1. C' = {}
    BY <1>23 DEF Crash, NoWorkers
  <2> QED
    BY <1>23, <2>1, FS_EmptySet DEF Crash
<1>24. CASE UNCHANGED vars
  BY <1>24 DEF vars
<1> QED
  BY <1>1, <1>2, <1>3, <1>4, <1>5, <1>6, <1>7, <1>8, <1>9, <1>10,
     <1>11, <1>12, <1>13, <1>14, <1>15, <1>16, <1>17, <1>18, <1>19, <1>20,
     <1>21, <1>22, <1>23, <1>24
     DEF Next, Step, Feeder, Loop, Control, Worker

-----------------------------------------------------------------------------
LEMMA InitIInv == Init => IInv
<1>1. Init => TypeOK
  <2> SUFFICES ASSUME Init PROVE TypeOK
    OBVIOUS
  <2>1. \A S : <<>> \in Seq(S)
    OBVIOUS
  <2>2. /\ worker \in [Workers -> Counted \cup {"none", "born"}]
        /\ job \in [Workers -> Requests \cup {Nil}]
    BY DEF Init, NoWorkers, NoJobs
  <2> QED
    BY <2>1, <2>2 DEF Init, TypeOK
<1>2. Init => Held
  BY DEF Init, Held, NoWorkers, NoJobs
<1>3. Init => CountExact
  <2> SUFFICES ASSUME Init PROVE CountExact
    OBVIOUS
  <2>1. {w \in Workers : worker[w] \in Counted} = {}
    BY DEF Init, NoWorkers, Counted
  <2> QED
    BY <2>1, FS_EmptySet DEF Init, CountExact
<1> QED
  BY <1>1, <1>2, <1>3 DEF IInv

(* The variables of the scanner keep their types, Count() is the number of *)
(* workers between cntInc and cntDec, and every goroutine holds what its   *)
(* next step needs, whatever messages, crashes and failing queries occur.  *)
THEOREM Invariance == Spec => []IInv
<1>1. Init => IInv
  BY InitIInv
<1>2. IInv /\ [Next]_vars => IInv'
  BY TypeStep, HeldStep, CountStep DEF IInv
<1> QED
  BY <1>1, <1>2, PTL DEF Spec

(* TypeOK is an invariant.                                                 *)
THEOREM Typing == Spec => []TypeOK
BY Invariance, PTL DEF IInv

(* Count() is exact (scanner.go:188).                                      *)
THEOREM Counting == Spec => []CountExact
BY Invariance, PTL DEF IInv

(* Workers, Loop and feeder hold what their next step takes for granted.   *)
THEOREM Holding == Spec => []Held
BY Invariance, PTL DEF IInv

-----------------------------------------------------------------------------
(* No step of the scanner takes a row from the port table.                 *)
LEMMA RowsGrow == [Next]_vars => portTbl \subseteq portTbl'
<1> USE DEF stateVars, loopVars, feedVars, workVars, database
<1>1. LoopResult => portTbl \subseteq portTbl'
  BY DEF LoopResult, PortAdd
<1>2. Next /\ ~LoopResult => UNCHANGED portTbl
  BY DEF Next, Step, Start, Feeder, FeederOpen, FeederFetch, FeederPorts,
         FeederSend, Loop, LoopGet, LoopDispatch, Control, LoopReceives,
         LoopShutdown, LoopStop, LoopSpawn, LoopIgnore, LoopForward, Worker,
         WorkerBegin, WorkerStop, WorkerTake, WorkerPulse, WorkerScan,
         WorkerSend, WorkerExit, HostArrives, SendCtl, Crash
<1> QED
  BY <1>1, <1>2 DEF vars

LEMMA SnapshotStep ==
  ASSUME TypeOK, Held, SnapshotsSound, [Next]_vars
  PROVE  SnapshotsSound'
<1> USE DEF stateVars, loopVars, feedVars, workVars, database
<1>1. \A h : PortsOf(h) \subseteq PortsOf(h)'
  BY RowsGrow DEF PortsOf
<1>2. \A h, p : Recorded(h, p) => Recorded(h, p)'
  BY RowsGrow DEF Recorded
<1>3. CASE UNCHANGED <<hostQ, target, portmap>>
  BY <1>1, <1>2, <1>3 DEF SnapshotsSound
<1>4. CASE FeederPorts
  <2>1. UNCHANGED <<hostQ, portmap, portTbl>>
    BY <1>4 DEF FeederPorts
  <2>2. \/ target' = target
        \/ target' = [host |-> Head(batch), ports |-> PortsOf(Head(batch))]
    BY <1>4 DEF FeederPorts
  <2> QED
    BY <1>1, <1>2, <2>1, <2>2 DEF SnapshotsSound
<1>5. CASE FeederSend
  <2>1. target \in Targets /\ hostQ \in Seq(Targets)
    BY <1>5 DEF FeederSend, Held, TypeOK
  <2>2. Range(hostQ') = Range(hostQ) \cup {target}
    BY <1>5, <2>1, RangeOfAppend DEF FeederSend
  <2>3. target' = Nil /\ portmap' = portmap
    BY <1>5 DEF FeederSend
  <2>4. target # Nil
    BY <1>5 DEF FeederSend, Held
  <2> QED
    BY <1>1, <1>2, <2>2, <2>3, <2>4 DEF SnapshotsSound
<1>6. CASE LoopGet
  <2>1. hostQ \in Seq(Targets) /\ hostQ # <<>>
    BY <1>6 DEF LoopGet, TypeOK
  <2>2. Head(hostQ) \in Range(hostQ) /\ Range(hostQ') \subseteq Range(hostQ)
    BY <1>6, <2>1, RangeOfTail DEF LoopGet
  <2>3. Head(hostQ).host \in Hosts
    <3>1. Head(hostQ) \in Targets
      BY <2>1
    <3> QED
      BY <3>1 DEF Targets
  <2>4. target' = target
    BY <1>6 DEF LoopGet
  <2>5. portmap' \subseteq portmap \cup Head(hostQ).ports
    BY <1>6 DEF LoopGet, KnownPorts
  <2>6. \A p \in Head(hostQ).ports : Recorded(Head(hostQ).host, p)
    BY <2>2 DEF SnapshotsSound, PortsOf, Recorded
  <2> QED
    BY <1>1, <1>2, <2>2, <2>3, <2>4, <2>5, <2>6 DEF SnapshotsSound
<1>7. CASE Crash
  <2>1. hostQ' = <<>> /\ target' = Nil /\ portmap' = {}
    BY <1>7 DEF Crash
  <2>2. Range(<<>>) = {}
    BY DEF Range
  <2> QED
    BY <2>1, <2>2 DEF SnapshotsSound
<1>8. \/ UNCHANGED <<hostQ, target, portmap>>
      \/ FeederPorts \/ FeederSend \/ LoopGet \/ Crash
  BY DEF vars, Next, Step, Start, Feeder, FeederOpen, FeederFetch,
         Loop, LoopDispatch, LoopResult, Control, LoopReceives,
         LoopShutdown, LoopStop, LoopSpawn, LoopIgnore, LoopForward, Worker,
         WorkerBegin, WorkerStop, WorkerTake, WorkerPulse, WorkerScan,
         WorkerSend, WorkerExit, HostArrives, SendCtl
<1> QED
  BY <1>3, <1>4, <1>5, <1>6, <1>7, <1>8

(* A copy of a host's rows on its way to getScanPort never claims a port   *)
(* that is not in the table, however old the copy is.                      *)
THEOREM Snapshots == Spec => []SnapshotsSound
<1>1. Init => SnapshotsSound
  BY DEF Init, SnapshotsSound, Range
<1>2. IInv /\ SnapshotsSound /\ [Next]_vars => SnapshotsSound'
  BY SnapshotStep DEF IInv
<1> QED
  BY <1>1, <1>2, Invariance, PTL DEF Spec

-----------------------------------------------------------------------------
(* Every step of the scanner is a step of the Ledger or does not concern   *)
(* it: LoopDispatch asks, LoopResult settles (or loses, when PortAdd       *)
(* fails), a crash is the death of the process, and a request that goes    *)
(* from scanQ to a worker to resultQ stays open.                           *)
LEMMA LedgerStep ==
  ASSUME TypeOK, Held, [Next]_vars
  PROVE  [Abstract!Next]_(Abstract!vars)
<1> DEFINE Keys(s) == {RequestOf(res) : res \in Range(s)}
<1>1. CASE UNCHANGED <<scanQ, job, resultQ, portTbl>>
  BY <1>1 DEF Abstract!vars, InFlight
<1>2. CASE LoopDispatch
  <2>1. req \in Requests /\ scanQ \in Seq(Requests)
    BY <1>2 DEF LoopDispatch, Held, TypeOK
  <2>2. Range(scanQ') = Range(scanQ) \cup {req}
    BY <1>2, <2>1, RangeOfAppend DEF LoopDispatch
  <2>3. UNCHANGED <<job, resultQ, portTbl>>
    BY <1>2 DEF LoopDispatch, workVars, database
  <2>4. InFlight' = InFlight \cup {req}
    BY <2>2, <2>3 DEF InFlight
  <2>5. Abstract!Ask(req)
    BY <2>3, <2>4 DEF Abstract!Ask
  <2> QED
    BY <2>1, <2>5 DEF Abstract!Next, Abstract!Requests, Requests
<1>3. ASSUME NEW w \in Workers, WorkerTake(w)
      PROVE  UNCHANGED Abstract!vars
  <2>1. scanQ \in Seq(Requests) /\ scanQ # <<>> /\ scanQ' = Tail(scanQ)
    BY <1>3 DEF WorkerTake, TypeOK
  <2>2. Range(scanQ) = {Head(scanQ)} \cup Range(scanQ') /\ Head(scanQ) # Nil
    BY <2>1, RangeOfTail, ScannerAssumption
  <2>3. job[w] = Nil /\ job \in [Workers -> Requests \cup {Nil}]
    BY <1>3 DEF WorkerTake, Held, TypeOK
  <2>4. job' = [job EXCEPT ![w] = Head(scanQ)]
    BY <1>3 DEF WorkerTake
  <2>5. Range(job') \ {Nil} = (Range(job) \ {Nil}) \cup {Head(scanQ)}
    BY <2>2, <2>3, <2>4 DEF Range
  <2>6. UNCHANGED <<resultQ, portTbl>>
    BY <1>3 DEF WorkerTake, database
  <2>7. InFlight' = InFlight
    BY <2>2, <2>5, <2>6 DEF InFlight
  <2> QED
    BY <2>6, <2>7 DEF Abstract!vars
<1>4. ASSUME NEW w \in Workers, WorkerSend(w)
      PROVE  UNCHANGED Abstract!vars
  <2>1. job[w] # Nil /\ job \in [Workers -> Requests \cup {Nil}]
    BY <1>4 DEF WorkerSend, Held, TypeOK
  <2>2. PICK reply \in Replies :
          resultQ' = Append(resultQ,
                            [host |-> job[w].host, port |-> job[w].port,
                             reply |-> reply])
    BY <1>4 DEF WorkerSend
  <2> DEFINE res == [host |-> job[w].host, port |-> job[w].port,
                     reply |-> reply]
  <2>3. job[w] \in Requests /\ res \in Results /\ RequestOf(res) = job[w]
    BY <2>1 DEF Requests, Results, RequestOf
  <2>4. Range(resultQ') = Range(resultQ) \cup {res}
    BY <2>2, <2>3, RangeOfAppend DEF TypeOK
  <2>5. Keys(resultQ') = Keys(resultQ) \cup {job[w]}
    BY <2>3, <2>4
  <2>6. job' = [job EXCEPT ![w] = Nil]
    BY <1>4 DEF WorkerSend
  <2>7. Range(job) \ {Nil} = (Range(job') \ {Nil}) \cup {job[w]}
    BY <2>1, <2>6 DEF Range
  <2>8. UNCHANGED <<scanQ, portTbl>>
    BY <1>4 DEF WorkerSend, database
  <2>9. InFlight' = InFlight
    BY <2>5, <2>7, <2>8 DEF InFlight
  <2> QED
    BY <2>8, <2>9 DEF Abstract!vars
<1>5. CASE LoopResult
  <2> DEFINE res == Head(resultQ)
  <2>1. resultQ \in Seq(Results) /\ resultQ # <<>> /\ resultQ' = Tail(resultQ)
    BY <1>5 DEF LoopResult, TypeOK
  <2>2. Range(resultQ) = {res} \cup Range(resultQ') /\ res \in Results
    BY <2>1, RangeOfTail
  <2>3. Keys(resultQ) = Keys(resultQ') \cup {RequestOf(res)}
    BY <2>2
  <2>4. UNCHANGED <<scanQ, job>>
    BY <1>5 DEF LoopResult, workVars
  <2>5. RequestOf(res) \in InFlight
    BY <2>3 DEF InFlight
  <2>6. InFlight' \in {InFlight, InFlight \ {RequestOf(res)}}
    BY <2>3, <2>4 DEF InFlight
  <2>7. Abstract!Request(res) = RequestOf(res)
    BY DEF Abstract!Request, RequestOf
  <2>8. Abstract!Close(Abstract!Request(res))
    BY <2>6, <2>7 DEF Abstract!Close
  <2>9. CASE portTbl' = PortAdd(portTbl, res)
    <3>1. PortAdd(portTbl, res) = Abstract!Insert(portTbl, res)
      BY DEF PortAdd, Abstract!Insert, Abstract!Request
    <3>2. Abstract!Settle(res)
      BY <2>5, <2>7, <2>8, <2>9, <3>1 DEF Abstract!Settle
    <3> QED
      BY <2>2, <3>2 DEF Abstract!Next, Abstract!Results, Results
  <2>10. CASE "db" \in Faults /\ UNCHANGED portTbl
    <3>1. Abstract!Lose(RequestOf(res))
      BY <2>5, <2>7, <2>8, <2>10 DEF Abstract!Lose
    <3>2. RequestOf(res) \in Abstract!Requests
      BY <2>2 DEF Abstract!Requests, Results, RequestOf
    <3> QED
      BY <3>1, <3>2 DEF Abstract!Next
  <2> QED
    BY <1>5, <2>9, <2>10 DEF LoopResult
<1>6. CASE Crash
  <2>1. scanQ' = <<>> /\ resultQ' = <<>> /\ job' = NoJobs /\ portTbl' = portTbl
    BY <1>6 DEF Crash, database
  <2>2. Range(<<>>) = {} /\ Range(NoJobs) \subseteq {Nil}
    BY DEF Range, NoJobs
  <2>3. InFlight' = {}
    BY <2>1, <2>2 DEF InFlight
  <2>4. "crash" \in Faults
    BY <1>6 DEF Crash
  <2> QED
    BY <2>1, <2>3, <2>4 DEF Abstract!Next, Abstract!Die
<1>7. \/ UNCHANGED <<scanQ, job, resultQ, portTbl>>
      \/ LoopDispatch \/ LoopResult \/ Crash
      \/ \E w \in Workers : WorkerTake(w) \/ WorkerSend(w)
  BY DEF vars, stateVars, loopVars, feedVars, workVars, database,
         Next, Step, Start, Feeder, FeederOpen, FeederFetch, FeederPorts,
         FeederSend, Loop, LoopGet, Control, LoopReceives,
         LoopShutdown, LoopStop, LoopSpawn, LoopIgnore, LoopForward, Worker,
         WorkerBegin, WorkerStop, WorkerPulse, WorkerScan,
         WorkerExit, HostArrives, SendCtl
<1> QED
  BY <1>1, <1>2, <1>3, <1>4, <1>5, <1>6, <1>7

(* The scanner implements the Ledger.                                      *)
THEOREM Refinement == Spec => ImplementsLedger
<1>1. Init => Abstract!Init
  <2>1. Range(<<>>) = {} /\ Range(NoJobs) \subseteq {Nil}
    BY DEF Range, NoJobs
  <2> QED
    BY <2>1 DEF Init, Abstract!Init, InFlight
<1>2. IInv /\ [Next]_vars => [Abstract!Next]_(Abstract!vars)
  BY LedgerStep DEF IInv
<1> QED
  BY <1>1, <1>2, Invariance, PTL DEF Spec, ImplementsLedger, Abstract!Spec

-----------------------------------------------------------------------------
(* In the Ledger a pair of host and port has at most one row.              *)
THEOREM LedgerUnique == Abstract!Spec => []Abstract!UniqueRows
<1> USE DEF Abstract!UniqueRows
<1>1. Abstract!Init => Abstract!UniqueRows
  BY DEF Abstract!Init
<1>2. ASSUME Abstract!UniqueRows, [Abstract!Next]_(Abstract!vars)
      PROVE  Abstract!UniqueRows'
  <2>1. ASSUME NEW row, Abstract!Settle(row) PROVE Abstract!UniqueRows'
    <3>1. CASE \E r \in portTbl : Abstract!Request(r) = Abstract!Request(row)
      BY <1>2, <2>1, <3>1 DEF Abstract!Settle, Abstract!Insert
    <3>2. CASE ~\E r \in portTbl : Abstract!Request(r) = Abstract!Request(row)
      BY <1>2, <2>1, <3>2 DEF Abstract!Settle, Abstract!Insert
    <3> QED
      BY <3>1, <3>2
  <2>2. CASE UNCHANGED portTbl
    BY <1>2, <2>2
  <2> QED
    BY <1>2, <2>1, <2>2
       DEF Abstract!Next, Abstract!Ask, Abstract!Lose, Abstract!Die,
           Abstract!vars
<1> QED
  BY <1>1, <1>2, PTL DEF Abstract!Spec

(* In the Ledger no row is ever changed or removed.                        *)
THEOREM LedgerKeeps == Abstract!Spec => Abstract!RowsPermanent
<1>1. [Abstract!Next]_(Abstract!vars)
        => [portTbl \subseteq portTbl']_(Abstract!vars)
  BY DEF Abstract!Next, Abstract!Ask, Abstract!Lose, Abstract!Settle,
         Abstract!Insert, Abstract!Die, Abstract!vars
<1> QED
  BY <1>1, PTL DEF Abstract!Spec, Abstract!RowsPermanent

(* What the Ledger promises holds of the scanner's port table: a pair of   *)
(* host and port has one row, and that row stays.                          *)
THEOREM TableKept ==
  Spec => []Abstract!UniqueRows /\ Abstract!RowsPermanent
BY Refinement, LedgerUnique, LedgerKeeps DEF ImplementsLedger
=============================================================================
