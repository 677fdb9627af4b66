---------------------------- MODULE PanelProofs ----------------------------
(***************************************************************************)
(* Proofs about the scanner under its remote control, for every number of  *)
(* clients, workers and messages.                                          *)
(*                                                                         *)
(* A step of the panel is a step of the scanner or changes nothing of it,  *)
(* so what ScannerProofs shows holds under the panel too.  That no message *)
(* is lost or obeyed twice (BalanceKept) is a count of the messages in the *)
(* four places they can be in, before and after each step.                 *)
(***************************************************************************)
EXTENDS ControlPanel, ScannerProofs

Orders == /\ order \in [Clients -> {"none", "Spawn", "Stop"}]
          /\ left \in [Clients -> 0 .. MaxCnt]
          /\ \A c \in Clients : order[c] = "none" <=> left[c] = 0

PInv == IInv /\ Orders

-----------------------------------------------------------------------------
(* To the scanner, the panel is just another sender of messages.           *)
LEMMA Projection == ASSUME Orders, [PanelNext]_panelVars PROVE [Next]_vars
<1>1. ASSUME NEW c \in Clients, Post(c) PROVE Next
  <2>1. order[c] \in CtlMsgs
    BY <1>1, PanelAssumption DEF Post, Orders
  <2> QED
    BY <1>1, <2>1 DEF Post, Next
<1>2. ASSUME NEW c \in Clients, NEW cnt \in 1 .. MaxCnt,
             SpawnRequest(c, cnt) \/ StopRequest(c, cnt)
      PROVE  UNCHANGED vars
  BY <1>2 DEF SpawnRequest, StopRequest, Accept
<1> QED
  BY <1>1, <1>2 DEF PanelNext, Next, panelVars

LEMMA OrdersStep == ASSUME Orders, [PanelNext]_panelVars PROVE Orders'
<1> USE PanelAssumption DEF Orders
<1>1. CASE UNCHANGED panel
  BY <1>1 DEF panel
<1>2. CASE order' = NoOrders /\ left' = NoneLeft
  BY <1>2 DEF NoOrders, NoneLeft
<1>3. ASSUME NEW c \in Clients, Post(c) PROVE Orders'
  BY <1>3 DEF Post
<1>4. ASSUME NEW c \in Clients, NEW cnt \in 1 .. MaxCnt,
             SpawnRequest(c, cnt) \/ StopRequest(c, cnt)
      PROVE  Orders'
  BY <1>4 DEF SpawnRequest, StopRequest, Accept
<1> QED
  BY <1>1, <1>2, <1>3, <1>4 DEF PanelNext, panelVars

-----------------------------------------------------------------------------
(* The messages on their way, place by place.                              *)
Busy           == {w \in Workers : worker[w] \in {"born", "select", "scan", "send"}}
Unsent(msg)    == {m \in Clients \X (1 .. MaxCnt) :
                     order[m[1]] = msg /\ m[2] <= left[m[1]]}
BusyCnt        == Cardinality(Busy)
UnsentCnt(msg) == Cardinality(Unsent(msg))
OnRC(msg)      == Cardinality(Places(RC, msg))
InLoop         == IF loop = "mm" THEN 1 ELSE 0

SpawnsUnsent == UnsentCnt("Spawn")
StopsUnsent  == UnsentCnt("Stop")
SpawnsOnRC   == OnRC("Spawn")
StopsOnRC    == OnRC("Stop")

Total == BusyCnt + (SpawnsUnsent + SpawnsOnRC)
           - (StopsUnsent + StopsOnRC + InLoop + mmQ)

LEMMA Sum == Balance = Total
BY DEF Balance, AtWork, SpawnsPending, StopsPending, ToSend, SpawnsUnderWay,
       Total, SpawnsUnsent, StopsUnsent, SpawnsOnRC, StopsOnRC,
       BusyCnt, UnsentCnt, Busy, Unsent, OnRC, InLoop, Places

LEMMA SumNext == Balance' = Total'
BY DEF Balance, AtWork, SpawnsPending, StopsPending, ToSend, SpawnsUnderWay,
       Total, SpawnsUnsent, StopsUnsent, SpawnsOnRC, StopsOnRC,
       BusyCnt, UnsentCnt, Busy, Unsent, OnRC, InLoop, Places

Numbers == /\ IsFiniteSet(Busy) /\ BusyCnt \in Nat
           /\ \A msg : /\ IsFiniteSet(Unsent(msg)) /\ UnsentCnt(msg) \in Nat
                       /\ OnRC(msg) \in Nat
           /\ InLoop \in Nat /\ mmQ \in Nat

LEMMA AreNumbers == TypeOK => Numbers
<1> SUFFICES ASSUME TypeOK PROVE Numbers
  OBVIOUS
<1>1. IsFiniteSet(Busy) /\ BusyCnt \in Nat
  BY ScannerAssumption, FS_Subset, FS_CardinalityType DEF Busy, BusyCnt
<1>2. ASSUME NEW msg PROVE IsFiniteSet(Unsent(msg)) /\ UnsentCnt(msg) \in Nat
  <2>1. IsFiniteSet(1 .. MaxCnt)
    BY PanelAssumption, FS_Interval
  <2>2. IsFiniteSet(Clients \X (1 .. MaxCnt))
    BY <2>1, PanelAssumption, FS_Product
  <2>3. Unsent(msg) \in SUBSET (Clients \X (1 .. MaxCnt))
    BY DEF Unsent
  <2> QED
    BY <2>2, <2>3, FS_Subset, FS_CardinalityType DEF UnsentCnt
<1>3. ASSUME NEW msg PROVE OnRC(msg) \in Nat
  BY FinitePlaces DEF TypeOK, OnRC
<1>4. InLoop \in Nat /\ mmQ \in Nat
  BY DEF TypeOK, InLoop
<1> QED
  BY <1>1, <1>2, <1>3, <1>4 DEF Numbers

LEMMA AreNumbersNext == TypeOK' => Numbers'
BY AreNumbers, PTL

LEMMA MessageSent ==
  ASSUME TypeOK, NEW e \in CtlMsgs, RC' = Append(RC, e)
  PROVE  /\ e = "Spawn" => SpawnsOnRC' = SpawnsOnRC + 1 /\ StopsOnRC' = StopsOnRC
         /\ e = "Stop" => StopsOnRC' = StopsOnRC + 1 /\ SpawnsOnRC' = SpawnsOnRC
<1>1. \A msg : /\ OnRC(msg) \in Int
               /\ OnRC(msg)' = OnRC(msg) + (IF e = msg THEN 1 ELSE 0)
  BY CountOfAppend, FinitePlaces DEF TypeOK, OnRC
<1> HIDE DEF OnRC
<1> QED
  BY <1>1 DEF SpawnsOnRC, StopsOnRC

LEMMA MessageRead ==
  ASSUME TypeOK, RC # <<>>, RC' = Tail(RC)
  PROVE  /\ Head(RC) = "Spawn" => SpawnsOnRC = SpawnsOnRC' + 1 /\ StopsOnRC' = StopsOnRC
         /\ Head(RC) = "Stop" => StopsOnRC = StopsOnRC' + 1 /\ SpawnsOnRC' = SpawnsOnRC
         /\ Head(RC) \notin {"Spawn", "Stop"} =>
              SpawnsOnRC' = SpawnsOnRC /\ StopsOnRC' = StopsOnRC
<1> DEFINE h == Head(RC)
<1>1. \A msg : /\ OnRC(msg)' \in Int
               /\ OnRC(msg) = OnRC(msg)' + (IF h = msg THEN 1 ELSE 0)
  <2>1. RC \in Seq(CtlMsgs) /\ Tail(RC) \in Seq(CtlMsgs)
    BY HeadTailProperties DEF TypeOK
  <2>2. ASSUME NEW msg PROVE OnRC(msg)' \in Int
    <3>1. Cardinality(Places(Tail(RC), msg)) \in Nat
      BY <2>1, FinitePlaces
    <3>2. OnRC(msg)' = Cardinality(Places(Tail(RC), msg))
      BY DEF OnRC, Places
    <3> QED
      BY <3>1, <3>2
  <2>3. ASSUME NEW msg PROVE OnRC(msg) = OnRC(msg)' + (IF h = msg THEN 1 ELSE 0)
    BY <2>1, CountOfTail DEF OnRC
  <2> QED
    BY <2>2, <2>3
<1> HIDE DEF h
<1>2. \A msg : h # msg => OnRC(msg)' = OnRC(msg)
  BY <1>1
<1>3. \A msg : h = msg => OnRC(msg) = OnRC(msg)' + 1
  BY <1>1
<1>4. /\ h = "Spawn" => OnRC("Spawn") = OnRC("Spawn")' + 1 /\ OnRC("Stop")' = OnRC("Stop")
      /\ h = "Stop" => OnRC("Stop") = OnRC("Stop")' + 1 /\ OnRC("Spawn")' = OnRC("Spawn")
      /\ h \notin {"Spawn", "Stop"} =>
           OnRC("Spawn")' = OnRC("Spawn") /\ OnRC("Stop")' = OnRC("Stop")
  BY <1>2, <1>3
<1> QED
  BY <1>4 DEF SpawnsOnRC, StopsOnRC, h

-----------------------------------------------------------------------------
(* A step of the scanner moves messages from place to place.               *)
LEMMA ScannerBalance ==
  ASSUME IInv, IInv', Step, UNCHANGED panel, running, running'
  PROVE  Balance' = Balance
<1> USE DEF stateVars, loopVars, feedVars, workVars, database
<1>0. /\ TypeOK /\ TypeOK' /\ Numbers /\ Numbers'
      /\ Balance = Total /\ Balance' = Total'
  BY Sum, SumNext, AreNumbers, AreNumbersNext DEF IInv
<1>a. /\ BusyCnt \in Int /\ SpawnsUnsent \in Int /\ StopsUnsent \in Int
      /\ SpawnsOnRC' \in Int /\ StopsOnRC' \in Int /\ SpawnsOnRC \in Int
      /\ StopsOnRC \in Int /\ InLoop \in Int /\ mmQ \in Int
  BY <1>0 DEF Numbers, SpawnsUnsent, StopsUnsent, SpawnsOnRC, StopsOnRC
<1>1. SpawnsUnsent' = SpawnsUnsent /\ StopsUnsent' = StopsUnsent
  BY DEF SpawnsUnsent, StopsUnsent, UnsentCnt, Unsent, panel
<1>2. ASSUME UNCHANGED RC PROVE SpawnsOnRC' = SpawnsOnRC /\ StopsOnRC' = StopsOnRC
  BY <1>2 DEF SpawnsOnRC, StopsOnRC, OnRC
<1>3. ASSUME Busy' = Busy PROVE BusyCnt' = BusyCnt
  BY <1>3 DEF BusyCnt
<1>4. CASE Start
  BY <1>4 DEF Start
<1>5. CASE Feeder \/ \E h \in Hosts : HostArrives(h)
  <2>1. Busy' = Busy /\ RC' = RC /\ InLoop' = InLoop /\ mmQ' = mmQ
    BY <1>5 DEF Feeder, FeederOpen, FeederFetch, FeederPorts, FeederSend,
                HostArrives, Busy, InLoop
  <2> QED
    BY <1>0, <1>1, <1>2, <1>3, <2>1 DEF Total
<1>6. CASE LoopGet \/ LoopDispatch \/ LoopResult
  <2>1. Busy' = Busy /\ RC' = RC /\ InLoop' = InLoop /\ mmQ' = mmQ
    BY <1>6 DEF LoopGet, LoopDispatch, LoopResult, Busy, InLoop
  <2> QED
    BY <1>0, <1>1, <1>2, <1>3, <2>1 DEF Total
<1>7. CASE LoopShutdown
  BY <1>7 DEF LoopShutdown
<1>8. CASE LoopStop
  <2>1. /\ Busy' = Busy /\ mmQ' = mmQ /\ InLoop = 0 /\ InLoop' = 1
        /\ RC # <<>> /\ RC' = Tail(RC) /\ Head(RC) = "Stop"
    BY <1>8 DEF LoopStop, LoopReceives, Busy, InLoop
  <2>2. StopsOnRC = StopsOnRC' + 1 /\ SpawnsOnRC' = SpawnsOnRC
    BY <1>0, <1>a, <2>1, MessageRead
  <2> QED
    BY <1>0, <1>a, <1>1, <1>3, <2>1, <2>2 DEF Total
<1>9. CASE LoopSpawn
  <2>1. /\ mmQ' = mmQ /\ InLoop' = InLoop
        /\ RC # <<>> /\ RC' = Tail(RC) /\ Head(RC) = "Spawn"
    BY <1>9 DEF LoopSpawn, LoopReceives, InLoop
  <2>2. SpawnsOnRC = SpawnsOnRC' + 1 /\ StopsOnRC' = StopsOnRC
    BY <1>0, <1>a, <2>1, MessageRead
  <2>3. PICK w \in Workers : /\ worker[w] = "none"
                             /\ worker' = [worker EXCEPT ![w] = "born"]
    BY <1>9 DEF LoopSpawn
  <2>4. Busy' = Busy \cup {w} /\ w \notin Busy
    BY <1>0, <2>3 DEF Busy, TypeOK
  <2>5. BusyCnt' = BusyCnt + 1
    BY <1>0, <2>4, FS_AddElement DEF BusyCnt, Numbers
  <2> QED
    BY <1>0, <1>a, <1>1, <2>1, <2>2, <2>5 DEF Total
<1>10. CASE LoopIgnore
  <2>1. /\ Busy' = Busy /\ mmQ' = mmQ /\ InLoop' = InLoop
        /\ RC # <<>> /\ RC' = Tail(RC) /\ Head(RC) \notin {"Spawn", "Stop"}
    BY <1>10 DEF LoopIgnore, LoopReceives, Busy, InLoop
  <2>2. SpawnsOnRC' = SpawnsOnRC /\ StopsOnRC' = StopsOnRC
    BY <1>0, <1>a, <2>1, MessageRead
  <2> QED
    BY <1>0, <1>1, <1>3, <2>1, <2>2 DEF Total
<1>11. CASE LoopForward
  <2>1. /\ Busy' = Busy /\ RC' = RC /\ mmQ' = mmQ + 1
        /\ InLoop = 1 /\ InLoop' = 0
    BY <1>11 DEF LoopForward, Busy, InLoop
  <2> QED
    BY <1>0, <1>a, <1>1, <1>2, <1>3, <2>1 DEF Total
<1>12. ASSUME NEW w \in Workers, Worker(w), ~WorkerStop(w) PROVE Balance' = Balance
  <2>1. Busy' = Busy
    BY <1>0, <1>12 DEF Worker, WorkerBegin, WorkerTake, WorkerPulse, WorkerScan,
         WorkerSend, WorkerExit, WorkerHead, Busy, TypeOK
  <2>2. RC' = RC /\ InLoop' = InLoop /\ mmQ' = mmQ
    BY <1>12 DEF Worker, WorkerBegin, WorkerTake, WorkerPulse,
         WorkerScan, WorkerSend, WorkerExit, InLoop
  <2> QED
    BY <1>0, <1>1, <1>2, <1>3, <2>1, <2>2 DEF Total
<1>13. ASSUME NEW w \in Workers, WorkerStop(w) PROVE Balance' = Balance
  <2>1. /\ Busy' = Busy \ {w} /\ w \in Busy
        /\ RC' = RC /\ InLoop' = InLoop /\ mmQ' = mmQ - 1
    BY <1>0, <1>13 DEF WorkerStop, Busy, InLoop, TypeOK
  <2>2. BusyCnt' = BusyCnt - 1
    BY <1>0, <2>1, FS_RemoveElement DEF BusyCnt, Numbers
  <2> QED
    BY <1>0, <1>a, <1>1, <1>2, <2>1, <2>2 DEF Total
<1> QED
  BY <1>4, <1>5, <1>6, <1>7, <1>8, <1>9, <1>10, <1>11, <1>12, <1>13
     DEF Step, Loop, Control

(* A handler's message is no longer its own once it is on RC.              *)
LEMMA PostBalance ==
  ASSUME IInv, IInv', Orders, NEW c \in Clients, Post(c)
  PROVE  Balance' = Balance
<1>0. /\ TypeOK /\ TypeOK' /\ Numbers /\ Numbers'
      /\ Balance = Total /\ Balance' = Total'
  BY Sum, SumNext, AreNumbers, AreNumbersNext DEF IInv
<1>a. /\ BusyCnt \in Int /\ SpawnsUnsent \in Int /\ StopsUnsent \in Int
      /\ SpawnsOnRC \in Int /\ StopsOnRC \in Int /\ InLoop \in Int /\ mmQ \in Int
  BY <1>0 DEF Numbers, SpawnsUnsent, StopsUnsent, SpawnsOnRC, StopsOnRC
<1> DEFINE msg == order[c]
<1>1. /\ msg \in CtlMsgs /\ msg \in {"Spawn", "Stop"} /\ left[c] \in 1 .. MaxCnt
      /\ left' = [left EXCEPT ![c] = @ - 1]
      /\ order' = [order EXCEPT ![c] = IF left[c] = 1 THEN "none" ELSE @]
  BY PanelAssumption DEF Post, Orders
<1>2. /\ RC' = Append(RC, msg) /\ mmQ' = mmQ /\ Busy' = Busy /\ InLoop' = InLoop
  BY DEF Post, SendCtl, Busy, InLoop, loopVars, workVars
<1>3. BusyCnt' = BusyCnt
  BY <1>2 DEF BusyCnt
<1>4. ASSUME NEW other, other # msg, other # "none"
      PROVE  UnsentCnt(other)' = UnsentCnt(other)
  BY <1>1, <1>4 DEF UnsentCnt, Unsent, Orders
<1>6. ASSUME NEW m, m = msg PROVE UnsentCnt(m)' = UnsentCnt(m) - 1
  <2>1. <<c, left[c]>> \in Unsent(m)
    BY <1>1, <1>6 DEF Unsent
  <2>2. Unsent(m)' = Unsent(m) \ {<<c, left[c]>>}
    BY <1>1, <1>6, PanelAssumption DEF Unsent, Orders
  <2>3. IsFiniteSet(Unsent(m))
    BY <1>0 DEF Numbers
  <2>4. Cardinality(Unsent(m) \ {<<c, left[c]>>}) = Cardinality(Unsent(m)) - 1
    BY <2>1, <2>3, FS_RemoveElement
  <2> QED
    BY <2>2, <2>4 DEF UnsentCnt
<1>7. CASE msg = "Spawn"
  <2>1. SpawnsUnsent' = SpawnsUnsent - 1 /\ StopsUnsent' = StopsUnsent
    BY <1>4, <1>6, <1>7 DEF SpawnsUnsent, StopsUnsent
  <2>2. SpawnsOnRC' = SpawnsOnRC + 1 /\ StopsOnRC' = StopsOnRC
    BY <1>0, <1>a, <1>1, <1>2, <1>7, MessageSent
  <2> QED
    BY <1>0, <1>a, <1>2, <1>3, <2>1, <2>2 DEF Total
<1>8. CASE msg = "Stop"
  <2>1. SpawnsUnsent' = SpawnsUnsent /\ StopsUnsent' = StopsUnsent - 1
    BY <1>4, <1>6, <1>8 DEF SpawnsUnsent, StopsUnsent
  <2>2. SpawnsOnRC' = SpawnsOnRC /\ StopsOnRC' = StopsOnRC + 1
    BY <1>0, <1>a, <1>1, <1>2, <1>8, MessageSent
  <2> QED
    BY <1>0, <1>a, <1>2, <1>3, <2>1, <2>2 DEF Total
<1> QED
  BY <1>1, <1>7, <1>8

(* A request that is accepted counts for the workers it asks for.          *)
LEMMA AcceptBalance ==
  ASSUME TypeOK, Orders, NEW c \in Clients, NEW cnt \in 1 .. MaxCnt,
         NEW msg \in {"Spawn", "Stop"}, Accept(c, msg, cnt)
  PROVE  /\ order[c] = "none" /\ order'[c] = msg /\ left'[c] = cnt
         /\ msg = "Spawn" => Balance' = Balance + cnt
         /\ msg = "Stop" => Balance' = Balance - cnt
<1> DEFINE New == {c} \X (1 .. cnt)
<1>0. Numbers /\ Balance = Total /\ Balance' = Total'
  BY Sum, SumNext, AreNumbers
<1>a. /\ BusyCnt \in Int /\ SpawnsUnsent \in Int /\ StopsUnsent \in Int
      /\ SpawnsOnRC \in Int /\ StopsOnRC \in Int /\ InLoop \in Int /\ mmQ \in Int
      /\ cnt \in Int
  BY <1>0, PanelAssumption DEF Numbers, SpawnsUnsent, StopsUnsent, SpawnsOnRC, StopsOnRC
<1>1. /\ order[c] = "none" /\ order' = [order EXCEPT ![c] = msg]
      /\ left' = [left EXCEPT ![c] = cnt]
  BY DEF Accept
<1>2. /\ BusyCnt' = BusyCnt /\ InLoop' = InLoop /\ mmQ' = mmQ
      /\ SpawnsOnRC' = SpawnsOnRC /\ StopsOnRC' = StopsOnRC
  BY DEF Accept, vars, loopVars, workVars, Busy, BusyCnt, InLoop,
         SpawnsOnRC, StopsOnRC, OnRC
<1>3. ASSUME NEW other, other # msg, other # "none"
      PROVE  UnsentCnt(other)' = UnsentCnt(other)
  BY <1>1, <1>3 DEF UnsentCnt, Unsent, Orders
<1>4. UnsentCnt(msg)' = UnsentCnt(msg) + cnt
  <2>1. IsFiniteSet(New) /\ Cardinality(New) = cnt
    <3>1. IsFiniteSet({c}) /\ Cardinality({c}) = 1
      BY FS_Singleton
    <3>2. IsFiniteSet(1 .. cnt) /\ Cardinality(1 .. cnt) = cnt
      BY PanelAssumption, FS_Interval
    <3> QED
      BY <3>1, <3>2, PanelAssumption, FS_Product
  <2>2. Unsent(msg)' = Unsent(msg) \cup New /\ Unsent(msg) \cap New = {}
    BY <1>1, PanelAssumption DEF Unsent, Orders
  <2> QED
    <3>1. Cardinality(Unsent(msg) \cup New)
            = Cardinality(Unsent(msg)) + Cardinality(New) - Cardinality(Unsent(msg) \cap New)
      <4> HIDE DEF New
      <4> QED
        BY <1>0, <2>1, FS_Union DEF Numbers
    <3>2. Cardinality(Unsent(msg) \cap New) = 0
      BY <2>2, FS_EmptySet
    <3>3. Cardinality(Unsent(msg)) \in Nat
      BY <1>0 DEF Numbers, UnsentCnt
    <3> HIDE DEF New
    <3> QED
      BY <2>1, <2>2, <3>1, <3>2, <3>3, PanelAssumption DEF UnsentCnt
<1>5. order'[c] = msg /\ left'[c] = cnt
  BY <1>1 DEF Orders
<1> HIDE DEF New
<1>6. CASE msg = "Spawn"
  <2>1. SpawnsUnsent' = SpawnsUnsent + cnt /\ StopsUnsent' = StopsUnsent
    BY <1>3, <1>4, <1>6 DEF SpawnsUnsent, StopsUnsent
  <2>2. Balance' = Balance + cnt
    BY <1>0, <1>a, <1>2, <2>1 DEF Total
  <2> QED
    BY <1>1, <1>5, <1>6, <2>2
<1>7. CASE msg = "Stop"
  <2>1. SpawnsUnsent' = SpawnsUnsent /\ StopsUnsent' = StopsUnsent + cnt
    BY <1>3, <1>4, <1>7 DEF SpawnsUnsent, StopsUnsent
  <2>2. Balance' = Balance - cnt
    BY <1>0, <1>a, <1>2, <2>1 DEF Total
  <2> QED
    BY <1>1, <1>5, <1>7, <2>2
<1> QED
  BY <1>6, <1>7

-----------------------------------------------------------------------------
(* The invariants of the scanner, and Orders, hold under the panel.        *)
THEOREM PanelInvariance == PanelSpec => []PInv
<1>1. PanelInit => PInv
  <2>1. Init => IInv
    BY InitIInv
  <2>2. PanelInit => Orders
    BY PanelAssumption DEF PanelInit, Orders, NoOrders, NoneLeft
  <2> QED
    BY <2>1, <2>2 DEF PanelInit, PInv
<1>2. PInv /\ [PanelNext]_panelVars => PInv'
  BY Projection, OrdersStep, TypeStep, HeldStep, CountStep DEF PInv, IInv
<1> QED
  BY <1>1, <1>2, PTL DEF PanelSpec

(* The variables of the panel and of the scanner keep their types.         *)
THEOREM PanelTyping == PanelSpec => []PanelTypeOK
<1>1. PInv => PanelTypeOK
  BY DEF PInv, IInv, Orders, PanelTypeOK
<1> QED
  BY <1>1, PanelInvariance, PTL

(* While the scanner runs, each accepted request changes the number of     *)
(* workers there will be by what it asks for, and nothing else does: no    *)
(* message is lost or obeyed twice between the handlers (ajax.go:110), RC, *)
(* Loop, mmQ and the workers (scanner.go:259, :413).                       *)
THEOREM Balancing == PanelSpec => BalanceKept
<1> DEFINE Changes(c) ==
             /\ order[c] = "none"
             /\ \/ order'[c] = "Spawn" /\ Balance' = Balance + left'[c]
                \/ order'[c] = "Stop" /\ Balance' = Balance - left'[c]
           Kept == running /\ running' =>
                     Balance' = Balance \/ \E c \in Clients : Changes(c)
<1>1. ASSUME PInv, PInv', [PanelNext]_panelVars PROVE [Kept]_panelVars
  <2> SUFFICES ASSUME PanelNext, running, running'
               PROVE  Balance' = Balance \/ \E c \in Clients : Changes(c)
    BY <1>1
  <2>0. IInv /\ IInv' /\ Orders /\ TypeOK
    BY <1>1 DEF PInv, IInv
  <2>1. CASE Step /\ UNCHANGED panel
    BY <2>0, <2>1, ScannerBalance
  <2>2. CASE Crash
    BY <2>2 DEF Crash
  <2>3. ASSUME NEW c \in Clients, Post(c) PROVE Balance' = Balance
    BY <2>0, <2>3, PostBalance
  <2>4. ASSUME NEW c \in Clients, NEW cnt \in 1 .. MaxCnt,
               SpawnRequest(c, cnt) \/ StopRequest(c, cnt)
        PROVE  Changes(c)
    <3>1. CASE SpawnRequest(c, cnt)
      BY <2>0, <3>1, AcceptBalance DEF SpawnRequest
    <3>2. CASE StopRequest(c, cnt)
      BY <2>0, <3>2, AcceptBalance DEF StopRequest
    <3> QED
      BY <2>4, <3>1, <3>2
  <2> QED
    BY <2>1, <2>2, <2>3, <2>4 DEF PanelNext
<1> QED
  BY <1>1, PanelInvariance, PTL DEF PanelSpec, BalanceKept

(* The scanner implements the Ledger under the panel too.                  *)
THEOREM PanelRefinement == PanelSpec => ImplementsLedger
<1>1. PanelSpec => Spec
  <2>1. PanelInit => Init
    BY DEF PanelInit
  <2>2. PInv /\ [PanelNext]_panelVars => [Next]_vars
    BY Projection DEF PInv
  <2> QED
    BY <2>1, <2>2, PanelInvariance, PTL DEF PanelSpec, Spec
<1> QED
  BY <1>1, Refinement

-----------------------------------------------------------------------------
(* The answer for a host all of whose ports are known is 0.                *)
LEMMA NothingLeft ==
  ASSUME NEW h \in Hosts
  PROVE  GetScanPort(Kind[h], Ports) = {NoPort}
<1>1. SuggestedPort(Kind[h], Ports) \subseteq Ports
  BY HintsAssumption
<1>2. SuggestedPort(Kind[h], Ports) \cap Ports = {}
  <2>1. NextMailPort(Ports) \cap Ports = {}
    BY DEF NextMailPort
  <2> QED
    BY <2>1 DEF SuggestedPort
<1> QED
  BY <1>1, <1>2 DEF GetScanPort, AnyUnscanned

LEMMA WedgedStep ==
  ASSUME TypeOK, Wedged, [Next]_vars, loop' # "off"
  PROVE  Wedged' /\ UNCHANGED portTbl
<1> USE DEF stateVars, loopVars, feedVars, workVars, database
<1>1. CASE LoopGet
  <2>1. Head(hostQ) \in Targets
    BY <1>1 DEF LoopGet, TypeOK
  <2>2. Head(hostQ).host \in Hosts /\ KnownPorts(Head(hostQ)) = Ports
    BY <2>1 DEF KnownPorts, Targets, Wedged
  <2>3. portmap' = Ports /\ UNCHANGED loop
    BY <1>1, <2>2, NothingLeft DEF LoopGet
  <2> QED
    BY <1>1, <2>3 DEF LoopGet, Wedged
<1>2. CASE UNCHANGED <<loop, portmap, portTbl>>
  BY <1>2 DEF Wedged
<1>3. ~Start /\ ~LoopDispatch /\ ~LoopResult /\ ~Control /\ ~LoopForward /\ ~Crash
  BY DEF Wedged, Start, LoopDispatch, LoopResult, Control, LoopShutdown,
         LoopStop, LoopSpawn, LoopIgnore, LoopReceives, LoopForward, Crash
<1>4. LoopGet \/ UNCHANGED <<loop, portmap, portTbl>>
  BY <1>3 DEF Next, Step, Feeder, FeederOpen, FeederFetch, FeederPorts,
         FeederSend, Loop, Worker, WorkerBegin, WorkerStop, WorkerTake,
         WorkerPulse, WorkerScan, WorkerSend, WorkerExit, HostArrives,
         SendCtl, vars
<1> QED
  BY <1>1, <1>2, <1>4

(* No worker takes a step in a standoff.                                   *)
LEMMA StandoffStep ==
  ASSUME TypeOK, Standoff, [Next]_vars, loop' # "off"
  PROVE  Standoff' /\ UNCHANGED portTbl
<1> USE DEF stateVars, loopVars, feedVars, workVars, database
<1>1. ResultQCap \in Nat /\ MMQCap \in Nat
  BY ScannerAssumption DEF ResultQCap, MMQCap
<1>2. ASSUME NEW w \in Workers PROVE ~Worker(w)
  <2>1. CASE worker[w] = "none"
    BY <2>1 DEF Worker, WorkerBegin, WorkerStop, WorkerTake, WorkerPulse,
                WorkerScan, WorkerSend, WorkerExit
  <2>2. CASE worker[w] = "send" /\ Len(resultQ) = ResultQCap
    <3>1. ~WorkerSend(w)
      BY <1>1, <2>2 DEF WorkerSend
    <3> QED
      BY <2>2, <3>1 DEF Worker, WorkerBegin, WorkerStop, WorkerTake,
                        WorkerPulse, WorkerScan, WorkerExit
  <2> QED
    BY <2>1, <2>2 DEF Standoff, NobodyListens
<1>3. ~LoopForward
  BY <1>1 DEF Standoff, LoopForward
<1>4. ~Start /\ ~LoopGet /\ ~LoopDispatch /\ ~LoopResult /\ ~Control /\ ~Crash
  BY DEF Standoff, Start, LoopGet, LoopDispatch, LoopResult, Control,
         LoopShutdown, LoopStop, LoopSpawn, LoopIgnore, LoopReceives, Crash
<1>5. UNCHANGED <<loop, mmQ, worker, resultQ, portTbl>>
  BY <1>2, <1>3, <1>4
     DEF Next, Step, Feeder, FeederOpen, FeederFetch, FeederPorts,
         FeederSend, Loop, HostArrives, SendCtl, vars
<1> QED
  BY <1>5 DEF Standoff, NobodyListens, ResultQCap, MMQCap

(* Only Loop in its select reads RC.                                       *)
LEMMA OnlyLoopReads ==
  ASSUME TypeOK, [Next]_vars, loop \in {"get", "mm"}, loop' # "off"
  PROVE  Len(RC') >= Len(RC)
<1> USE DEF stateVars, loopVars, feedVars, workVars, database
<1>1. Len(RC) \in Nat /\ RC \in Seq(CtlMsgs)
  BY LenProperties DEF TypeOK
<1>2. ~Control /\ ~Crash
  BY DEF Control, LoopShutdown, LoopStop, LoopSpawn, LoopIgnore, LoopReceives,
         Crash
<1>3. ASSUME NEW msg \in CtlMsgs, SendCtl(msg) PROVE Len(RC') >= Len(RC)
  BY <1>1, <1>3, AppendProperties DEF SendCtl
<1>4. UNCHANGED RC \/ \E msg \in CtlMsgs : SendCtl(msg)
  BY <1>2 DEF Next, Step, Start, Feeder, FeederOpen, FeederFetch, FeederPorts,
         FeederSend, Loop, LoopGet, LoopDispatch, LoopResult, LoopForward,
         Worker, WorkerBegin, WorkerStop, WorkerTake, WorkerPulse, WorkerScan,
         WorkerSend, WorkerExit, HostArrives, vars
<1> QED
  BY <1>1, <1>3, <1>4

(* A wedged Loop and a Loop that waits in front of a full mmQ nobody reads *)
(* never go on: no message is read and no result recorded until the        *)
(* process ends (scanner.go:356, scanner.go:252).                          *)
THEOREM DeadEnds == PanelSpec => LoopStaysStuck
<1>1. ASSUME PInv, [PanelNext]_panelVars
      PROVE  [ loop' # "off" =>
                 /\ Wedged => Wedged'
                 /\ Standoff => Standoff'
                 /\ Wedged \/ Standoff => Len(RC') >= Len(RC) /\ portTbl' = portTbl
             ]_panelVars
  <2>1. TypeOK /\ [Next]_vars
    BY <1>1, Projection DEF PInv, IInv
  <2>2. Wedged \/ Standoff => loop \in {"get", "mm"}
    BY DEF Wedged, Standoff
  <2> QED
    BY <2>1, <2>2, WedgedStep, StandoffStep, OnlyLoopReads
<1> QED
  BY <1>1, PanelInvariance, PTL DEF PanelSpec, LoopStaysStuck
=============================================================================
