--------------------------- MODULE PipelineProofs ---------------------------
(***************************************************************************)
(* Proofs about the way from random addresses to zone transfers, for every *)
(* number of workers, addresses and zones and every choice of faults.      *)
(*                                                                         *)
(* That the client implements Zones rests on the UNIQUE of the xfr table:  *)
(* of the workers that found no row for a zone, one alone gets past        *)
(* XfrAdd, and its row is unfinished for as long as it asks, unless its id *)
(* is a stray one, of a row that was lost (Held); on ids that come after   *)
(* those of all rows; and on the client being started once in the life of  *)
(* a process (NotYet).                                                     *)
(***************************************************************************)
EXTENDS Pipeline, SequenceFacts, FiniteSetTheorems, TLAPS

Held ==
  \A w \in XfrWorkers :
    /\ xw[w] \in {"look", "add", "ask", "finish"} => zone[w] \in ZoneNames
    /\ xw[w] = "finish" => result[w] \in Statuses
    /\ Asks(w) =>
         \/ xid[w] \in strays
         \/ /\ xid[w] \in DOMAIN rows
            /\ rows[xid[w]].zone = zone[w] /\ rows[xid[w]].status = "unfinished"
            /\ \A v \in XfrWorkers : Asks(v) /\ xid[v] = xid[w] => v = w

(* What a goroutine is about is an address.                                *)
Carried ==
  /\ \A w \in GenWorkers : gw[w] \in {"lookup", "send"} => gaddr[w] \in Addrs
  /\ ingest \in {"store", "pass", "stuck", "report"} => inhand \in Addrs

NotYet == main # "up" => NobodyIn(xw)

(* Before main has begun nobody stores hosts.                              *)
Asleep == main = "start" => ingest = "off"

IInv == TypeOK /\ Held /\ Carried /\ NotYet /\ Asleep /\ NamesPassedOnce

-----------------------------------------------------------------------------
LEMMA Capacities ==
  XfrQCap \in Nat /\ HostQCap \in Nat /\ XfrRCCap \in Nat /\ GenRCCap \in Nat
<1>1. Cardinality(XfrWorkers) \in Nat /\ Cardinality(GenWorkers) \in Nat
  BY XfrAssumption, PipelineAssumption, FS_CardinalityType
<1>2. XfrCnt \in Nat /\ GenCnt \in Nat
  BY <1>1, XfrAssumption, PipelineAssumption
<1> QED
  BY <1>2 DEF XfrQCap, HostQCap, XfrRCCap, GenRCCap

(* What a receive and a send do to a channel.                              *)
LEMMA Received ==
  ASSUME NEW S, NEW q \in Seq(S), NEW cap \in Nat, Len(q) <= cap, q # <<>>
  PROVE  Head(q) \in S /\ Tail(q) \in Seq(S) /\ Len(Tail(q)) <= cap
BY HeadTailProperties

LEMMA Sent ==
  ASSUME NEW S, NEW q \in Seq(S), NEW cap \in Nat, Len(q) < cap, NEW e \in S
  PROVE  Append(q, e) \in Seq(S) /\ Len(Append(q, e)) <= cap
BY AppendProperties

-----------------------------------------------------------------------------
(* What an insert and an update do to the xfr table.                       *)
LEMMA Inserted ==
  ASSUME rows \in Seq(Rows), NEW z \in ZoneNames,
         rows' = Append(rows, [zone |-> z, status |-> "unfinished"])
  PROVE  /\ rows' \in Seq(Rows)
         /\ NextId \in DOMAIN rows' /\ NextId \notin DOMAIN rows
         /\ rows'[NextId] = [zone |-> z, status |-> "unfinished"]
         /\ \A i \in DOMAIN rows : i \in DOMAIN rows' /\ rows'[i] = rows[i]
<1>1. [zone |-> z, status |-> "unfinished"] \in Rows
  BY DEF Rows, Statuses
<1> QED
  BY <1>1, AppendProperties, LenProperties DEF NextId

LEMMA Updated ==
  ASSUME rows \in Seq(Rows), NEW i \in DOMAIN rows, NEW status \in Statuses,
         rows' = [rows EXCEPT ![i].status = status]
  PROVE  /\ rows' \in Seq(Rows) /\ DOMAIN rows' = DOMAIN rows
         /\ \A k \in DOMAIN rows : k # i => rows'[k] = rows[k]
         /\ rows'[i].zone = rows[i].zone
<1>1. DOMAIN rows = 1 .. Len(rows) /\ rows[i] \in Rows
  BY LenProperties
<1>2. [rows[i] EXCEPT !.status = status] \in Rows
  BY <1>1 DEF Rows
<1>3. rows' = [rows EXCEPT ![i] = [rows[i] EXCEPT !.status = status]]
  OBVIOUS
<1>4. rows' \in Seq(Rows) /\ DOMAIN rows' = DOMAIN rows
  BY <1>1, <1>2, <1>3, ExceptSeq
<1>5. [rows[i] EXCEPT !.status = status].zone = rows[i].zone
  BY <1>1 DEF Rows
<1> QED
  BY <1>3, <1>4, <1>5

LEMMA Left ==
  ASSUME XfrTypeOK, NEW w \in XfrWorkers, XLeave(w)
  PROVE  /\ xw' \in [XfrWorkers -> {"none", "born", "select", "look", "add", "ask",
                                    "finish", "report"}]
         /\ zone' \in [XfrWorkers -> ZoneNames \cup {Nil}]
         /\ xid' \in [XfrWorkers -> Nat]
         /\ result' \in [XfrWorkers -> Statuses \cup {Nil}]
<1>1. xw' \in [XfrWorkers -> {"none", "born", "select", "look", "add", "ask",
                             "finish", "report"}]
  BY DEF XfrTypeOK, XLeave, XGoto, XHead
<1>2. zone' \in [XfrWorkers -> ZoneNames \cup {Nil}]
  BY DEF XfrTypeOK, XLeave
<1>3. xid' \in [XfrWorkers -> Nat]
  BY DEF XfrTypeOK, XLeave
<1>4. result' \in [XfrWorkers -> Statuses \cup {Nil}]
  BY DEF XfrTypeOK, XLeave
<1> QED
  BY <1>1, <1>2, <1>3, <1>4

LEMMA XfrTypeStep ==
  ASSUME XfrTypeOK, Held, NEW w \in XfrWorkers, XfrWorker(w)
  PROVE  XfrTypeOK'
<1> USE DEF XfrTypeOK, xfrTables, XGoto, XHead
<1>1. CASE XBegin(w) \/ XPulse(w) \/ XAsked(w)
  BY <1>1 DEF XBegin, XPulse, XAsked
<1>8. CASE XReport(w)
  BY <1>8, Left DEF XReport
<1>2. CASE XRecord(w)
  BY <1>2 DEF XRecord, Stored
<1>3. CASE XTake(w)
  <2>1. Head(xfrQ) \in Addrs /\ xfrQ' \in Seq(Addrs) /\ Len(xfrQ') <= XfrQCap
    BY <1>3, Received, Capacities DEF XTake
  <2>2. ZoneOf[Head(xfrQ)] \in ZoneNames \cup {Nil}
    BY <2>1, XfrAssumption
  <2> QED
    BY <1>3, <2>1, <2>2 DEF XTake
<1>4. CASE XControl(w)
  <2>1. /\ xfrRC' \in Seq({"Spawn", "Stop", "Shutdown", "Status"})
        /\ Len(xfrRC') <= XfrRCCap
    BY <1>4, Received, Capacities DEF XControl
  <2>2. /\ xw' \in [XfrWorkers -> {"none", "born", "select", "look", "add", "ask",
                                   "finish", "report"}]
        /\ xrun' \in BOOLEAN
    BY <1>4 DEF XControl, XObeys
  <2> QED
    BY <1>4, <2>1, <2>2 DEF XControl
<1>5. CASE XLook(w)
  BY <1>5, Left DEF XLook
<1>6. CASE XAdd(w)
  <2>1. zone[w] \in ZoneNames /\ NextId \in Nat
    BY <1>6, LenProperties DEF XAdd, Held, NextId
  <2>2. rows' \in Seq(Rows) /\ lost' \subseteq Addrs \cup ZoneNames /\ strays' \subseteq Nat
    BY <1>6, <2>1, Inserted DEF XAdd, Enter
  <2>3. /\ zone' \in [XfrWorkers -> ZoneNames \cup {Nil}]
        /\ xid' \in [XfrWorkers -> Nat]
        /\ result' \in [XfrWorkers -> Statuses \cup {Nil}]
    BY <1>6, <2>1, Left DEF XAdd
  <2>4. xw' \in [XfrWorkers -> {"none", "born", "select", "look", "add", "ask",
                               "finish", "report"}]
    BY <1>6, Left DEF XAdd
  <2> QED
    BY <1>6, <2>2, <2>3, <2>4 DEF XAdd
<1>7. CASE XFinish(w)
  <2>1. zone[w] \in ZoneNames /\ result[w] \in Statuses
    BY <1>7 DEF XFinish, Held
  <2>2. rows' \in Seq(Rows) /\ lost' \subseteq Addrs \cup ZoneNames
    BY <1>7, <2>1, Updated DEF XFinish, Update
  <2>3. /\ zone' \in [XfrWorkers -> ZoneNames \cup {Nil}]
        /\ xid' \in [XfrWorkers -> Nat]
        /\ result' \in [XfrWorkers -> Statuses \cup {Nil}]
        /\ xw' \in [XfrWorkers -> {"none", "born", "select", "look", "add", "ask",
                                  "finish", "report"}]
    BY <1>7, Left DEF XFinish
  <2> QED
    BY <1>7, <2>2, <2>3 DEF XFinish
<1> QED
  BY <1>1, <1>2, <1>3, <1>4, <1>5, <1>6, <1>7, <1>8 DEF XfrWorker

LEMMA TypeStep ==
  ASSUME TypeOK, Held, Carried, [Next]_vars
  PROVE  TypeOK'
<1> USE DEF TypeOK, genVars, mainVars
<1>1. ASSUME UNCHANGED xfrVars PROVE XfrTypeOK'
  BY <1>1 DEF XfrTypeOK, xfrVars, xfrTables
<1>2. CASE StartGenerator \/ SetFlag \/ MakeQueue
  BY <1>1, <1>2 DEF StartGenerator, SetFlag, MakeQueue
<1>15. CASE Report
  BY <1>1, <1>15 DEF Report
<1>3. CASE StartClient
  BY <1>3 DEF StartClient, XfrStart, XfrTypeOK, xfrTables
<1>4. ASSUME NEW w \in GenWorkers, GControl(w) PROVE TypeOK'
  <2>1. genRC' \in Seq(CtlMsgs) /\ Len(genRC') <= GenRCCap
    BY <1>4, Received, Capacities DEF GControl
  <2>2. /\ gw' \in [GenWorkers -> {"none", "select", "pick", "lookup", "send"}]
        /\ grun' \in BOOLEAN
    BY <1>4 DEF GControl, GObeys, GGoto, GHead
  <2> QED
    BY <1>1, <1>4, <2>1, <2>2 DEF GControl
<1>5. ASSUME NEW w \in GenWorkers, GPick(w) \/ GLookup(w) PROVE TypeOK'
  BY <1>1, <1>5 DEF GPick, GLookup, GGoto, GHead, Carried
<1>6. ASSUME NEW w \in GenWorkers, GSend(w) PROVE TypeOK'
  <2>1. hostQ' \in Seq(Addrs) /\ Len(hostQ') <= HostQCap
    BY <1>6, Sent, Capacities DEF GSend, Carried
  <2> QED
    BY <1>1, <1>6, <2>1 DEF GSend, GGoto, GHead
<1>7. CASE Receive
  <2>1. Head(hostQ) \in Addrs /\ hostQ' \in Seq(Addrs) /\ Len(hostQ') <= HostQCap
    BY <1>7, Received, Capacities DEF Receive
  <2> QED
    BY <1>1, <1>7, <2>1 DEF Receive
<1>8. CASE Store
  <2>1. /\ ingest' \in {"off", "get", "store", "pass", "stuck", "report"}
        /\ inhand' \in Addrs \cup {Nil}
    BY <1>8 DEF Store, Forward
  <2>2. hosts' \subseteq Addrs /\ lost' \subseteq Addrs \cup ZoneNames
    BY <1>8 DEF Store, Stored, Carried, XfrTypeOK
  <2> QED
    BY <1>8, <2>1, <2>2 DEF Store, XfrTypeOK
<1>9. CASE Pass
  <2>1. xfrQ' \in Seq(Addrs) /\ Len(xfrQ') <= XfrQCap
    BY <1>9, Sent, Capacities DEF Pass, Carried, XfrTypeOK
  <2> QED
    BY <1>9, <2>1 DEF Pass, XfrTypeOK, xfrTables
<1>10. ASSUME NEW w \in XfrWorkers, Client(w) PROVE TypeOK'
  BY <1>10, XfrTypeStep DEF Client, others
<1>11. ASSUME NEW msg \in CtlMsgs, SendGen(msg) PROVE TypeOK'
  <2>1. genRC' \in Seq(CtlMsgs) /\ Len(genRC') <= GenRCCap
    BY <1>11, Sent, Capacities DEF SendGen
  <2> QED
    BY <1>1, <1>11, <2>1, PipelineAssumption DEF SendGen
<1>12. ASSUME NEW msg \in CtlMsgs, SendXfr(msg) PROVE TypeOK'
  <2>1. /\ xfrRC' \in Seq({"Spawn", "Stop", "Shutdown", "Status"})
        /\ Len(xfrRC') <= XfrRCCap
    BY <1>12, Sent, Capacities, PipelineAssumption DEF SendXfr, XfrTypeOK
  <2> QED
    BY <1>12, <2>1, PipelineAssumption DEF SendXfr, XfrTypeOK, xfrTables
<1>13. CASE Crash
  <2>1. XfrTypeOK'
    <3>1. XfrTypeOK
      OBVIOUS
    <3>2. xfrQ' \in Seq(Addrs) /\ Len(xfrQ') <= XfrQCap
      BY <1>13, Capacities DEF Crash, XfrEnds
    <3>3. xfrRC' \in Seq({"Spawn", "Stop", "Shutdown", "Status"}) /\ Len(xfrRC') <= XfrRCCap
      BY <1>13, Capacities DEF Crash, XfrEnds
    <3> QED
      BY <1>13, <3>1, <3>2, <3>3 DEF Crash, XfrEnds, XfrTypeOK
  <2> QED
    BY <1>13, <2>1, Capacities, PipelineAssumption DEF Crash
<1>14. CASE UNCHANGED vars
  BY <1>1, <1>14 DEF vars, others
<1> QED
  BY <1>2, <1>3, <1>4, <1>5, <1>6, <1>7, <1>8, <1>9, <1>10, <1>11, <1>12, <1>13, <1>14, <1>15
     DEF Next, MainStep, GenWorker, Ingest

-----------------------------------------------------------------------------
LEMMA CarriedStep ==
  ASSUME TypeOK, Carried, [Next]_vars
  PROVE  Carried'
<1> USE DEF TypeOK, Carried, genVars, mainVars
<1>1. CASE MainStep
  BY <1>1 DEF MainStep, StartGenerator, SetFlag, MakeQueue, StartClient
<1>2. ASSUME NEW w \in GenWorkers, GenWorker(w) PROVE Carried'
  <2>1. CASE GControl(w)
    BY <2>1 DEF GControl, GObeys, GGoto, GHead
  <2>2. CASE GPick(w) \/ GLookup(w) \/ GSend(w)
    BY <2>2 DEF GPick, GLookup, GSend, GGoto, GHead
  <2> QED
    BY <1>2, <2>1, <2>2 DEF GenWorker
<1>3. CASE Receive
  <2>1. Head(hostQ) \in Addrs
    BY <1>3, HeadTailProperties DEF Receive
  <2> QED
    BY <1>3, <2>1 DEF Receive
<1>4. CASE Store \/ Pass \/ Report
  BY <1>4 DEF Store, Forward, Pass, Report
<1>5. ASSUME NEW w \in XfrWorkers, Client(w) PROVE Carried'
  BY <1>5 DEF Client, others
<1>6. ASSUME NEW msg \in CtlMsgs, SendGen(msg) \/ SendXfr(msg) PROVE Carried'
  BY <1>6 DEF SendGen, SendXfr
<1>7. CASE Crash
  BY <1>7 DEF Crash
<1>8. CASE UNCHANGED vars
  BY <1>8 DEF vars, others
<1> QED
  BY <1>1, <1>2, <1>3, <1>4, <1>5, <1>6, <1>7, <1>8 DEF Next, Ingest

(* Nobody starts a worker before main does.                                *)
LEMMA NotYetStep ==
  ASSUME TypeOK, NotYet, [Next]_vars
  PROVE  NotYet'
<1> USE DEF TypeOK, XfrTypeOK, NotYet, NobodyIn
<1>1. ASSUME main' = main, xw' = xw PROVE NotYet'
  BY <1>1
<1>2. CASE StartGenerator \/ SetFlag \/ MakeQueue
  BY <1>2 DEF StartGenerator, SetFlag, MakeQueue, xfrVars
<1>3. CASE StartClient
  BY <1>3 DEF StartClient
<1>4. ASSUME NEW w \in GenWorkers, GenWorker(w) PROVE NotYet'
  BY <1>1, <1>4 DEF GenWorker, GControl, GPick, GLookup, GSend, xfrVars, mainVars
<1>5. CASE Ingest
  BY <1>1, <1>5 DEF Ingest, Receive, Store, Pass, Report, xfrVars
<1>6. ASSUME NEW w \in XfrWorkers, Client(w) PROVE NotYet'
  <2>1. xw[w] # "none"
    BY <1>6 DEF Client, XfrWorker, XBegin, XTake, XControl, XPulse, XLook, XAdd,
                XRecord, XAsked, XFinish, XReport
  <2>2. main' = "up"
    BY <1>6, <2>1 DEF Client, others, mainVars
  <2> QED
    BY <2>2
<1>7. ASSUME NEW msg \in CtlMsgs, SendGen(msg) \/ SendXfr(msg) PROVE NotYet'
  BY <1>1, <1>7 DEF SendGen, SendXfr, xfrVars, mainVars
<1>8. CASE Crash
  BY <1>8 DEF Crash, XfrEnds
<1>9. CASE UNCHANGED vars
  BY <1>1, <1>9 DEF vars, others, xfrVars, mainVars
<1> QED
  BY <1>2, <1>3, <1>4, <1>5, <1>6, <1>7, <1>8, <1>9 DEF Next, MainStep

LEMMA AsleepStep ==
  ASSUME Asleep, [Next]_vars
  PROVE  Asleep'
BY DEF Asleep, Next, MainStep, StartGenerator, SetFlag, MakeQueue, StartClient,
       GenWorker, GControl, GPick, GLookup, GSend, Ingest, Receive, Store,
       Forward, Pass, Report, Client, SendGen, SendXfr, Crash, vars, others, mainVars

-----------------------------------------------------------------------------
(* What is in xfrQ or about to be sent there is in the table and there     *)
(* once: a host that is stored was not in the table before.  A host whose  *)
(* row was lost is the exception, and stays it.                            *)
LEMMA PassedOnceStep ==
  ASSUME TypeOK, Carried, NamesPassedOnce, [Next]_vars
  PROVE  NamesPassedOnce'
<1> DEFINE P == ingest \in {"pass", "stuck"}
<1> USE DEF TypeOK, XfrTypeOK
<1>1. ASSUME xfrQ' = xfrQ, hosts \subseteq hosts', lost \subseteq lost',
             P' => P /\ inhand' = inhand
      PROVE  NamesPassedOnce'
  BY <1>1 DEF NamesPassedOnce, OnTheWay
<1>2. CASE MainStep
  BY <1>1, <1>2 DEF MainStep, StartGenerator, SetFlag, MakeQueue, StartClient,
                    XfrStart, xfrVars, xfrTables
<1>3. ASSUME NEW w \in GenWorkers, GenWorker(w) PROVE NamesPassedOnce'
  BY <1>1, <1>3 DEF GenWorker, GControl, GPick, GLookup, GSend, xfrVars, xfrTables,
                    mainVars
<1>4. CASE Receive \/ Report
  BY <1>1, <1>4 DEF Receive, Report, xfrVars, xfrTables
<1>5. CASE Store
  <2>1. CASE inhand \notin hosts /\ Stored(inhand) /\ Forward
    <3>1. /\ Range(xfrQ) \subseteq hosts \cup lost
          /\ inhand \in Range(xfrQ) => inhand \in lost
      BY <2>1 DEF NamesPassedOnce, OnTheWay
    <3>2. /\ hosts \subseteq hosts' /\ lost \subseteq lost'
          /\ inhand \in hosts' \cup lost'
      BY <2>1 DEF Stored
    <3>3. xfrQ' = xfrQ /\ (P' => inhand' = inhand)
      BY <1>5, <2>1 DEF Store, Forward
    <3> QED
      BY <3>1, <3>2, <3>3 DEF NamesPassedOnce, OnTheWay
  <2>2. CASE ingest' \in {"get", "report"} /\ UNCHANGED <<hosts, lost>>
    BY <1>1, <1>5, <2>2 DEF Store
  <2> QED
    BY <1>5, <2>1, <2>2 DEF Store
<1>6. CASE Pass
  <2>1. /\ inhand \in Addrs /\ inhand \in hosts \cup lost
        /\ inhand \in Range(xfrQ) => inhand \in lost
        /\ Range(xfrQ) \subseteq hosts \cup lost
    BY <1>6 DEF Pass, Carried, NamesPassedOnce, OnTheWay
  <2>2. /\ ~P' /\ UNCHANGED <<hosts, lost>>
        /\ xfrQ' = Append(xfrQ, inhand)
    BY <1>6 DEF Pass, xfrTables
  <2>3. Range(xfrQ') = Range(xfrQ) \cup {inhand}
    BY <2>1, <2>2, RangeOfAppend
  <2>4. ASSUME NEW i \in DOMAIN xfrQ', NEW k \in DOMAIN xfrQ', i # k,
               xfrQ'[i] = xfrQ'[k]
        PROVE  xfrQ'[i] \in lost
    <3>1. /\ Len(xfrQ) \in Nat /\ DOMAIN xfrQ = 1 .. Len(xfrQ)
          /\ DOMAIN xfrQ' = 1 .. Len(xfrQ) + 1
          /\ \A n \in DOMAIN xfrQ : xfrQ'[n] = xfrQ[n]
          /\ xfrQ'[Len(xfrQ) + 1] = inhand
      BY <2>1, <2>2, AppendProperties, LenProperties
    <3>2. CASE i \in DOMAIN xfrQ /\ k \in DOMAIN xfrQ
      BY <2>4, <3>1, <3>2 DEF NamesPassedOnce
    <3>3. CASE i = Len(xfrQ) + 1 \/ k = Len(xfrQ) + 1
      <4>1. xfrQ'[i] = inhand /\ inhand \in Range(xfrQ)
        <5>1. CASE i = Len(xfrQ) + 1
          <6>1. k \in DOMAIN xfrQ /\ xfrQ[k] = inhand
            BY <2>4, <3>1, <5>1
          <6> QED
            BY <3>1, <5>1, <6>1 DEF Range
        <5>2. CASE k = Len(xfrQ) + 1
          <6>1. i \in DOMAIN xfrQ /\ xfrQ[i] = inhand
            BY <2>4, <3>1, <5>2
          <6> QED
            BY <2>4, <3>1, <5>2, <6>1 DEF Range
        <5> QED
          BY <3>3, <5>1, <5>2
      <4> QED
        BY <2>1, <4>1
    <3> QED
      BY <3>1, <3>2, <3>3
  <2> QED
    BY <2>1, <2>2, <2>3, <2>4 DEF NamesPassedOnce, OnTheWay
<1>7. ASSUME NEW w \in XfrWorkers, Client(w) PROVE NamesPassedOnce'
  <2>1. ingest' = ingest /\ inhand' = inhand
    BY <1>7 DEF Client, others, mainVars
  <2>2. CASE XTake(w)
    <3>1. xfrQ # <<>> /\ xfrQ' = Tail(xfrQ) /\ UNCHANGED <<hosts, lost>>
      BY <2>2 DEF XTake, xfrTables
    <3>2. Range(xfrQ') \subseteq Range(xfrQ)
      BY <3>1, RangeOfTail
    <3>3. /\ Len(xfrQ) \in Nat /\ DOMAIN xfrQ = 1 .. Len(xfrQ)
          /\ DOMAIN xfrQ' = 1 .. Len(xfrQ) - 1
          /\ \A n \in DOMAIN xfrQ' : xfrQ'[n] = xfrQ[n + 1]
      BY <3>1, HeadTailProperties, LenProperties
    <3>4. ASSUME NEW i \in DOMAIN xfrQ', NEW k \in DOMAIN xfrQ',
                 xfrQ'[i] = xfrQ'[k]
          PROVE  i = k \/ xfrQ'[i] \in lost
      <4>1. i + 1 \in DOMAIN xfrQ /\ k + 1 \in DOMAIN xfrQ /\ (i + 1 = k + 1 => i = k)
        BY <3>3
      <4> QED
        BY <3>3, <3>4, <4>1 DEF NamesPassedOnce
    <3> QED
      BY <2>1, <3>1, <3>2, <3>4 DEF NamesPassedOnce, OnTheWay
  <2>3. CASE ~XTake(w)
    <3>1. xfrQ' = xfrQ /\ hosts \subseteq hosts' /\ lost \subseteq lost'
      BY <1>7, <2>3 DEF Client, XfrWorker, XBegin, XControl, XPulse, XLook, XAdd,
                        Enter, XRecord, Stored, XAsked, XFinish, XReport, xfrTables
    <3> QED
      BY <1>1, <2>1, <3>1
  <2> QED
    BY <2>2, <2>3
<1>8. ASSUME NEW msg \in CtlMsgs, SendGen(msg) \/ SendXfr(msg)
      PROVE  NamesPassedOnce'
  BY <1>1, <1>8 DEF SendGen, SendXfr, xfrVars, xfrTables, mainVars
<1>9. CASE Crash
  BY <1>9 DEF Crash, XfrEnds, NamesPassedOnce, OnTheWay, Range
<1>10. CASE UNCHANGED vars
  BY <1>1, <1>10 DEF vars, others, xfrVars, xfrTables, mainVars
<1> QED
  BY <1>2, <1>3, <1>4, <1>5, <1>6, <1>7, <1>8, <1>9, <1>10 DEF Next, Ingest

-----------------------------------------------------------------------------
(* A step in which nobody begins or ends to ask, and whoever looks or adds *)
(* has a zone.                                                             *)
LEMMA NobodyAsks ==
  ASSUME Held, UNCHANGED <<rows, strays>>,
         \A w \in XfrWorkers :
           /\ Asks(w)' <=> Asks(w)
           /\ Asks(w) => zone'[w] = zone[w] /\ xid'[w] = xid[w]
           /\ xw'[w] \in {"look", "add"} => zone'[w] \in ZoneNames
           /\ xw'[w] = "finish" => result'[w] \in Statuses
  PROVE  Held' /\ UNCHANGED Z!vars
<1>1. Held'
  BY DEF Held, Asks
<1>2. Asking' = Asking
  BY DEF Asking
<1> QED
  BY <1>1, <1>2 DEF Z!vars

(* The step of XfrAdd that lets a worker go on: with its row, or without.  *)
LEMMA AddStep ==
  ASSUME XfrTypeOK, Held, NEW w \in XfrWorkers, xw[w] = "add",
         ~HasRow(zone[w]), Enter(zone[w]),
         xid' = [xid EXCEPT ![w] = NextId], xw' = [xw EXCEPT ![w] = "ask"],
         UNCHANGED <<zone, result>>
  PROVE  Held' /\ Z!Next
<1> USE DEF XfrTypeOK
<1>1. zone[w] \in ZoneNames /\ ~Asks(w)
  BY DEF Held, Asks
<1>2. /\ Asks(w)' /\ xid'[w] = NextId
      /\ \A v \in XfrWorkers \ {w} :
           (Asks(v)' <=> Asks(v)) /\ xw'[v] = xw[v] /\ xid'[v] = xid[v]
  BY DEF Asks
<1>3. Asking' = Asking \cup {[zone |-> zone[w], id |-> NextId]}
  <2>1. \A v \in XfrWorkers : Asks(v) => v # w /\ Asks(v)' /\ xid'[v] = xid[v]
    BY <1>1, <1>2
  <2>2. \A v \in XfrWorkers : Asks(v)' => v = w \/ (Asks(v) /\ xid'[v] = xid[v])
    BY <1>2
  <2>3. ASSUME NEW t \in Asking' PROVE t \in Asking \cup {[zone |-> zone[w], id |-> NextId]}
    <3>1. PICK v \in XfrWorkers : Asks(v)' /\ t = [zone |-> zone[v], id |-> xid'[v]]
      BY <2>3 DEF Asking
    <3> QED
      BY <1>2, <2>2, <3>1 DEF Asking
  <2>4. ASSUME NEW t \in Asking PROVE t \in Asking'
    <3>1. PICK v \in XfrWorkers : Asks(v) /\ t = [zone |-> zone[v], id |-> xid[v]]
      BY <2>4 DEF Asking
    <3>2. Asks(v)' /\ t = [zone |-> zone'[v], id |-> xid'[v]]
      BY <2>1, <3>1
    <3> QED
      BY <3>2 DEF Asking
  <2>5. [zone |-> zone[w], id |-> NextId] \in Asking'
    <3>1. [zone |-> zone[w], id |-> NextId] = [zone |-> zone'[w], id |-> xid'[w]]
      BY <1>2
    <3> QED
      BY <1>2, <3>1 DEF Asking
  <2> QED
    BY <2>3, <2>4, <2>5
<1>4. [zone |-> zone[w], id |-> NextId] = Z!Transfer(zone[w]) /\ ~Z!RowOf(zone[w])
  BY DEF Z!Transfer, Z!RowOf, NextId, HasRow
<1>5. CASE /\ rows' = Append(rows, [zone |-> zone[w], status |-> "unfinished"])
           /\ UNCHANGED strays
  <2>1. /\ NextId \in DOMAIN rows' /\ NextId \notin DOMAIN rows
        /\ rows'[NextId].zone = zone[w] /\ rows'[NextId].status = "unfinished"
        /\ \A i \in DOMAIN rows : i \in DOMAIN rows' /\ rows'[i] = rows[i]
    BY <1>1, <1>5, Inserted
  <2>2. ASSUME NEW v \in XfrWorkers \ {w}, Asks(v), xid[v] \notin strays
        PROVE  /\ xid[v] \in DOMAIN rows /\ xid[v] # NextId
               /\ rows[xid[v]].zone = zone[v] /\ rows[xid[v]].status = "unfinished"
               /\ \A u \in XfrWorkers : Asks(u) /\ xid[u] = xid[v] => u = v
    BY <2>1, <2>2 DEF Held
  <2>3. ASSUME NEW v \in XfrWorkers, Asks(v)', xid'[v] \notin strays
        PROVE  /\ xid'[v] \in DOMAIN rows'
               /\ rows'[xid'[v]].zone = zone[v] /\ rows'[xid'[v]].status = "unfinished"
               /\ \A u \in XfrWorkers : Asks(u)' /\ xid'[u] = xid'[v] => u = v
    <3>1. CASE v = w
      <4>1. ASSUME NEW u \in XfrWorkers \ {w}, Asks(u) PROVE xid[u] # NextId
        BY <1>2, <2>2, <2>3, <3>1, <4>1
      <4> QED
        BY <1>2, <2>1, <3>1, <4>1
    <3>2. CASE v # w
      BY <1>2, <2>1, <2>2, <2>3, <3>2
    <3> QED
      BY <3>1, <3>2
  <2>4. Held'
    <3>1. \A v \in XfrWorkers : xw'[v] = "finish" => result'[v] \in Statuses
      BY <1>2 DEF Held
    <3>2. \A v \in XfrWorkers : xw'[v] \in {"look", "add", "ask", "finish"}
                                   => zone'[v] \in ZoneNames
      BY <1>1, <1>2 DEF Held
    <3> QED
      BY <1>5, <2>3, <3>1, <3>2 DEF Held
  <2>5. Z!Begin(zone[w])
    BY <1>3, <1>4, <1>5 DEF Z!Begin
  <2> QED
    BY <1>1, <2>4, <2>5 DEF Z!Next
<1>6. CASE UNCHANGED rows /\ strays' = strays \cup {NextId}
  <2>1. Held'
    <3>1. \A v \in XfrWorkers : /\ xw'[v] \in {"look", "add", "ask", "finish"}
                                     => zone'[v] \in ZoneNames
                                /\ xw'[v] = "finish" => result'[v] \in Statuses
      BY <1>1, <1>2 DEF Held
    <3>2. ASSUME NEW v \in XfrWorkers, Asks(v)', xid'[v] \notin strays'
          PROVE  /\ xid'[v] \in DOMAIN rows
                 /\ rows[xid'[v]].zone = zone'[v]
                 /\ rows[xid'[v]].status = "unfinished"
                 /\ \A u \in XfrWorkers : Asks(u)' /\ xid'[u] = xid'[v] => u = v
      BY <1>2, <1>6, <3>2 DEF Held
    <3> QED
      BY <1>6, <3>1, <3>2 DEF Held
  <2>2. Z!Stray(zone[w])
    BY <1>3, <1>4, <1>6 DEF Z!Stray
  <2> QED
    BY <1>1, <2>1, <2>2 DEF Z!Next
<1> QED
  BY <1>5, <1>6 DEF Enter

(* The end of a transfer, whatever becomes of its row's status.            *)
LEMMA EndStep ==
  ASSUME XfrTypeOK, Held, NEW w \in XfrWorkers, XFinish(w)
  PROVE  Held' /\ Z!Next
<1> USE DEF XfrTypeOK, XGoto, XHead
<1> DEFINE t == [zone |-> zone[w], id |-> xid[w]]
<1>1. /\ Asks(w) /\ ~Asks(w)' /\ xw'[w] \notin {"look", "add"} /\ t \in Asking
      /\ UNCHANGED strays /\ result[w] \in Statuses
      /\ \A v \in XfrWorkers \ {w} :
           /\ xw'[v] = xw[v] /\ zone'[v] = zone[v]
           /\ xid'[v] = xid[v] /\ result'[v] = result[v]
           /\ Asks(v)' <=> Asks(v)
  BY DEF XFinish, XLeave, Asks, Asking, Held
<1>2. \/ UNCHANGED rows
      \/ xid[w] \in DOMAIN rows /\ rows' = [rows EXCEPT ![xid[w]].status = result[w]]
  BY DEF XFinish, Update
<1>3. DOMAIN rows' = DOMAIN rows /\ \A i \in DOMAIN rows : i # xid[w] => rows'[i] = rows[i]
  BY <1>1, <1>2, Updated
<1>4. Held'
  <2>1. ASSUME NEW v \in XfrWorkers, Asks(v)', xid'[v] \notin strays
        PROVE  /\ xid'[v] \in DOMAIN rows'
               /\ rows'[xid'[v]].zone = zone'[v]
               /\ rows'[xid'[v]].status = "unfinished"
               /\ \A u \in XfrWorkers : Asks(u)' /\ xid'[u] = xid'[v] => u = v
    <3>1. /\ v # w /\ Asks(v) /\ xid'[v] = xid[v] /\ zone'[v] = zone[v]
          /\ xid[v] \notin strays
      BY <1>1, <2>1
    <3>2. /\ xid[v] \in DOMAIN rows
          /\ rows[xid[v]].zone = zone[v] /\ rows[xid[v]].status = "unfinished"
          /\ \A u \in XfrWorkers : Asks(u) /\ xid[u] = xid[v] => u = v
      BY <3>1 DEF Held
    <3>3. xid[v] # xid[w]
      BY <1>1, <3>1, <3>2
    <3> QED
      BY <1>1, <1>3, <3>1, <3>2, <3>3
  <2>2. \A v \in XfrWorkers : /\ xw'[v] \in {"look", "add", "ask", "finish"}
                                   => zone'[v] \in ZoneNames
                              /\ xw'[v] = "finish" => result'[v] \in Statuses
    BY <1>1 DEF Held, Asks
  <2> QED
    BY <1>1, <2>1, <2>2 DEF Held
<1>5. Asking' = Asking \ {t} \/ (t.id \in strays /\ Asking' = Asking)
  <2>1. Asking' = {[zone |-> zone[v], id |-> xid[v]] :
                     v \in {u \in XfrWorkers \ {w} : Asks(u)}}
    BY <1>1 DEF Asking
  <2>4. Asking = Asking' \cup {t}
    <3>1. ASSUME NEW u \in Asking PROVE u \in Asking' \cup {t}
      <4>1. PICK v \in XfrWorkers : Asks(v) /\ u = [zone |-> zone[v], id |-> xid[v]]
        BY <3>1 DEF Asking
      <4> QED
        BY <2>1, <4>1
    <3>2. ASSUME NEW u \in Asking' PROVE u \in Asking
      BY <2>1, <3>2 DEF Asking
    <3> QED
      BY <1>1, <3>1, <3>2
  <2>2. CASE \E v \in XfrWorkers \ {w} : Asks(v) /\ [zone |-> zone[v], id |-> xid[v]] = t
    <3>1. t \in Asking' /\ t.id = xid[w]
      BY <2>1, <2>2
    <3>2. xid[w] \in strays
      BY <1>1, <2>2 DEF Held
    <3>3. Asking = Asking' \cup {t}
      BY <2>4
    <3> QED
      BY <3>1, <3>2, <3>3
  <2>3. CASE \A v \in XfrWorkers \ {w} : Asks(v) => [zone |-> zone[v], id |-> xid[v]] # t
    <3>1. t \notin Asking'
      BY <2>1, <2>3
    <3> QED
      BY <2>4, <3>1
  <2> QED
    BY <2>2, <2>3
<1>6. Z!End(t)
  <2>1. t.id = xid[w] /\ result[w] \in {"success", "refused"}
    BY <1>1 DEF Statuses
  <2> QED
    BY <1>1, <1>2, <1>5, <2>1 DEF Z!End
<1> QED
  BY <1>1, <1>4, <1>6 DEF Z!Next

LEMMA WorkerStep ==
  ASSUME XfrTypeOK, Held, NEW w \in XfrWorkers, XfrWorker(w)
  PROVE  Held' /\ [Z!Next]_Z!vars
<1> USE DEF XfrTypeOK, XGoto, XHead, xfrTables
<1>1. CASE XBegin(w) \/ XPulse(w) \/ XRecord(w) \/ XAsked(w) \/ XReport(w)
  BY <1>1, NobodyAsks DEF XBegin, XPulse, XRecord, XAsked, XReport, XLeave, Held, Asks
<1>2. CASE XTake(w)
  <2>1. Head(xfrQ) \in Addrs
    BY <1>2, HeadTailProperties DEF XTake
  <2>2. xw'[w] = "look" => zone'[w] \in ZoneNames
    BY <1>2, <2>1, XfrAssumption DEF XTake
  <2> QED
    BY <1>2, <2>2, NobodyAsks DEF XTake, Held, Asks
<1>3. CASE XControl(w)
  BY <1>3, NobodyAsks DEF XControl, XObeys, Held, Asks
<1>4. CASE XLook(w)
  BY <1>4, NobodyAsks DEF XLook, XLeave, Held, Asks
<1>5. CASE XAdd(w)
  <2>1. CASE UNCHANGED <<rows, strays>> /\ XLeave(w)
    BY <1>5, <2>1, NobodyAsks DEF XAdd, XLeave, Held, Asks
  <2>2. CASE /\ ~HasRow(zone[w]) /\ Enter(zone[w])
             /\ xid' = [xid EXCEPT ![w] = NextId] /\ xw' = [xw EXCEPT ![w] = "ask"]
             /\ UNCHANGED <<zone, result>>
    BY <1>5, <2>2, AddStep DEF XAdd
  <2> QED
    BY <1>5, <2>1, <2>2 DEF XAdd
<1>6. CASE XFinish(w)
  BY <1>6, EndStep
<1> QED
  BY <1>1, <1>2, <1>3, <1>4, <1>5, <1>6 DEF XfrWorker

LEMMA ZonesStep ==
  ASSUME TypeOK, Held, NotYet, [Next]_vars
  PROVE  Held' /\ [Z!Next]_Z!vars
<1> USE DEF TypeOK, xfrVars, xfrTables
<1>1. ASSUME UNCHANGED <<xw, zone, xid, result, rows, strays>>
      PROVE  Held' /\ [Z!Next]_Z!vars
  BY <1>1, NobodyAsks DEF Held, Asks
<1>2. CASE StartGenerator \/ SetFlag \/ MakeQueue
  BY <1>1, <1>2 DEF StartGenerator, SetFlag, MakeQueue
<1>3. CASE StartClient
  <2>1. \A w \in XfrWorkers : xw[w] = "none"
    BY <1>3 DEF StartClient, NotYet, NobodyIn, XfrTypeOK
  <2>2. /\ \A w \in XfrWorkers : xw'[w] \in {"none", "born"}
        /\ UNCHANGED <<rows, strays>>
    BY <1>3, <2>1 DEF StartClient, XfrStart
  <2> QED
    BY <2>1, <2>2, NobodyAsks DEF Asks
<1>4. ASSUME NEW w \in GenWorkers, GenWorker(w) PROVE Held' /\ [Z!Next]_Z!vars
  BY <1>1, <1>4 DEF GenWorker, GControl, GPick, GLookup, GSend
<1>5. CASE Ingest
  BY <1>1, <1>5 DEF Ingest, Receive, Store, Pass, Report
<1>6. ASSUME NEW w \in XfrWorkers, Client(w) PROVE Held' /\ [Z!Next]_Z!vars
  BY <1>6, WorkerStep DEF Client
<1>7. ASSUME NEW msg \in CtlMsgs, SendGen(msg) \/ SendXfr(msg)
      PROVE  Held' /\ [Z!Next]_Z!vars
  BY <1>1, <1>7 DEF SendGen, SendXfr
<1>8. CASE Crash
  <2>1. /\ rows' = rows /\ strays' = {}
        /\ \A w \in XfrWorkers : ~Asks(w)' /\ xw'[w] = "none"
    BY <1>8 DEF Crash, XfrEnds, Asks
  <2>2. Held'
    BY <2>1 DEF Held
  <2>3. Asking' = {}
    BY <2>1 DEF Asking, Asks
  <2> QED
    BY <2>1, <2>2, <2>3 DEF Z!Next, Z!Kill
<1>9. CASE UNCHANGED vars
  BY <1>1, <1>9 DEF vars
<1> QED
  BY <1>2, <1>3, <1>4, <1>5, <1>6, <1>7, <1>8, <1>9 DEF Next, MainStep

-----------------------------------------------------------------------------
LEMMA AtFirst == Init => IInv /\ Z!Init
<1> SUFFICES ASSUME Init PROVE IInv /\ Z!Init
  OBVIOUS
<1>1. TypeOK
  <2>1. xfrQ \in Seq(Addrs) /\ Len(xfrQ) <= XfrQCap
    BY Capacities DEF Init, XfrInit
  <2>2. /\ xfrRC \in Seq({"Spawn", "Stop", "Shutdown", "Status"})
        /\ Len(xfrRC) <= XfrRCCap
    BY Capacities DEF Init, XfrInit
  <2>5. xid \in [XfrWorkers -> Nat] /\ rows \in Seq(Rows)
    BY DEF Init, XfrInit
  <2>3. XfrTypeOK
    BY <2>1, <2>2, <2>5 DEF Init, XfrInit, XfrTypeOK
  <2>4. /\ hostQ \in Seq(Addrs) /\ Len(hostQ) <= HostQCap
        /\ genRC \in Seq(CtlMsgs) /\ Len(genRC) <= GenRCCap
    BY Capacities DEF Init, GenInit
  <2> QED
    BY <2>3, <2>4, PipelineAssumption DEF Init, GenInit, TypeOK
<1>2. Held /\ NotYet /\ Asleep
  BY DEF Init, XfrInit, Held, Asks, NotYet, NobodyIn, Asleep
<1>3. Carried
  BY DEF Init, GenInit, Carried
<1>4. NamesPassedOnce
  BY DEF Init, XfrInit, NamesPassedOnce, OnTheWay, Range
<1>5. Z!Init
  BY DEF Init, XfrInit, Z!Init, Asking, Asks
<1> QED
  BY <1>1, <1>2, <1>3, <1>4, <1>5 DEF IInv

(* All parts of IInv hold in every state of the pipeline.                  *)
THEOREM Invariance == Spec => []IInv
<1>1. Init => IInv
  BY AtFirst
<1>2. IInv /\ [Next]_vars => IInv'
  BY TypeStep, CarriedStep, NotYetStep, AsleepStep, PassedOnceStep, ZonesStep
     DEF IInv
<1> QED
  BY <1>1, <1>2, PTL DEF Spec

(* The variables keep their types; the channels do not exceed their        *)
(* capacities.                                                             *)
THEOREM Typing == Spec => []TypeOK
BY Invariance, PTL DEF IInv

(* No host is on its way to the XFR workers twice, and each is in the      *)
(* table, although two generator workers may find the same address new     *)
(* (generator.go:171, guang.go:122); except for the hosts of which the     *)
(* process lost a row to a commit that failed (database.go:323).           *)
THEOREM PassedOnce == Spec => []NamesPassedOnce
BY Invariance, PTL DEF IInv

(* The client implements Zones: a zone that has a row is not asked for     *)
(* again, and no row changes once it has its final status, whatever is     *)
(* killed and whatever statement fails (xfr.go:192-209); and a commit that *)
(* fails unnoticed (database.go:680) does no more harm than Zones says.    *)
THEOREM Refinement == Spec => ImplementsZones
<1>1. Init => Z!Init
  BY AtFirst
<1>2. IInv /\ [Next]_vars => [Z!Next]_Z!vars
  BY ZonesStep DEF IInv
<1> QED
  BY <1>1, <1>2, Invariance, PTL DEF Spec, ImplementsZones, Z!Spec

-----------------------------------------------------------------------------
(* What Zones promises, proved from its own steps.                         *)
ZoneRows == /\ rows \in Seq([zone : ZoneNames,
                             status : {"unfinished", "success", "refused"}])
            /\ strays \subseteq Nat
            /\ Z!OneRowEach

LEMMA ZonesFirst == Z!Init => ZoneRows /\ Z!AskedUnfinished
BY DEF Z!Init, ZoneRows, Z!AskedUnfinished, Z!OneRowEach

LEMMA ZonesBegin ==
  ASSUME ZoneRows, Z!AskedUnfinished, NEW z \in ZoneNames, Z!Begin(z)
  PROVE  ZoneRows' /\ Z!AskedUnfinished' /\ Z!KeepsRows
<1> DEFINE n == Len(rows) + 1
           r == [zone |-> z, status |-> "unfinished"]
<1>1. r \in [zone : ZoneNames, status : {"unfinished", "success", "refused"}]
  OBVIOUS
<1>2. /\ Len(rows) \in Nat /\ DOMAIN rows = 1 .. Len(rows)
      /\ DOMAIN rows' = 1 .. n /\ rows'[n] = r
      /\ rows' \in Seq([zone : ZoneNames, status : {"unfinished", "success", "refused"}])
      /\ \A i \in DOMAIN rows : i \in DOMAIN rows' /\ rows'[i] = rows[i]
  BY <1>1, AppendProperties, LenProperties DEF Z!Begin, ZoneRows
<1>3. \A i \in DOMAIN rows : rows[i].zone # z
  BY DEF Z!Begin, Z!RowOf
<1>4. ZoneRows'
  <2>1. ASSUME NEW i \in DOMAIN rows', NEW k \in DOMAIN rows',
               rows'[i].zone = rows'[k].zone
        PROVE  i = k
    <3>1. CASE i = n \/ k = n
      BY <1>2, <1>3, <2>1, <3>1
    <3>2. CASE i \in DOMAIN rows /\ k \in DOMAIN rows
      BY <1>2, <2>1, <3>2 DEF ZoneRows, Z!OneRowEach
    <3> QED
      BY <1>2, <3>1, <3>2
  <2> QED
    BY <1>2, <2>1 DEF ZoneRows, Z!OneRowEach, Z!Begin
<1>5. Z!AskedUnfinished'
  <2>1. Z!Transfer(z).id = n /\ Z!Transfer(z).zone = z
    BY DEF Z!Transfer
  <2>2. Asking' = Asking \cup {Z!Transfer(z)} /\ strays' = strays
    BY DEF Z!Begin
  <2> QED
    <3>1. ASSUME NEW t \in Asking, t.id \notin strays
          PROVE  /\ t.id \in DOMAIN rows'
                 /\ rows'[t.id] = [zone |-> t.zone, status |-> "unfinished"]
      <4>1. /\ t.id \in DOMAIN rows
            /\ rows[t.id] = [zone |-> t.zone, status |-> "unfinished"]
        BY <3>1 DEF Z!AskedUnfinished
      <4> QED
        BY <1>2, <4>1
    <3>2. n \in DOMAIN rows' /\ rows'[n] = [zone |-> z, status |-> "unfinished"]
      BY <1>2
    <3> QED
      BY <2>1, <2>2, <3>1, <3>2 DEF Z!AskedUnfinished
<1>6. Z!KeepsRows
  <2>1. \A t \in Asking' \ Asking : t = Z!Transfer(z)
    BY DEF Z!Begin
  <2>2. Z!Transfer(z).zone = z /\ ~Z!RowOf(z)
    BY DEF Z!Transfer, Z!Begin
  <2> QED
    BY <1>2, <2>1, <2>2 DEF Z!KeepsRows
<1> QED
  BY <1>4, <1>5, <1>6

LEMMA ZonesStray ==
  ASSUME ZoneRows, Z!AskedUnfinished, NEW z \in ZoneNames, Z!Stray(z)
  PROVE  ZoneRows' /\ Z!AskedUnfinished' /\ Z!KeepsRows
<1>1. /\ Z!Transfer(z).id = Len(rows) + 1 /\ Z!Transfer(z).zone = z
      /\ Len(rows) \in Nat
  BY LenProperties DEF Z!Transfer, ZoneRows
<1>2. /\ rows' = rows /\ ~Z!RowOf(z)
      /\ strays' = strays \cup {Z!Transfer(z).id}
      /\ Asking' = Asking \cup {Z!Transfer(z)}
  BY DEF Z!Stray
<1>3. ZoneRows'
  <2>1. Len(rows) + 1 \in Nat
    BY <1>1
  <2>2. strays' \subseteq Nat
    BY <1>1, <1>2, <2>1 DEF ZoneRows
  <2>3. Z!OneRowEach'
    BY <1>2 DEF ZoneRows, Z!OneRowEach
  <2> QED
    BY <1>2, <2>2, <2>3 DEF ZoneRows
<1>4. Z!AskedUnfinished'
  BY <1>2 DEF Z!AskedUnfinished
<1>5. Z!KeepsRows
  BY <1>1, <1>2 DEF Z!KeepsRows
<1> QED
  BY <1>3, <1>4, <1>5

LEMMA ZonesEnd ==
  ASSUME ZoneRows, Z!AskedUnfinished, NEW t \in Asking, Z!End(t)
  PROVE  ZoneRows' /\ Z!AskedUnfinished' /\ Z!KeepsRows
<1> DEFINE R == [zone : ZoneNames, status : {"unfinished", "success", "refused"}]
<1>1. UNCHANGED strays /\ Asking' \subseteq Asking
  BY DEF Z!End
<1>2. /\ rows' \in Seq(R) /\ DOMAIN rows' = DOMAIN rows
      /\ \A i \in DOMAIN rows : /\ rows'[i].zone = rows[i].zone
                                /\ rows'[i] # rows[i] => i = t.id
  <2>1. CASE UNCHANGED rows
    BY <2>1 DEF ZoneRows
  <2>2. ASSUME t.id \in DOMAIN rows, NEW status \in Statuses,
               rows' = [rows EXCEPT ![t.id].status = status]
        PROVE  /\ rows' \in Seq(R) /\ DOMAIN rows' = DOMAIN rows
               /\ \A i \in DOMAIN rows : /\ rows'[i].zone = rows[i].zone
                                         /\ rows'[i] # rows[i] => i = t.id
    <3>1. Rows = R
      BY DEF Rows, Statuses
    <3> QED
      BY <2>2, <3>1, Updated DEF ZoneRows
  <2> QED
    BY <2>1, <2>2 DEF Z!End, Statuses
<1>3. ZoneRows'
  <2>1. Z!OneRowEach'
    BY <1>2 DEF ZoneRows, Z!OneRowEach
  <2> QED
    BY <1>1, <1>2, <2>1 DEF ZoneRows
<1>4. Z!AskedUnfinished'
  <2>1. ASSUME NEW u \in Asking', u.id \notin strays
        PROVE  /\ u.id \in DOMAIN rows'
               /\ rows'[u.id] = [zone |-> u.zone, status |-> "unfinished"]
    <3>1. u \in Asking /\ u.id \in DOMAIN rows
          /\ rows[u.id] = [zone |-> u.zone, status |-> "unfinished"]
      BY <1>1, <2>1 DEF Z!AskedUnfinished
    <3>2. u.id # t.id
      <4>1. SUFFICES ASSUME u.id = t.id PROVE FALSE
        OBVIOUS
      <4>2. u # t
        BY <2>1, <4>1 DEF Z!End
      <4>3. rows[t.id] = [zone |-> t.zone, status |-> "unfinished"]
        BY <2>1, <4>1 DEF Z!AskedUnfinished
      <4>4. u.zone = t.zone
        BY <3>1, <4>1, <4>3
      <4>5. t = [zone |-> t.zone, id |-> t.id] /\ u = [zone |-> u.zone, id |-> u.id]
        BY <3>1 DEF Asking
      <4> QED
        BY <4>1, <4>2, <4>4, <4>5
    <3>3. rows'[u.id] = rows[u.id]
      BY <1>2, <3>1, <3>2
    <3> QED
      BY <1>2, <3>1, <3>3
  <2> QED
    BY <1>1, <2>1 DEF Z!AskedUnfinished
<1>5. \/ t.id \in strays
      \/ /\ t.id \in DOMAIN rows
         /\ rows[t.id] = [zone |-> t.zone, status |-> "unfinished"]
  BY DEF Z!AskedUnfinished
<1>6. Z!KeepsRows
  <2>1. ASSUME NEW i \in DOMAIN rows, rows'[i] # rows[i]
        PROVE  rows[i].status = "unfinished" \/ i \in strays
    <3>1. i = t.id
      BY <1>2, <2>1
    <3>2. rows[i] = [zone |-> t.zone, status |-> "unfinished"]
            => rows[i].status = "unfinished"
      OBVIOUS
    <3> QED
      BY <1>5, <3>1, <3>2
  <2> QED
    BY <1>1, <1>2, <2>1 DEF Z!KeepsRows
<1> QED
  BY <1>3, <1>4, <1>6

LEMMA ZonesInductive ==
  ASSUME ZoneRows, Z!AskedUnfinished, [Z!Next]_Z!vars
  PROVE  ZoneRows' /\ Z!AskedUnfinished' /\ [Z!KeepsRows]_Z!vars
<1>1. CASE Z!Kill
  <2>1. rows' = rows /\ strays' = {} /\ Asking' = {}
    BY <1>1 DEF Z!Kill
  <2> QED
    BY <2>1 DEF ZoneRows, Z!OneRowEach, Z!AskedUnfinished, Z!KeepsRows
<1>2. CASE UNCHANGED Z!vars
  BY <1>2 DEF Z!vars, ZoneRows, Z!OneRowEach, Z!AskedUnfinished
<1> QED
  BY <1>1, <1>2, ZonesBegin, ZonesStray, ZonesEnd DEF Z!Next

(* In Zones there is one row at most for a zone, and a zone is asked for   *)
(* only while its row is unfinished, but for transfers with a stray id.    *)
THEOREM ZonesAsked == Z!Spec => [](Z!OneRowEach /\ Z!AskedUnfinished)
<1>1. Z!Spec => [](ZoneRows /\ Z!AskedUnfinished)
  BY ZonesFirst, ZonesInductive, PTL DEF Z!Spec
<1>2. ZoneRows => Z!OneRowEach
  BY DEF ZoneRows
<1> QED
  BY <1>1, <1>2, PTL

(* In Zones a zone with a row is not begun, no row is removed, and one     *)
(* that has its final status keeps it, unless its id is a stray one.       *)
THEOREM ZonesStay == Z!Spec => Z!RowsFinal
<1>1. Z!Spec => [](ZoneRows /\ Z!AskedUnfinished)
  BY ZonesFirst, ZonesInductive, PTL DEF Z!Spec
<1>2. ASSUME ZoneRows, Z!AskedUnfinished, [Z!Next]_Z!vars
      PROVE  [Z!KeepsRows]_Z!vars
  BY <1>2, ZonesInductive
<1> QED
  BY <1>1, <1>2, PTL DEF Z!Spec, Z!RowsFinal

(* So it is in the xfr table, kills, failing statements and lost commits   *)
(* included (xfr.go:192-232, database.go:609-748).                         *)
THEOREM ZonesKept == Spec => [](Z!OneRowEach /\ Z!AskedUnfinished) /\ Z!RowsFinal
BY Refinement, ZonesAsked, ZonesStay DEF ImplementsZones

-----------------------------------------------------------------------------
(* A step of a generator's or an XFR worker needs the worker.              *)
LEMMA NeedsWorker ==
  /\ \A w \in GenWorkers : GenWorker(w) => gw[w] # "none"
  /\ \A w \in XfrWorkers : XfrWorker(w) => xw[w] # "none"
<1>1. \A w \in GenWorkers : GenWorker(w) => gw[w] # "none"
  BY DEF GenWorker, GControl, GPick, GLookup, GSend
<1>2. \A w \in XfrWorkers : XfrWorker(w) => xw[w] # "none"
  BY DEF XfrWorker, XBegin, XTake, XControl, XPulse, XLook, XAdd, XRecord,
         XAsked, XFinish, XReport
<1> QED
  BY <1>1, <1>2

(* A send makes a channel longer.                                          *)
LEMMA Longer ==
  ASSUME NEW S, NEW q \in Seq(S), NEW e \in S
  PROVE  Len(q) \in Nat /\ Len(Append(q, e)) >= Len(q)
BY AppendProperties, LenProperties

LEMMA GenDeadStep ==
  ASSUME TypeOK, [Next]_vars, main' # "start", GenDead
  PROVE  GenDead' /\ Len(genRC') >= Len(genRC)
<1> USE DEF GenDead, NobodyIn, genVars, mainVars, others
<1>1. Len(genRC) \in Nat /\ genRC \in Seq(CtlMsgs)
      /\ DOMAIN gw = GenWorkers
  BY LenProperties DEF TypeOK
<1>2. UNCHANGED gw /\ (UNCHANGED genRC \/ \E msg \in CtlMsgs : SendGen(msg))
  <2>1. \A w \in GenWorkers : ~GenWorker(w)
    BY <1>1, NeedsWorker
  <2> QED
    BY <2>1 DEF Next, MainStep, StartGenerator, SetFlag, MakeQueue, StartClient,
                Ingest, Receive, Store, Pass, Report, Client, SendGen, SendXfr, Crash,
                vars
<1>3. ASSUME NEW msg \in CtlMsgs, SendGen(msg) PROVE Len(genRC') >= Len(genRC)
  BY <1>1, <1>3, Longer DEF SendGen
<1> QED
  BY <1>1, <1>2, <1>3

LEMMA XfrDeadStep ==
  ASSUME TypeOK, Carried, [Next]_vars, main' # "start", XfrDead
  PROVE  /\ XfrDead'
         /\ Len(xfrRC') >= Len(xfrRC) /\ Len(xfrQ') >= Len(xfrQ)
<1> USE DEF XfrDead, NobodyIn, genVars, mainVars, others, xfrVars
<1> DEFINE M == {"Spawn", "Stop", "Shutdown", "Status"}
<1>1. /\ Len(xfrRC) \in Nat /\ xfrRC \in Seq(M)
      /\ Len(xfrQ) \in Nat /\ xfrQ \in Seq(Addrs)
      /\ DOMAIN xw = XfrWorkers
  BY LenProperties DEF TypeOK, XfrTypeOK
<1>2. /\ UNCHANGED <<main, xw>>
      /\ UNCHANGED xfrRC \/ \E msg \in CtlMsgs : SendXfr(msg)
      /\ UNCHANGED xfrQ \/ Pass
  <2>1. \A w \in XfrWorkers : ~Client(w)
    BY <1>1, NeedsWorker DEF Client
  <2> QED
    BY <2>1 DEF Next, MainStep, StartGenerator, SetFlag, MakeQueue, StartClient,
                GenWorker, GControl, GPick, GLookup, GSend,
                Ingest, Receive, Store, Pass, Report, SendGen, SendXfr, Crash, vars
<1>3. ASSUME NEW msg \in CtlMsgs, SendXfr(msg) PROVE Len(xfrRC') >= Len(xfrRC)
  BY <1>1, <1>3, Longer, PipelineAssumption DEF SendXfr
<1>4. Pass => Len(xfrQ') >= Len(xfrQ)
  BY <1>1, Longer DEF Pass, Carried
<1> QED
  BY <1>1, <1>2, <1>3, <1>4

LEMMA ChokedStep ==
  ASSUME TypeOK, Carried, Asleep, [Next]_vars, main' # "start", Choked
  PROVE  /\ Choked' /\ inhand' = inhand
         /\ Len(hostQ') >= Len(hostQ)
<1> USE DEF genVars, mainVars, others, xfrVars
<1>1. Len(hostQ) \in Nat /\ hostQ \in Seq(Addrs)
  BY LenProperties DEF TypeOK
<1>2. ~Ingest
  <2>1. ingest \in {"stuck", "pass"} /\ (ingest = "pass" => Len(xfrQ) = XfrQCap)
    BY DEF Choked
  <2>2. ~Pass
    BY <2>1, Capacities DEF Pass
  <2> QED
    BY <2>1, <2>2 DEF Ingest, Receive, Store, Report
<1>3. ~StartGenerator
  BY DEF StartGenerator, Choked, Asleep
<1>4. /\ UNCHANGED <<ingest, inhand>>
      /\ UNCHANGED hostQ \/ \E w \in GenWorkers : GSend(w)
  <2>1. CASE MainStep
    BY <1>3, <2>1 DEF MainStep, SetFlag, MakeQueue, StartClient
  <2>2. ASSUME NEW w \in GenWorkers, GenWorker(w)
        PROVE  UNCHANGED <<ingest, inhand>> /\ (UNCHANGED hostQ \/ GSend(w))
    BY <2>2 DEF GenWorker, GControl, GPick, GLookup, GSend
  <2>3. ASSUME NEW w \in XfrWorkers, Client(w)
        PROVE  UNCHANGED <<ingest, inhand, hostQ>>
    BY <2>3 DEF Client
  <2>4. ASSUME NEW msg \in CtlMsgs, SendGen(msg) \/ SendXfr(msg)
        PROVE  UNCHANGED <<ingest, inhand, hostQ>>
    BY <2>4 DEF SendGen, SendXfr
  <2>5. ~Crash
    BY DEF Crash
  <2>6. CASE UNCHANGED vars
    BY <2>6 DEF vars
  <2> QED
    BY <1>2, <2>1, <2>2, <2>3, <2>4, <2>5, <2>6 DEF Next
<1>5. ASSUME NEW w \in GenWorkers, GSend(w) PROVE Len(hostQ') >= Len(hostQ)
  BY <1>1, <1>5, Longer DEF GSend, Carried
<1>6. Choked'
  <2>1. CASE ingest = "stuck"
    BY <1>4, <2>1 DEF Choked
  <2>2. CASE ingest = "pass" /\ Len(xfrQ) = XfrQCap /\ XfrDead
    <3>1. XfrDead'
      BY <2>2, XfrDeadStep
    <3>2. UNCHANGED xfrQ
      <4>1. \A w \in XfrWorkers : ~Client(w)
        BY <2>2, NeedsWorker DEF Client, XfrDead, NobodyIn, TypeOK, XfrTypeOK
      <4> QED
        BY <1>2, <4>1, <2>2
           DEF Next, MainStep, StartGenerator, SetFlag, MakeQueue, StartClient,
               XfrStart, GenWorker, GControl, GPick, GLookup, GSend,
               SendGen, SendXfr, Crash, vars
    <3> QED
      BY <1>4, <2>2, <3>1, <3>2 DEF Choked, XfrQCap
  <2> QED
    BY <2>1, <2>2 DEF Choked
<1> QED
  BY <1>1, <1>4, <1>5, <1>6

(* Once the last worker of the generator or of the client is gone, or the  *)
(* ingest goroutine is choked, it stays so until the process ends, no      *)
(* message is read there any more and the host in hand goes nowhere        *)
(* (generator.go:143, xfr.go:152, guang.go:131).                           *)
THEOREM DeadEnds == Spec => DeadEndsStay
<1>1. IInv /\ [Next]_vars =>
        [ main' # "start" =>
            /\ GenDead => GenDead' /\ Len(genRC') >= Len(genRC)
            /\ XfrDead => /\ XfrDead'
                          /\ Len(xfrRC') >= Len(xfrRC) /\ Len(xfrQ') >= Len(xfrQ)
            /\ Choked => /\ Choked' /\ inhand' = inhand
                         /\ Len(hostQ') >= Len(hostQ)
        ]_vars
  BY GenDeadStep, XfrDeadStep, ChokedStep DEF IInv
<1> QED
  BY <1>1, Invariance, PTL DEF Spec, DeadEndsStay
=============================================================================
