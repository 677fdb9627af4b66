------------------------------ MODULE XfrClient ------------------------------
(***************************************************************************)
(* The XFR client of xfr/xfr.go: workers that take host names from xfrQ,   *)
(* try to get the zone of each name from its name servers, and record in   *)
(* the xfr table that they did; with the statements on that table from     *)
(* database/database.go, each of which is one step, and the kill of the    *)
(* process.  The workers also read the control channel RC themselves.      *)
(*                                                                         *)
(* A name is given by its address; ZoneOf is what hostRe finds in it.  A   *)
(* goroutine between its start or end and the change of workerCnt is as    *)
(* good as started or gone.  The id of a row is its place in the table:    *)
(* SQLite gives a new row the highest id plus one, and none is removed.    *)
(***************************************************************************)
EXTENDS Naturals, Sequences, FiniteSets, Functions

CONSTANTS
  Addrs,       \* the addresses there are
  ZoneNames,   \* the zones
  ZoneOf,      \* per address: its zone, or Nil
  XfrWorkers,  \* bound: slots for XFR workers
  XfrCnt,      \* how many main starts
  Faults,      \* a subset of {"key", "host", "zone", "commit", "crash"}
  Nil

ASSUME XfrAssumption ==
  /\ IsFiniteSet(XfrWorkers) /\ XfrCnt \in 1 .. Cardinality(XfrWorkers)
  /\ Nil \notin ZoneNames \cup Addrs /\ ZoneNames \cap Addrs = {}
  /\ ZoneOf \in [Addrs -> ZoneNames \cup {Nil}]

VARIABLES
  xfrQ,      \* the names passed on to the workers
  xfrRC,     \* Client.RC
  xrun,      \* isRunning
  xw,        \* per worker: none, born, select, look, add, ask, finish, report
  zone,      \* per worker: the zone it is about
  xid,       \* per worker: the id XfrAdd gave its transfer, or 0
  result,    \* per worker: the status XfrFinish will write
  hosts,     \* the host table
  rows,      \* the xfr table
  lost,      \* history: the addresses and zones of which this process has
             \* lost a row, or a status, to a commit whose error is ignored
  strays     \* history: the ids given to transfers that lost their row so

xfrTables == <<hosts, rows, lost, strays>>
xfrVars   == <<xfrQ, xfrRC, xrun, xw, zone, xid, result, xfrTables>>

XfrQCap  == XfrCnt
XfrRCCap == 4

Statuses == {"success", "refused"}
Rows     == [zone : ZoneNames, status : {"unfinished"} \cup Statuses]

XfrTypeOK ==
  /\ xfrQ \in Seq(Addrs) /\ Len(xfrQ) <= XfrQCap
  /\ xfrRC \in Seq({"Spawn", "Stop", "Shutdown", "Status"}) /\ Len(xfrRC) <= XfrRCCap
  /\ xrun \in BOOLEAN
  /\ xw \in [XfrWorkers -> {"none", "born", "select", "look", "add", "ask",
                          "finish", "report"}]
  /\ zone \in [XfrWorkers -> ZoneNames \cup {Nil}]
  /\ xid \in [XfrWorkers -> Nat]
  /\ result \in [XfrWorkers -> Statuses \cup {Nil}]
  /\ hosts \subseteq Addrs
  /\ rows \in Seq(Rows)
  /\ lost \subseteq Addrs \cup ZoneNames
  /\ strays \subseteq Nat

XfrInit ==
  /\ xfrQ = <<>> /\ xfrRC = <<>> /\ xrun = FALSE
  /\ xw = [w \in XfrWorkers |-> "none"]
  /\ zone = [w \in XfrWorkers |-> Nil] /\ result = [w \in XfrWorkers |-> Nil]
  /\ xid = [w \in XfrWorkers |-> 0]
  /\ hosts = {} /\ rows = <<>> /\ lost = {} /\ strays = {}

NextId    == Len(rows) + 1
HasRow(z) == \E i \in DOMAIN rows : rows[i].zone = z

-----------------------------------------------------------------------------
(* Start, called once by main.                                             *)
XfrStart ==
  /\ xrun' = TRUE
  /\ \E S \in SUBSET XfrWorkers :
       /\ Cardinality(S) = XfrCnt
       /\ xw' = [w \in XfrWorkers |-> IF w \in S THEN "born" ELSE xw[w]]
  /\ UNCHANGED <<xfrQ, xfrRC, zone, xid, result, xfrTables>>

(* The head of LOOP, where a worker sees that the client is stopped.       *)
XHead == IF xrun THEN "select" ELSE "none"

XGoto(w, place) == xw' = [xw EXCEPT ![w] = place]

(* The database is opened; if that fails, the worker is gone.              *)
XBegin(w) ==
  /\ xw[w] = "born"
  /\ \/ XGoto(w, XHead)
     \/ "zone" \in Faults /\ XGoto(w, "none")
  /\ UNCHANGED <<xfrQ, xfrRC, xrun, zone, xid, result, xfrTables>>

(* The three cases of the select.                                          *)
XTake(w) ==
  /\ xw[w] = "select" /\ xfrQ # <<>>
  /\ xfrQ' = Tail(xfrQ)
  /\ LET z == ZoneOf[Head(xfrQ)] IN
       /\ XGoto(w, IF z = Nil THEN XHead ELSE "look")
       /\ zone' = [zone EXCEPT ![w] = z]
  /\ UNCHANGED <<xfrRC, xrun, xid, result, xfrTables>>

XObeys(w) ==
  \/ /\ Head(xfrRC) = "Stop"
     /\ XGoto(w, "none")
     /\ UNCHANGED xrun
  \/ /\ Head(xfrRC) = "Shutdown"
     /\ XGoto(w, "none")
     /\ xrun' = FALSE
  \/ /\ Head(xfrRC) = "Spawn"
     /\ \E v \in XfrWorkers : /\ xw[v] = "none"
                              /\ xw' = [xw EXCEPT ![v] = "born", ![w] = XHead]
     /\ UNCHANGED xrun
  \/ /\ Head(xfrRC) = "Status"
     /\ XGoto(w, XHead)
     /\ UNCHANGED xrun

XControl(w) ==
  /\ xw[w] = "select" /\ xfrRC # <<>>
  /\ xfrRC' = Tail(xfrRC)
  /\ XObeys(w)
  /\ UNCHANGED <<xfrQ, zone, xid, result, xfrTables>>

XPulse(w) ==
  /\ xw[w] = "select"
  /\ XGoto(w, XHead)
  /\ UNCHANGED <<xfrQ, xfrRC, xrun, zone, xid, result, xfrTables>>

(* Back to LOOP, done with a zone.                                         *)
XLeave(w) ==
  /\ XGoto(w, XHead)
  /\ zone' = [zone EXCEPT ![w] = Nil]
  /\ xid' = [xid EXCEPT ![w] = 0] /\ result' = [result EXCEPT ![w] = Nil]

(* XfrGetByZone: a zone with a row is left alone, whatever its status.     *)
(* (When the query itself fails the process ends; see XPanic.)             *)
XLook(w) ==
  /\ xw[w] = "look"
  /\ \/ /\ ~HasRow(zone[w])
        /\ XGoto(w, "add")
        /\ UNCHANGED <<zone, xid, result>>
     \/ /\ HasRow(zone[w]) \/ "zone" \in Faults
        /\ XLeave(w)
  /\ UNCHANGED <<xfrQ, xfrRC, xrun, xfrTables>>

(* What XfrAdd leaves when its statement has succeeded: the error of the   *)
(* commit is ignored, and without the row the id goes to the next one.     *)
Enter(z) ==
  \/ /\ rows' = Append(rows, [zone |-> z, status |-> "unfinished"])
     /\ UNCHANGED <<lost, strays>>
  \/ /\ "commit" \in Faults
     /\ lost' = lost \cup {z} /\ strays' = strays \cup {NextId}
     /\ UNCHANGED rows

(* Mutant: the row another worker has added in the meantime is no error.   *)
XAddUnchecked(w) ==
  /\ xw[w] = "add"
  /\ \/ /\ Enter(zone[w])
        /\ xid' = [xid EXCEPT ![w] = NextId]
        /\ XGoto(w, "ask")
        /\ UNCHANGED <<zone, result>>
     \/ /\ "zone" \in Faults
        /\ XLeave(w)
        /\ UNCHANGED <<rows, lost, strays>>
  /\ UNCHANGED <<xfrQ, xfrRC, xrun, hosts>>

(* XfrAdd: zone is UNIQUE, so of two workers one gets an error.            *)
XAdd(w) ==
  /\ xw[w] = "add"
  /\ \/ /\ ~HasRow(zone[w])
        /\ Enter(zone[w])
        /\ xid' = [xid EXCEPT ![w] = NextId]
        /\ XGoto(w, "ask")
        /\ UNCHANGED <<zone, result>>
     \/ /\ HasRow(zone[w]) \/ "zone" \in Faults
        /\ XLeave(w)
        /\ UNCHANGED <<rows, lost, strays>>
  /\ UNCHANGED <<xfrQ, xfrRC, xrun, hosts>>

(* HostAdd gives no error: the host is in the table, or its commit failed  *)
(* and it is only in the cache of the process (module HostDB).             *)
Stored(a) ==
  \/ hosts' = hosts \cup {a} /\ UNCHANGED lost
  \/ "commit" \in Faults /\ lost' = lost \cup {a} /\ UNCHANGED hosts

(* A record of the zone: its host is stored unless it is there already.    *)
XRecord(w) ==
  /\ xw[w] = "ask"
  /\ \E a \in Addrs \ hosts : Stored(a)
  /\ UNCHANGED <<xfrQ, xfrRC, xrun, xw, zone, xid, result, rows, strays>>

(* performXfr returns, after one of the servers has given the zone or all  *)
(* have refused it.                                                        *)
XAsked(w) ==
  /\ xw[w] = "ask"
  /\ XGoto(w, "finish")
  /\ \E status \in Statuses : result' = [result EXCEPT ![w] = status]
  /\ UNCHANGED <<xfrQ, xfrRC, xrun, zone, xid, xfrTables>>

(* UPDATE ... WHERE id = ?: the row of that id, whose ever it is, if any.  *)
Update(i, status) ==
  \/ /\ i \in DOMAIN rows
     /\ rows' = [rows EXCEPT ![i].status = status]
  \/ i \notin DOMAIN rows /\ UNCHANGED rows

(* Mutant: a transfer that is refused is not recorded.                     *)
XFinishIfSuccess(w) ==
  /\ xw[w] = "finish"
  /\ \/ /\ IF result[w] = "success" THEN Update(xid[w], result[w]) ELSE UNCHANGED rows
        /\ XLeave(w) /\ UNCHANGED lost
     \/ /\ "commit" \in Faults
        /\ lost' = lost \cup {zone[w]}
        /\ XLeave(w) /\ UNCHANGED rows
     \/ /\ "zone" \in Faults
        /\ XGoto(w, "report") /\ UNCHANGED <<zone, xid, result, rows, lost>>
  /\ UNCHANGED <<xfrQ, xfrRC, xrun, hosts, strays>>

(* XfrFinish, which ignores the error of its commit too; an error of the   *)
(* statement is only reported.  Either way the row stays unfinished.       *)
XFinish(w) ==
  /\ xw[w] = "finish"
  /\ \/ /\ Update(xid[w], result[w])
        /\ XLeave(w) /\ UNCHANGED lost
     \/ /\ "commit" \in Faults
        /\ lost' = lost \cup {zone[w]}
        /\ XLeave(w) /\ UNCHANGED rows
     \/ /\ "zone" \in Faults
        /\ XGoto(w, "report") /\ UNCHANGED <<zone, xid, result, rows, lost>>
  /\ UNCHANGED <<xfrQ, xfrRC, xrun, hosts, strays>>

(* The line in the log, and back to LOOP.                                  *)
XReport(w) ==
  /\ xw[w] = "report"
  /\ XLeave(w)
  /\ UNCHANGED <<xfrQ, xfrRC, xrun, xfrTables>>

XfrWorker(w) == \/ XBegin(w) \/ XTake(w) \/ XControl(w) \/ XPulse(w)
                \/ XLook(w) \/ XAdd(w) \/ XRecord(w) \/ XAsked(w)
                \/ XFinish(w) \/ XReport(w)

(* What a kill leaves of all this.                                         *)
XfrEnds ==
  /\ xfrQ' = <<>> /\ xfrRC' = <<>> /\ xrun' = FALSE
  /\ xw' = [w \in XfrWorkers |-> "none"]
  /\ zone' = [w \in XfrWorkers |-> Nil] /\ result' = [w \in XfrWorkers |-> Nil]
  /\ xid' = [w \in XfrWorkers |-> 0]
  /\ lost' = {} /\ strays' = {}
  /\ UNCHANGED <<hosts, rows>>

(* A worker whose XfrGetByZone fails goes on with rows that are nil, and   *)
(* its panic ends the process.                                             *)
XPanic == "zone" \in Faults /\ \E w \in XfrWorkers : xw[w] = "look"
=============================================================================
