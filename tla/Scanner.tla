------------------------------ MODULE Scanner ------------------------------
(***************************************************************************)
(* The port scanner of backend/scanner.go: the goroutines Loop, hostFeeder *)
(* and the workers, the five channels between them, and the two tables of  *)
(* the database they share.                                                *)
(*                                                                         *)
(*   host table -> hostFeeder -> hostQ -> Loop -> scanQ -> worker          *)
(*   port table <- Loop <- resultQ <- worker                               *)
(*   RC -> Loop -> mmQ -> worker              (control messages)           *)
(*                                                                         *)
(* A step is what a goroutine does between two points where it may block   *)
(* or touch shared state.  The test of IsRunning at the head of each loop  *)
(* belongs to the step before it: `running` only ever becomes FALSE, and a *)
(* goroutine that sees it a moment later than in the code is a goroutine   *)
(* that was scheduled a moment earlier.                                    *)
(***************************************************************************)
EXTENDS ScanPorts, Sequences, FiniteSets, Functions

CONSTANTS
  Hosts,       \* the hosts that may come into the host table
  Kind,        \* Kind[h]: source and name of host h, see ScanPorts
  WorkerCnt,   \* the configured number of workers, which sizes the queues
  Workers,     \* bound: the worker goroutines that may exist at a time
  Replies,     \* what a scan may bring back, NoReply among it
  NoReply,     \* the nil reply of a scan that failed
  TimedPorts,  \* the ports whose probe has a deadline
  CtlMsgs,     \* the control messages that arrive on RC
  Faults,      \* which of "db" (a query fails) and "crash" (kill) happen
  Nil          \* a variable of a goroutine that holds nothing

Requests == [host : Hosts, port : Ports]
Results  == [host : Hosts, port : Ports, reply : Replies]
Targets  == [host : Hosts, ports : SUBSET Ports]

ASSUME ScannerAssumption ==
  /\ WorkerCnt \in Nat \ {0}
  /\ IsFiniteSet(Workers) /\ Cardinality(Workers) >= WorkerCnt
  /\ Kind \in [Hosts -> HostKinds]
  /\ NoReply \in Replies
  /\ Nil \notin Requests /\ Nil \notin Targets
  /\ CtlMsgs \subseteq {"Stop", "Shutdown", "Status", "Spawn", "Bye"}
  /\ Faults \subseteq {"db", "crash"}

(* The ports a host's source and name suggest are all in the list `Ports`. *)
ASSUME HintsAssumption ==
  \A h \in Hosts : \A s \in SUBSET Ports :
     SuggestedPort(Kind[h], s) \subseteq Ports

VARIABLES
  running,    \* sc.running
  started,    \* sc.started, what Count() returns
  worker,     \* per worker slot: none, born, select, scan, send, quit
  job,        \* per worker slot: the request it works on
  loop,       \* Loop: off, get, select, mm, exit
  req,        \* Loop's req: the next request to dispatch
  portmap,    \* getRandomScanRequest's portmap
  feeder,     \* hostFeeder: off, open, fetch, ports, send, exit
  batch,      \* the hosts it has yet to offer
  target,     \* the host with ports it is about to offer
  hostQ, scanQ, resultQ,   \* the channels, oldest element first
  mmQ,        \* the number of messages in mmQ: all of them are Stop
  RC,         \* the control channel
  hostTbl,    \* the host table, in the order of its rows
  portTbl     \* the port table

stateVars == <<running, started>>
loopVars  == <<loop, req, portmap>>
feedVars  == <<feeder, batch, target>>
workVars  == <<worker, job>>
database  == <<hostTbl, portTbl>>
vars == <<stateVars, loopVars, feedVars, workVars,
          hostQ, scanQ, resultQ, mmQ, RC, database>>

ScanQCap   == WorkerCnt
ResultQCap == 2 * WorkerCnt
HostQCap   == WorkerCnt
MMQCap     == WorkerCnt
RCCap      == 2

(* The workers between cntInc and cntDec.                                  *)
Counted == {"select", "scan", "send", "quit"}

TypeOK ==
  /\ running \in BOOLEAN /\ started \in Nat
  /\ worker \in [Workers -> Counted \cup {"none", "born"}]
  /\ job \in [Workers -> Requests \cup {Nil}]
  /\ loop \in {"off", "get", "select", "mm", "exit"}
  /\ req \in Requests \cup {Nil} /\ portmap \subseteq Ports
  /\ feeder \in {"off", "open", "fetch", "ports", "send", "exit"}
  /\ batch \in Seq(Hosts) /\ target \in Targets \cup {Nil}
  /\ hostQ \in Seq(Targets) /\ scanQ \in Seq(Requests)
  /\ resultQ \in Seq(Results) /\ mmQ \in Nat /\ RC \in Seq(CtlMsgs)
  /\ hostTbl \in Seq(Hosts) /\ portTbl \subseteq Results

-----------------------------------------------------------------------------
(* The process is not started yet and its database is empty.               *)
NoWorkers == [w \in Workers |-> "none"]
NoJobs    == [w \in Workers |-> Nil]

Init ==
  /\ running = FALSE /\ started = 0 /\ worker = NoWorkers /\ job = NoJobs
  /\ loop = "off" /\ req = Nil /\ portmap = {}
  /\ feeder = "off" /\ batch = <<>> /\ target = Nil
  /\ hostQ = <<>> /\ scanQ = <<>> /\ resultQ = <<>> /\ mmQ = 0 /\ RC = <<>>
  /\ hostTbl = <<>> /\ portTbl = {}

(***************************************************************************)
(* The database.  A row of the port table is a scan result.                *)
(***************************************************************************)
PortsOf(h) == {r.port : r \in {row \in portTbl : row.host = h}}

(* Mutant: INSERT OR REPLACE.                                              *)
PortAddReplacing(tbl, res) ==
  {row \in tbl : row.host # res.host \/ row.port # res.port} \cup {res}

(* INSERT under UNIQUE (host_id, port): the row of a pair that is there    *)
(* already is refused, and PortAdd's caller only logs the error.           *)
PortAdd(tbl, res) ==
  IF \E row \in tbl : row.host = res.host /\ row.port = res.port
  THEN tbl
  ELSE tbl \cup {res}

(* LIMIT max OFFSET random: up to WorkerCnt consecutive rows of the table. *)
HostGetRandom ==
  LET Window(first) == SubSeq(hostTbl, first,
                              IF first + WorkerCnt - 1 < Len(hostTbl)
                              THEN first + WorkerCnt - 1 ELSE Len(hostTbl))
  IN  IF hostTbl = <<>> THEN {<<>>} ELSE {Window(i) : i \in DOMAIN hostTbl}

(* The host generator, the zone transfers or the user bring a new host.    *)
HostArrives(h) ==
  /\ h \notin Range(hostTbl)
  /\ hostTbl' = Append(hostTbl, h)
  /\ UNCHANGED <<stateVars, loopVars, feedVars, workVars,
                 hostQ, scanQ, resultQ, mmQ, RC, portTbl>>

(***************************************************************************)
(* Scanner.Start and `go scanner.Loop()`, as main does them: WorkerCnt     *)
(* workers, the feeder and the loop.  Loop begins with a first             *)
(* getRandomScanRequest.  The ids of the workers do not matter.            *)
(***************************************************************************)
Start ==
  /\ ~running /\ loop = "off"
  /\ running' = TRUE
  /\ \E team \in SUBSET Workers :
       /\ Cardinality(team) = WorkerCnt
       /\ worker' = [w \in Workers |-> IF w \in team THEN "born" ELSE "none"]
  /\ feeder' = "open" /\ loop' = "get"
  /\ UNCHANGED <<started, req, portmap, batch, target, job,
                 hostQ, scanQ, resultQ, mmQ, RC, database>>

-----------------------------------------------------------------------------
(* hostFeeder.                                                             *)
FeederHead == IF running THEN "fetch" ELSE "exit"

FeederOpen ==
  /\ feeder = "open"
  /\ \/ feeder' = FeederHead
     \/ "db" \in Faults /\ feeder' = "exit"
  /\ UNCHANGED <<stateVars, loopVars, batch, target, workVars,
                 hostQ, scanQ, resultQ, mmQ, RC, database>>

(* A failed query, like an empty table, sends it round its loop again.     *)
FeederFetch ==
  /\ feeder = "fetch"
  /\ \/ batch' \in HostGetRandom
     \/ "db" \in Faults /\ batch' = <<>>
  /\ feeder' = IF batch' = <<>> THEN FeederHead ELSE "ports"
  /\ UNCHANGED <<stateVars, loopVars, target, workVars,
                 hostQ, scanQ, resultQ, mmQ, RC, database>>

(* After a host was offered, or skipped.                                   *)
NextOfBatch ==
  /\ batch' = Tail(batch)
  /\ feeder' = IF Len(batch) = 1 THEN FeederHead ELSE "ports"

(* Mutant: the feeder means to spare the host the scans under way.         *)
FeederPortsAhead ==
  /\ feeder = "ports"
  /\ LET asked == {r \in Range(scanQ) : r.host = Head(batch)}
     IN target' = [host |-> Head(batch),
                   ports |-> PortsOf(Head(batch)) \cup {r.port : r \in asked}]
  /\ feeder' = "send"
  /\ UNCHANGED <<stateVars, loopVars, batch, workVars,
                 hostQ, scanQ, resultQ, mmQ, RC, database>>

(* PortGetByHost: from here on the feeder holds a copy of the host's rows. *)
FeederPorts ==
  /\ feeder = "ports"
  /\ \/ /\ target' = [host |-> Head(batch), ports |-> PortsOf(Head(batch))]
        /\ feeder' = "send"
        /\ UNCHANGED batch
     \/ "db" \in Faults /\ NextOfBatch /\ UNCHANGED target
  /\ UNCHANGED <<stateVars, loopVars, workVars,
                 hostQ, scanQ, resultQ, mmQ, RC, database>>

FeederSend ==
  /\ feeder = "send" /\ Len(hostQ) < HostQCap
  /\ hostQ' = Append(hostQ, target)
  /\ target' = Nil
  /\ NextOfBatch
  /\ UNCHANGED <<stateVars, loopVars, workVars,
                 scanQ, resultQ, mmQ, RC, database>>

-----------------------------------------------------------------------------
(***************************************************************************)
(* Loop.  Only Loop itself ever stops the scanner, and it returns when it  *)
(* does, so its own test of IsRunning at the head of the loop succeeds.    *)
(***************************************************************************)

(* One pass of GET_HOST in getRandomScanRequest.  The ports of a host that *)
(* has nothing left stay in portmap when the next host is taken.           *)
KnownPorts(tgt) == portmap \cup tgt.ports

LoopGet ==
  /\ loop = "get" /\ hostQ # <<>>
  /\ hostQ' = Tail(hostQ)
  /\ LET tgt == Head(hostQ)
     IN \E port \in GetScanPort(Kind[tgt.host], KnownPorts(tgt)) :
          \/ /\ port = NoPort
             /\ portmap' = KnownPorts(tgt)
             /\ UNCHANGED <<loop, req>>
          \/ /\ port # NoPort
             /\ req' = [host |-> tgt.host, port |-> port]
             /\ portmap' = {}
             /\ loop' = "select"
  /\ UNCHANGED <<stateVars, feedVars, workVars,
                 scanQ, resultQ, mmQ, RC, database>>

LoopDispatch ==
  /\ loop = "select" /\ Len(scanQ) < ScanQCap
  /\ scanQ' = Append(scanQ, req)
  /\ req' = Nil
  /\ loop' = "get"
  /\ UNCHANGED <<stateVars, portmap, feedVars, workVars,
                 hostQ, resultQ, mmQ, RC, database>>

(* A result is recorded, or its PortAdd fails and it is gone.              *)
LoopResult ==
  /\ loop = "select" /\ resultQ # <<>>
  /\ resultQ' = Tail(resultQ)
  /\ \/ portTbl' = PortAdd(portTbl, Head(resultQ))
     \/ "db" \in Faults /\ UNCHANGED portTbl
  /\ UNCHANGED <<stateVars, loopVars, feedVars, workVars,
                 hostQ, scanQ, mmQ, RC, hostTbl>>

LoopReceives(msg) ==
  /\ loop = "select" /\ RC # <<>> /\ Head(RC) = msg
  /\ RC' = Tail(RC)
  /\ UNCHANGED <<started, req, portmap, feedVars, job,
                 hostQ, scanQ, resultQ, mmQ, database>>

LoopShutdown == /\ LoopReceives("Shutdown")
                /\ running' = FALSE /\ loop' = "exit"
                /\ UNCHANGED worker

(* Mutants: the message is dropped when mmQ is full; Loop itself returns.  *)
LoopStopNonBlocking ==
  /\ LoopReceives("Stop")
  /\ loop' = IF mmQ < MMQCap THEN "mm" ELSE "select"
  /\ UNCHANGED <<running, worker>>

LoopStopReturns == /\ LoopReceives("Stop")
                   /\ loop' = "exit"
                   /\ UNCHANGED <<running, worker>>

(* Loop goes on to hand the message to a worker: mmQ <- Stop.              *)
LoopStop == /\ LoopReceives("Stop")
            /\ loop' = "mm"
            /\ UNCHANGED <<running, worker>>

LoopSpawn == /\ LoopReceives("Spawn")
             /\ \E w \in Workers :
                  /\ worker[w] = "none"
                  /\ worker' = [worker EXCEPT ![w] = "born"]
             /\ UNCHANGED <<running, loop>>

(* Status calls the empty PrintStatus; Bye has no case.                    *)
LoopIgnore == /\ \E msg \in {"Status", "Bye"} : LoopReceives(msg)
              /\ UNCHANGED <<running, loop, worker>>

(* Mutant: the message is dropped when mmQ is full.                        *)
LoopForwardNonBlocking ==
  /\ loop = "mm"
  /\ mmQ' = IF mmQ < MMQCap THEN mmQ + 1 ELSE mmQ
  /\ loop' = "select"
  /\ UNCHANGED <<stateVars, req, portmap, feedVars, workVars,
                 hostQ, scanQ, resultQ, RC, database>>

LoopForward ==
  /\ loop = "mm" /\ mmQ < MMQCap
  /\ mmQ' = mmQ + 1
  /\ loop' = "select"
  /\ UNCHANGED <<stateVars, req, portmap, feedVars, workVars,
                 hostQ, scanQ, resultQ, RC, database>>

-----------------------------------------------------------------------------
(* The workers.                                                            *)
WorkerHead == IF running THEN "select" ELSE "quit"

WorkerBegin(w) ==
  /\ worker[w] = "born"
  /\ started' = started + 1
  /\ worker' = [worker EXCEPT ![w] = WorkerHead]
  /\ UNCHANGED <<running, loopVars, feedVars, job,
                 hostQ, scanQ, resultQ, mmQ, RC, database>>

(* Mutants: cntDec is called here as well as at the end; it is not called  *)
(* at all; the message is also read in the middle of a scan.               *)
WorkerStopTwice(w) ==
  /\ worker[w] = "select" /\ mmQ > 0
  /\ mmQ' = mmQ - 1
  /\ started' = started - 1
  /\ worker' = [worker EXCEPT ![w] = "quit"]
  /\ UNCHANGED <<running, loopVars, feedVars, job,
                 hostQ, scanQ, resultQ, RC, database>>

WorkerStopUncounted(w) ==
  /\ worker[w] = "select" /\ mmQ > 0
  /\ mmQ' = mmQ - 1
  /\ worker' = [worker EXCEPT ![w] = "none"]
  /\ UNCHANGED <<stateVars, loopVars, feedVars, job,
                 hostQ, scanQ, resultQ, RC, database>>

WorkerStopAborts(w) ==
  /\ worker[w] \in {"select", "scan"} /\ mmQ > 0
  /\ mmQ' = mmQ - 1
  /\ worker' = [worker EXCEPT ![w] = "quit"]
  /\ UNCHANGED <<stateVars, loopVars, feedVars, job,
                 hostQ, scanQ, resultQ, RC, database>>

WorkerStop(w) ==
  /\ worker[w] = "select" /\ mmQ > 0
  /\ mmQ' = mmQ - 1
  /\ worker' = [worker EXCEPT ![w] = "quit"]
  /\ UNCHANGED <<stateVars, loopVars, feedVars, job,
                 hostQ, scanQ, resultQ, RC, database>>

WorkerTake(w) ==
  /\ worker[w] = "select" /\ scanQ # <<>>
  /\ scanQ' = Tail(scanQ)
  /\ job' = [job EXCEPT ![w] = Head(scanQ)]
  /\ worker' = [worker EXCEPT ![w] = "scan"]
  /\ UNCHANGED <<stateVars, loopVars, feedVars,
                 hostQ, resultQ, mmQ, RC, database>>

(* Mutant: there is no ticker.                                             *)
WorkerPulseNever(w) == FALSE

(* The heartbeat: while the scanner is running it changes nothing.         *)
WorkerPulse(w) ==
  /\ worker[w] = "select" /\ ~running
  /\ worker' = [worker EXCEPT ![w] = "quit"]
  /\ UNCHANGED <<stateVars, loopVars, feedVars, job,
                 hostQ, scanQ, resultQ, mmQ, RC, database>>

(* scanHost returns, with or without an error.                             *)
WorkerScan(w) ==
  /\ worker[w] = "scan"
  /\ worker' = [worker EXCEPT ![w] = "send"]
  /\ UNCHANGED <<stateVars, loopVars, feedVars, job,
                 hostQ, scanQ, resultQ, mmQ, RC, database>>

(* Mutants: a failed scan is logged and not reported; a result is dropped  *)
(* when resultQ is full.                                                   *)
WorkerSendNoError(w) ==
  /\ worker[w] = "send" /\ Len(resultQ) < ResultQCap
  /\ \E reply \in Replies :
       resultQ' = IF reply = NoReply THEN resultQ
                  ELSE Append(resultQ, [host |-> job[w].host,
                                        port |-> job[w].port, reply |-> reply])
  /\ job' = [job EXCEPT ![w] = Nil]
  /\ worker' = [worker EXCEPT ![w] = WorkerHead]
  /\ UNCHANGED <<stateVars, loopVars, feedVars,
                 hostQ, scanQ, mmQ, RC, database>>

WorkerSendNonBlocking(w) ==
  /\ worker[w] = "send"
  /\ IF Len(resultQ) < ResultQCap
     THEN \E reply \in Replies :
            resultQ' = Append(resultQ, [host |-> job[w].host,
                                        port |-> job[w].port, reply |-> reply])
     ELSE UNCHANGED resultQ
  /\ job' = [job EXCEPT ![w] = Nil]
  /\ worker' = [worker EXCEPT ![w] = WorkerHead]
  /\ UNCHANGED <<stateVars, loopVars, feedVars,
                 hostQ, scanQ, mmQ, RC, database>>

(* The result goes to Loop; its reply, decided by the scan, is named here. *)
WorkerSend(w) ==
  /\ worker[w] = "send" /\ Len(resultQ) < ResultQCap
  /\ \E reply \in Replies :
       resultQ' = Append(resultQ, [host |-> job[w].host, port |-> job[w].port,
                                   reply |-> reply])
  /\ job' = [job EXCEPT ![w] = Nil]
  /\ worker' = [worker EXCEPT ![w] = WorkerHead]
  /\ UNCHANGED <<stateVars, loopVars, feedVars,
                 hostQ, scanQ, mmQ, RC, database>>

(* The deferred cntDec; the slot is free for another goroutine.            *)
WorkerExit(w) ==
  /\ worker[w] = "quit"
  /\ started' = started - 1
  /\ worker' = [worker EXCEPT ![w] = "none"]
  /\ UNCHANGED <<running, loopVars, feedVars, job,
                 hostQ, scanQ, resultQ, mmQ, RC, database>>

-----------------------------------------------------------------------------
(* A send on RC by another goroutine.  Bound: no more Spawn messages are   *)
(* under way than there are free worker slots.                             *)
SpawnsUnderWay == Cardinality({i \in DOMAIN RC : RC[i] = "Spawn"})
FreeSlots      == Cardinality({w \in Workers : worker[w] = "none"})

SendCtl(msg) ==
  /\ loop # "off" /\ Len(RC) < RCCap
  /\ msg = "Spawn" => SpawnsUnderWay < FreeSlots
  /\ RC' = Append(RC, msg)
  /\ UNCHANGED <<stateVars, loopVars, feedVars, workVars,
                 hostQ, scanQ, resultQ, mmQ, database>>

(* The process is killed, its usual end: only the database survives.       *)
Crash ==
  /\ "crash" \in Faults /\ loop # "off"
  /\ running' = FALSE /\ started' = 0 /\ worker' = NoWorkers /\ job' = NoJobs
  /\ loop' = "off" /\ req' = Nil /\ portmap' = {}
  /\ feeder' = "off" /\ batch' = <<>> /\ target' = Nil
  /\ hostQ' = <<>> /\ scanQ' = <<>> /\ resultQ' = <<>> /\ mmQ' = 0 /\ RC' = <<>>
  /\ UNCHANGED database

Feeder  == FeederOpen \/ FeederFetch \/ FeederPorts \/ FeederSend
Control == LoopShutdown \/ LoopStop \/ LoopSpawn \/ LoopIgnore
Loop    == LoopGet \/ LoopDispatch \/ LoopResult \/ Control \/ LoopForward
Worker(w) == \/ WorkerBegin(w) \/ WorkerStop(w) \/ WorkerTake(w)
             \/ WorkerPulse(w) \/ WorkerScan(w) \/ WorkerSend(w)
             \/ WorkerExit(w)

(* The scanner without the senders of control messages.                    *)
Step == \/ Start
        \/ Feeder
        \/ Loop
        \/ \E w \in Workers : Worker(w)
        \/ \E h \in Hosts : HostArrives(h)

Next == Step \/ Crash \/ \E msg \in CtlMsgs : SendCtl(msg)

Spec == Init /\ [][Next]_vars

(***************************************************************************)
(* Fairness.  The Go runtime runs every goroutine that is ready, which is  *)
(* weak fairness of a step nothing can disable again.  A select chooses at *)
(* random among its ready cases, and the senders that wait for room in     *)
(* resultQ are served in their order: strong fairness.  Nothing is assumed *)
(* of the senders of control messages, of new hosts, of faults, or of a    *)
(* probe without a deadline.                                               *)
(***************************************************************************)
TimedScan(w) == WorkerScan(w) /\ job[w].port \in TimedPorts

Fairness ==
  /\ WF_vars(FeederOpen) /\ WF_vars(FeederFetch)
  /\ WF_vars(FeederPorts) /\ WF_vars(FeederSend)
  /\ WF_vars(LoopGet) /\ WF_vars(LoopForward)
  /\ SF_vars(LoopDispatch) /\ SF_vars(LoopResult) /\ SF_vars(Control)
  /\ \A w \in Workers :
       /\ WF_vars(WorkerBegin(w)) /\ WF_vars(WorkerPulse(w))
       /\ WF_vars(TimedScan(w)) /\ WF_vars(WorkerExit(w))
       /\ SF_vars(WorkerStop(w)) /\ SF_vars(WorkerTake(w))
       /\ SF_vars(WorkerSend(w))

FairSpec == Spec /\ Fairness

-----------------------------------------------------------------------------
Recorded(h, p) == \E row \in portTbl : row.host = h /\ row.port = p

(***************************************************************************)
(* The copies of port table rows that travel ahead of the table.  They may *)
(* be old, and lack rows written since; they never claim a port that is    *)
(* not in the table, so a port is never passed over for a stale copy.  The *)
(* kill of the process cannot break this: rows outlive the copies.         *)
(***************************************************************************)
SnapshotsSound ==
  /\ \A tgt \in Range(hostQ) : tgt.ports \subseteq PortsOf(tgt.host)
  /\ target # Nil => target.ports \subseteq PortsOf(target.host)
  /\ \A p \in portmap : \E h \in Hosts : Recorded(h, p)

(* "Count returns the number of active workers" (scanner.go:188): also     *)
(* when workers stop, die with the process or are spawned, which is what   *)
(* the check in handleWorkerStop goes by.                                  *)
CountExact == started = Cardinality({w \in Workers : worker[w] \in Counted})

(* A goroutine holds what its next step takes for granted, and no more: a  *)
(* worker has a request exactly from the receive on scanQ to the send on   *)
(* resultQ, so a worker that a stop message, a pulse or a new life finds   *)
(* has none to lose; Loop has one to dispatch, and the feeder a host to    *)
(* offer.  Before the start there is no worker.                            *)
Held ==
  /\ \A w \in Workers : job[w] # Nil <=> worker[w] \in {"scan", "send"}
  /\ loop \in {"select", "mm"} => req # Nil
  /\ feeder \in {"ports", "send"} => batch # <<>>
  /\ feeder = "send" => target # Nil
  /\ loop = "off" => \A w \in Workers : worker[w] = "none"

(***************************************************************************)
(* The scans under way, wherever their request or result is; with them the *)
(* scanner implements the Ledger: no queue, stop message or shutdown loses *)
(* a scan, and no result replaces a row.                                   *)
(***************************************************************************)
RequestOf(res) == [host |-> res.host, port |-> res.port]

InFlight == Range(scanQ) \cup (Range(job) \ {Nil})
              \cup {RequestOf(res) : res \in Range(resultQ)}

Abstract == INSTANCE Ledger WITH open <- InFlight, table <- portTbl,
                                 Lossy <- "db" \in Faults,
                                 MayDie <- "crash" \in Faults

ImplementsLedger == Abstract!Spec

(* Loop goes round getRandomScanRequest and can never leave it: portmap    *)
(* holds every port, and no further host empties it.                       *)
Wedged == loop = "get" /\ portmap = Ports

Hanging(w) == worker[w] = "scan" /\ job[w].port \notin TimedPorts

(* Loop waits for room in mmQ, and there is no worker that will take a     *)
(* message out of it: they were stopped, wait for Loop to read their       *)
(* results, or hang in a probe that has no deadline.                       *)
Unheard ==
  /\ loop = "mm" /\ mmQ = MMQCap
  /\ \A w \in Workers : \/ worker[w] = "none"
                        \/ worker[w] = "send" /\ Len(resultQ) = ResultQCap
                        \/ Hanging(w)

(* A request waits in scanQ, and no worker will take it.                   *)
Untaken(r) ==
  /\ r \in Range(scanQ)
  /\ \A w \in Workers : worker[w] = "none" \/ Hanging(w)

(* If no query fails, a scan under way becomes a row, whichever workers    *)
(* are stopped or spawned meanwhile, unless the scanner is shut down or    *)
(* killed, the probe itself has no deadline, the workers that could take   *)
(* the request were stopped or hang, or Loop has come to a standstill:     *)
(* wedged in its search for a request, or in front of a full mmQ.          *)
ScansRecorded ==
  \A r \in Requests :
    (r \in InFlight /\ "db" \notin Faults)
      ~> \/ Recorded(r.host, r.port)
         \/ ~running
         \/ \E w \in Workers : Hanging(w) /\ job[w] = r
         \/ Untaken(r)
         \/ Unheard
         \/ Wedged

(* After a Shutdown every worker ends, or waits for good in front of a     *)
(* full resultQ nobody reads any more.                                     *)
ShutdownEndsWorkers ==
  loop = "exit" ~> \A w \in Workers :
     \/ worker[w] = "none"
     \/ worker[w] = "send" /\ Len(resultQ) = ResultQCap
     \/ Hanging(w)

-----------------------------------------------------------------------------
(***************************************************************************)
(* A promise of the documentation that the code does not keep.             *)
(***************************************************************************)

(* "HostWithPorts is a Host along with all the Ports that have been        *)
(* scanned on that Host" (data/types.go:66): the ports getScanPort leaves  *)
(* out for a host have been scanned on that host.                          *)
LeftOutPortsScanned ==
  loop = "get" /\ hostQ # <<>> =>
    KnownPorts(Head(hostQ)) \subseteq PortsOf(Head(hostQ).host)
=============================================================================
