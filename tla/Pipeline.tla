------------------------------ MODULE Pipeline ------------------------------
(***************************************************************************)
(* From random addresses to zone transfers: the workers of the host        *)
(* generator (generator/generator.go) with their cache of addresses, the   *)
(* goroutine in main (guang.go) that stores the hosts they find and passes *)
(* the names on, and the XFR client behind it; started by main in the      *)
(* order of the code.                                                      *)
(***************************************************************************)
EXTENDS XfrClient

CONSTANTS
  GenWorkers,   \* bound: slots for the generator's workers
  GenCnt,       \* how many main starts
  CtlMsgs,      \* the control messages that are sent
  MaxMsgs       \* bound: the number of messages in the life of a process

ASSUME PipelineAssumption ==
  /\ IsFiniteSet(GenWorkers) /\ GenCnt \in 1 .. Cardinality(GenWorkers)
  /\ CtlMsgs \subseteq {"Spawn", "Stop", "Shutdown", "Status"}
  /\ MaxMsgs \in Nat

VARIABLES
  main,       \* how far main is: start, flag, queue, client, up
  hostQ,      \* HostGenerator.HostQueue
  genRC,      \* HostGenerator.RC
  grun,       \* running
  gw,         \* per worker: none, select, pick, lookup, send
  gaddr,      \* per worker: the address it is about
  cached,     \* the addresses in the cache on disk
  ingest,     \* the goroutine in main: off, get, store, pass, stuck, report
  inhand,     \* the host it is about
  sent        \* the number of messages sent so far

genVars  == <<hostQ, genRC, grun, gw, gaddr, cached>>
mainVars == <<main, ingest, inhand>>
others   == <<genVars, mainVars, sent>>
vars     == <<xfrVars, others>>

HostQCap == 2 * GenCnt
GenRCCap == 2

TypeOK ==
  /\ XfrTypeOK
  /\ main \in {"start", "flag", "queue", "client", "up"}
  /\ hostQ \in Seq(Addrs) /\ Len(hostQ) <= HostQCap
  /\ genRC \in Seq(CtlMsgs) /\ Len(genRC) <= GenRCCap
  /\ grun \in BOOLEAN
  /\ gw \in [GenWorkers -> {"none", "select", "pick", "lookup", "send"}]
  /\ gaddr \in [GenWorkers -> Addrs \cup {Nil}]
  /\ cached \subseteq Addrs
  /\ ingest \in {"off", "get", "store", "pass", "stuck", "report"}
  /\ inhand \in Addrs \cup {Nil}
  /\ sent \in 0 .. MaxMsgs

GenInit ==
  /\ hostQ = <<>> /\ genRC = <<>> /\ grun = TRUE
  /\ gw = [w \in GenWorkers |-> "none"] /\ gaddr = [w \in GenWorkers |-> Nil]

Init ==
  /\ XfrInit /\ GenInit
  /\ cached = {}
  /\ main = "start" /\ ingest = "off" /\ inhand = Nil
  /\ sent = 0

-----------------------------------------------------------------------------
(* main: the generator and the goroutine that reads its queue are started  *)
(* first, then doXfr is set, then xfrQ is made, then the client started.   *)
StartGenerator ==
  /\ main = "start" /\ main' = "flag"
  /\ ingest' = "get"
  /\ \E S \in SUBSET GenWorkers :
       /\ Cardinality(S) = GenCnt
       /\ gw' = [w \in GenWorkers |-> IF w \in S THEN "select" ELSE "none"]
  /\ UNCHANGED <<xfrVars, hostQ, genRC, grun, gaddr, cached, inhand, sent>>

SetFlag ==
  /\ main = "flag" /\ main' = "queue"
  /\ UNCHANGED <<xfrVars, genVars, ingest, inhand, sent>>

MakeQueue ==
  /\ main = "queue" /\ main' = "client"
  /\ UNCHANGED <<xfrVars, genVars, ingest, inhand, sent>>

StartClient ==
  /\ main = "client" /\ main' = "up"
  /\ XfrStart
  /\ UNCHANGED <<genVars, ingest, inhand, sent>>

doXfr == main \in {"queue", "client", "up"}

-----------------------------------------------------------------------------
(* The head of MAIN_LOOP.                                                  *)
GHead == IF grun THEN "select" ELSE "none"

GGoto(w, place) == gw' = [gw EXCEPT ![w] = place]

(* Stop and Shutdown end the worker; after any other message it goes on to *)
(* the next address.                                                       *)
GObeys(w) ==
  \/ /\ Head(genRC) = "Stop"
     /\ GGoto(w, "none")
     /\ UNCHANGED grun
  \/ /\ Head(genRC) = "Shutdown"
     /\ GGoto(w, "none")
     /\ grun' = FALSE
  \/ /\ Head(genRC) = "Spawn"
     /\ \E v \in GenWorkers : /\ gw[v] = "none"
                              /\ gw' = [gw EXCEPT ![v] = GHead, ![w] = "pick"]
     /\ UNCHANGED grun
  \/ /\ Head(genRC) = "Status"
     /\ GGoto(w, "pick")
     /\ UNCHANGED grun

GControl(w) ==
  /\ gw[w] = "select" /\ genRC # <<>>
  /\ genRC' = Tail(genRC)
  /\ GObeys(w)
  /\ UNCHANGED <<xfrVars, hostQ, gaddr, cached, mainVars, sent>>

(* The ticker has fired, or a message has been read, and the worker goes   *)
(* on with a random address.  HasKey tells whether the cache has it; an    *)
(* error is taken for a no.                                                *)
GPick(w) ==
  /\ gw[w] \in {"select", "pick"}
  /\ \E a \in Addrs :
       \/ /\ a \in cached
          /\ GGoto(w, GHead)
          /\ UNCHANGED gaddr
       \/ /\ a \notin cached \/ "key" \in Faults
          /\ GGoto(w, "lookup")
          /\ gaddr' = [gaddr EXCEPT ![w] = a]
  /\ UNCHANGED <<xfrVars, hostQ, genRC, grun, cached, mainVars, sent>>

(* AddKey, which may fail without consequence or be skipped, and the       *)
(* lookup of the name, which may find none or one that is blacklisted.     *)
(* One step for both: the lookup changes nothing that others see, and a    *)
(* kill between the two leaves what a lookup without a name leaves.        *)
GLookup(w) ==
  /\ gw[w] = "lookup"
  /\ \/ cached' = cached \cup {gaddr[w]}
     \/ "key" \in Faults /\ UNCHANGED cached
  /\ \/ GGoto(w, "send") /\ UNCHANGED gaddr
     \/ GGoto(w, GHead) /\ gaddr' = [gaddr EXCEPT ![w] = Nil]
  /\ UNCHANGED <<xfrVars, hostQ, genRC, grun, mainVars, sent>>

(* Mutants: the send does not respect the capacity; it does not wait, and  *)
(* a host for which there is no room is gone.                              *)
GSendUnbounded(w) ==
  /\ gw[w] = "send"
  /\ hostQ' = Append(hostQ, gaddr[w])
  /\ GGoto(w, GHead)
  /\ gaddr' = [gaddr EXCEPT ![w] = Nil]
  /\ UNCHANGED <<xfrVars, genRC, grun, cached, mainVars, sent>>

GSendNonBlocking(w) ==
  /\ gw[w] = "send"
  /\ hostQ' = IF Len(hostQ) < HostQCap THEN Append(hostQ, gaddr[w]) ELSE hostQ
  /\ GGoto(w, GHead)
  /\ gaddr' = [gaddr EXCEPT ![w] = Nil]
  /\ UNCHANGED <<xfrVars, genRC, grun, cached, mainVars, sent>>

GSend(w) ==
  /\ gw[w] = "send" /\ Len(hostQ) < HostQCap
  /\ hostQ' = Append(hostQ, gaddr[w])
  /\ GGoto(w, GHead)
  /\ gaddr' = [gaddr EXCEPT ![w] = Nil]
  /\ UNCHANGED <<xfrVars, genRC, grun, cached, mainVars, sent>>

GenWorker(w) == \/ GControl(w) \/ GPick(w) \/ GLookup(w) \/ GSend(w)

-----------------------------------------------------------------------------
(* The goroutine in main.                                                  *)
Receive ==
  /\ ingest = "get" /\ hostQ # <<>>
  /\ inhand' = Head(hostQ) /\ hostQ' = Tail(hostQ)
  /\ ingest' = "store"
  /\ UNCHANGED <<xfrVars, genRC, grun, gw, gaddr, cached, main, sent>>

(* HostAdd has given no error: the name is sent on xfrQ if doXfr is set,   *)
(* to the channel that is there at this moment; a send to none waits for   *)
(* ever.                                                                   *)
Forward ==
  /\ ingest' = IF ~doXfr THEN "get"
               ELSE IF main = "queue" THEN "stuck" ELSE "pass"
  /\ inhand' = IF doXfr THEN inhand ELSE Nil

(* Mutants: the name is passed on although HostAdd gave an error; a host   *)
(* that is there already ends the goroutine.                               *)
StoreAnyway ==
  /\ ingest = "store"
  /\ \/ /\ inhand \notin hosts
        /\ Stored(inhand) /\ Forward
     \/ /\ inhand \in hosts \cup lost
        /\ ingest' = "get" /\ inhand' = Nil
        /\ UNCHANGED <<hosts, lost>>
     \/ /\ inhand \in hosts \/ "host" \in Faults
        /\ Forward
        /\ UNCHANGED <<hosts, lost>>
  /\ UNCHANGED <<xfrQ, xfrRC, xrun, xw, zone, xid, result, rows, strays,
                 genVars, main, sent>>

StoreBreaks ==
  /\ ingest = "store"
  /\ \/ /\ inhand \notin hosts
        /\ Stored(inhand) /\ Forward
     \/ /\ inhand \in hosts \cup lost
        /\ ingest' = "off" /\ inhand' = Nil
        /\ UNCHANGED <<hosts, lost>>
     \/ /\ inhand \in hosts \/ "host" \in Faults
        /\ ingest' = "report"
        /\ UNCHANGED <<inhand, hosts, lost>>
  /\ UNCHANGED <<xfrQ, xfrRC, xrun, xw, zone, xid, result, rows, strays,
                 genVars, main, sent>>

(* HostExists and HostAdd (module HostDB).  A host that is there, or whose *)
(* commit was lost and who is still in the cache, is dropped; an error,    *)
(* also that of a row another goroutine has added meanwhile, is printed.   *)
Store ==
  /\ ingest = "store"
  /\ \/ /\ inhand \notin hosts
        /\ Stored(inhand) /\ Forward
     \/ /\ inhand \in hosts \cup lost
        /\ ingest' = "get" /\ inhand' = Nil
        /\ UNCHANGED <<hosts, lost>>
     \/ /\ inhand \in hosts \/ "host" \in Faults
        /\ ingest' = "report"
        /\ UNCHANGED <<inhand, hosts, lost>>
  /\ UNCHANGED <<xfrQ, xfrRC, xrun, xw, zone, xid, result, rows, strays,
                 genVars, main, sent>>

(* The line on the terminal, and back to the queue.                        *)
Report ==
  /\ ingest = "report"
  /\ ingest' = "get" /\ inhand' = Nil
  /\ UNCHANGED <<xfrVars, genVars, main, sent>>

(* Mutant: a name for which there is no room is dropped.                   *)
PassNonBlocking ==
  /\ ingest = "pass"
  /\ xfrQ' = IF Len(xfrQ) < XfrQCap THEN Append(xfrQ, inhand) ELSE xfrQ
  /\ ingest' = "get" /\ inhand' = Nil
  /\ UNCHANGED <<xfrRC, xrun, xw, zone, xid, result, xfrTables, genVars, main, sent>>

Pass ==
  /\ ingest = "pass" /\ Len(xfrQ) < XfrQCap
  /\ xfrQ' = Append(xfrQ, inhand)
  /\ ingest' = "get" /\ inhand' = Nil
  /\ UNCHANGED <<xfrRC, xrun, xw, zone, xid, result, xfrTables, genVars, main, sent>>

-----------------------------------------------------------------------------
(* The control panel puts messages on either channel when it has room; a   *)
(* Spawn only while there is a slot for the worker (bound).                *)
Spawns(rc) == Cardinality({i \in DOMAIN rc : rc[i] = "Spawn"})

Room(rc, w, msg) ==
  msg = "Spawn" => Spawns(rc) < Cardinality({v \in DOMAIN w : w[v] = "none"})

SendGen(msg) ==
  /\ main = "up" /\ sent < MaxMsgs
  /\ Len(genRC) < GenRCCap /\ Room(genRC, gw, msg)
  /\ genRC' = Append(genRC, msg)
  /\ sent' = sent + 1
  /\ UNCHANGED <<xfrVars, hostQ, grun, gw, gaddr, cached, mainVars>>

SendXfr(msg) ==
  /\ main = "up" /\ sent < MaxMsgs
  /\ Len(xfrRC) < XfrRCCap /\ Room(xfrRC, xw, msg)
  /\ xfrRC' = Append(xfrRC, msg)
  /\ sent' = sent + 1
  /\ UNCHANGED <<xfrQ, xrun, xw, zone, xid, result, xfrTables, genVars, mainVars>>

(* The process is killed, or panics; tables and cache are on disk.         *)
Crash ==
  /\ main # "start"
  /\ "crash" \in Faults \/ XPanic
  /\ XfrEnds
  /\ hostQ' = <<>> /\ genRC' = <<>> /\ grun' = TRUE
  /\ gw' = [w \in GenWorkers |-> "none"] /\ gaddr' = [w \in GenWorkers |-> Nil]
  /\ main' = "start" /\ ingest' = "off" /\ inhand' = Nil /\ sent' = 0
  /\ UNCHANGED cached

MainStep == StartGenerator \/ SetFlag \/ MakeQueue \/ StartClient

Ingest == Receive \/ Store \/ Pass \/ Report

Client(w) == XfrWorker(w) /\ UNCHANGED others

Next ==
  \/ MainStep
  \/ \E w \in GenWorkers : GenWorker(w)
  \/ Ingest
  \/ \E w \in XfrWorkers : Client(w)
  \/ \E msg \in CtlMsgs : SendGen(msg) \/ SendXfr(msg)
  \/ Crash

Spec == Init /\ [][Next]_vars

(* Goroutines go on; a select with several ready cases takes each of them  *)
(* sooner or later, and senders on one channel get their turn.  Nothing is *)
(* assumed of messages, names, records, kills.                             *)
Fairness ==
  /\ WF_vars(MainStep) /\ WF_vars(Ingest)
  /\ \A w \in GenWorkers :
       /\ WF_vars((gw[w] = "pick" \/ ~grun) /\ GPick(w)) /\ WF_vars(GLookup(w))
       /\ SF_vars(GSend(w)) /\ SF_vars(GControl(w))
  /\ \A w \in XfrWorkers :
       /\ WF_vars(XBegin(w) /\ UNCHANGED others)
       /\ WF_vars(XPulse(w) /\ UNCHANGED others)
       /\ WF_vars((XLook(w) \/ XAdd(w) \/ XAsked(w) \/ XFinish(w) \/ XReport(w))
                    /\ UNCHANGED others)
       /\ SF_vars(XTake(w) /\ UNCHANGED others)
       /\ SF_vars(XControl(w) /\ UNCHANGED others)

FairSpec == Spec /\ Fairness

-----------------------------------------------------------------------------
(* The client keeps what Zones promises, however many names of one zone    *)
(* reach it, although XfrGetByZone and XfrAdd are two statements, whenever *)
(* the process is killed and whichever commits are lost.                   *)
Asks(w) == xw[w] \in {"ask", "finish"}

Asking == {[zone |-> zone[w], id |-> xid[w]] : w \in {v \in XfrWorkers : Asks(v)}}

Z == INSTANCE Zones WITH table <- rows, asking <- Asking

ImplementsZones == Z!Spec

(* HasKey and AddKey are two transactions, so two generator workers may    *)
(* find one address new, and the transfers find the same hosts; still no   *)
(* host is on its way to the XFR workers twice, and each is in the table,  *)
(* but for those of which HostAdd lost a row in this process.              *)
OnTheWay == Range(xfrQ) \cup (IF ingest \in {"pass", "stuck"} THEN {inhand} ELSE {})

NamesPassedOnce ==
  /\ OnTheWay \subseteq hosts \cup lost
  /\ \A i, k \in DOMAIN xfrQ : xfrQ[i] = xfrQ[k] => i = k \/ xfrQ[i] \in lost
  /\ ingest \in {"pass", "stuck"} => inhand \notin Range(xfrQ) \/ inhand \in lost

NobodyIn(w) == \A v \in DOMAIN w : w[v] = "none"

(* The generator or the client has been started and has no worker left.    *)
GenDead == main # "start" /\ NobodyIn(gw)
XfrDead == main = "up" /\ NobodyIn(xw)

(* The ingest goroutine will never go on: it has sent on the channel that  *)
(* was not made yet, or xfrQ is full and its last reader is gone.          *)
Choked == \/ ingest = "stuck"
          \/ ingest = "pass" /\ Len(xfrQ) = XfrQCap /\ XfrDead

(* There is no way back from these until the process ends: the workers     *)
(* read RC themselves, so once the last is gone no message brings one      *)
(* back, and the host in the hand of a choked goroutine goes nowhere.      *)
DeadEndsStay ==
  [][ main' # "start" =>
        /\ GenDead => GenDead' /\ Len(genRC') >= Len(genRC)
        /\ XfrDead => /\ XfrDead'
                      /\ Len(xfrRC') >= Len(xfrRC) /\ Len(xfrQ') >= Len(xfrQ)
        /\ Choked => /\ Choked' /\ inhand' = inhand
                     /\ Len(hostQ') >= Len(hostQ)
    ]_vars

(* A control message for the generator is read, unless its last worker is  *)
(* gone, or all of them wait behind a choked ingest goroutine: stopping    *)
(* the XFR workers can make the generator deaf.                            *)
GeneratorListens ==
  genRC # <<>> ~> \/ genRC = <<>> \/ NobodyIn(gw)
                  \/ Choked /\ Len(hostQ) = HostQCap

(* A host the generator has found gets into the table, unless the process  *)
(* is killed, HostExists or HostAdd give an error, or a commit of its row  *)
(* is lost: the cache has the address then, and no later process looks it  *)
(* up again.  And unless the ingest goroutine is choked.                   *)
InFlight(a) == \/ \E w \in GenWorkers : gw[w] = "send" /\ gaddr[w] = a
               \/ a \in Range(hostQ)
               \/ ingest = "store" /\ inhand = a

FoundIsStored ==
  \A a \in Addrs :
    InFlight(a) ~> \/ a \in hosts \cup lost
                   \/ ingest = "report" /\ inhand = a
                   \/ main = "start" \/ Choked

(* A zone that is asked for has a row and it gets its final status, unless *)
(* the process is killed, XfrFinish gives an error, or a commit of XfrAdd  *)
(* or XfrFinish is lost for it; after those it may stay unfinished.        *)
Finished(z) == \E i \in DOMAIN rows : rows[i].zone = z /\ rows[i].status \in Statuses

ZonesFinish ==
  \A z \in ZoneNames :
    (\E w \in XfrWorkers : Asks(w) /\ zone[w] = z)
      ~> \/ Finished(z) \/ z \in lost
         \/ \E w \in XfrWorkers : xw[w] = "report" /\ zone[w] = z
         \/ main = "start"
=============================================================================
