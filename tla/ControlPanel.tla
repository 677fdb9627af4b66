---------------------------- MODULE ControlPanel ----------------------------
(***************************************************************************)
(* The scanner under its remote control: the goroutines of the web server  *)
(* that handle spawn_worker and stop_worker (frontend/ajax.go) and hand    *)
(* the request on through Nexus.SpawnWorker and Nexus.StopWorker           *)
(* (backend/nexus.go), which put one message per worker on the RC channel. *)
(* Each client is a browser that has at most one request under way.        *)
(***************************************************************************)
EXTENDS Scanner

CONSTANTS
  Clients,    \* bound: the number of requests under way at a time
  MaxCnt      \* bound: the greatest number of workers asked for at once

ASSUME PanelAssumption ==
  /\ MaxCnt \in Nat \ {0}
  /\ IsFiniteSet(Clients)
  /\ {"Spawn", "Stop"} \subseteq CtlMsgs

VARIABLES
  order,    \* per client: the message its handler is sending, or "none"
  left      \* per client: how many of them it still has to send

panel     == <<order, left>>
panelVars == <<vars, panel>>

PanelTypeOK ==
  /\ TypeOK
  /\ order \in [Clients -> {"none", "Spawn", "Stop"}]
  /\ left \in [Clients -> 0 .. MaxCnt]
  /\ \A c \in Clients : order[c] = "none" <=> left[c] = 0

NoOrders == [c \in Clients |-> "none"]
NoneLeft == [c \in Clients |-> 0]

PanelInit == Init /\ order = NoOrders /\ left = NoneLeft

(* The number of messages msg the handlers have yet to send.               *)
ToSend(msg) ==
  Cardinality({m \in Clients \X (1 .. MaxCnt) :
                 order[m[1]] = msg /\ m[2] <= left[m[1]]})

-----------------------------------------------------------------------------
Accept(c, msg, cnt) ==
  /\ loop # "off" /\ order[c] = "none"
  /\ order' = [order EXCEPT ![c] = msg]
  /\ left' = [left EXCEPT ![c] = cnt]
  /\ UNCHANGED vars

(* Bound: there is a free slot for every worker that is to be spawned.     *)
SpawnRequest(c, cnt) ==
  /\ SpawnsUnderWay + ToSend("Spawn") + cnt <= FreeSlots
  /\ Accept(c, "Spawn", cnt)

(* The number asked for is compared with Count() once, when the request    *)
(* comes in; a larger one gets an error message and changes nothing.       *)
StopRequest(c, cnt) ==
  /\ cnt <= started
  /\ Accept(c, "Stop", cnt)

(* Mutant: the handler does not notice that it has sent them all.          *)
PostEndless(c) ==
  /\ order[c] # "none"
  /\ SendCtl(order[c])
  /\ left' = [left EXCEPT ![c] = @ - 1]
  /\ UNCHANGED order

(* One turn of the loop in SpawnWorker and StopWorker.  After the last one *)
(* the handler answers.                                                    *)
Post(c) ==
  /\ order[c] # "none"
  /\ SendCtl(order[c])
  /\ left' = [left EXCEPT ![c] = @ - 1]
  /\ order' = [order EXCEPT ![c] = IF left[c] = 1 THEN "none" ELSE @]

PanelNext ==
  \/ Step /\ UNCHANGED panel
  \/ Crash /\ order' = NoOrders /\ left' = NoneLeft
  \/ \E c \in Clients :
       \/ Post(c)
       \/ \E cnt \in 1 .. MaxCnt : SpawnRequest(c, cnt) \/ StopRequest(c, cnt)

PanelSpec == PanelInit /\ [][PanelNext]_panelVars

(* Handlers that wait for room in RC are served in their order.            *)
PanelFairSpec ==
  PanelSpec /\ Fairness /\ \A c \in Clients : SF_panelVars(Post(c))

-----------------------------------------------------------------------------
(***************************************************************************)
(* The workers there will be once every message under way has had its      *)
(* effect: those at work, plus those still to be spawned, minus those      *)
(* still to be stopped, wherever the messages for them are.                *)
(***************************************************************************)
AtWork ==
  Cardinality({w \in Workers : worker[w] \in {"born", "select", "scan", "send"}})

SpawnsPending == ToSend("Spawn") + SpawnsUnderWay

StopsPending == ToSend("Stop") + Cardinality({i \in DOMAIN RC : RC[i] = "Stop"})
                + (IF loop = "mm" THEN 1 ELSE 0) + mmQ

Balance == AtWork + SpawnsPending - StopsPending

(* As long as the scanner runs, a request that is accepted changes the     *)
(* balance by the number of workers it asks for, and nothing else changes  *)
(* it: a message is neither lost nor obeyed twice between the handler, RC, *)
(* Loop, mmQ and the worker that obeys it, and no worker ends unasked.     *)
BalanceKept ==
  [][ running /\ running' =>
        \/ Balance' = Balance
        \/ \E c \in Clients :
             /\ order[c] = "none"
             /\ \/ order'[c] = "Spawn" /\ Balance' = Balance + left'[c]
                \/ order'[c] = "Stop" /\ Balance' = Balance - left'[c]
    ]_panelVars

(* No worker can take a stop message any more: there is none, or those     *)
(* there are wait for Loop to read their results.                          *)
NobodyListens ==
  \A w \in Workers : \/ worker[w] = "none"
                     \/ worker[w] = "send" /\ Len(resultQ) = ResultQCap

(* Loop waits for a worker to make room in mmQ, and none ever will.        *)
Standoff == loop = "mm" /\ mmQ = MMQCap /\ NobodyListens

(* Loop never leaves either of these until the process ends: from then on  *)
(* no message on RC is read and no result becomes a row, whatever hosts    *)
(* arrive and whatever the panel asks for; the next host does not help a   *)
(* wedged Loop, and a worker to be spawned cannot end a standoff.          *)
LoopStaysStuck ==
  [][ loop' # "off" =>
        /\ Wedged => Wedged'
        /\ Standoff => Standoff'
        /\ Wedged \/ Standoff => Len(RC') >= Len(RC) /\ portTbl' = portTbl
    ]_panelVars

(* Every request is answered, unless Loop has stopped to read RC: it has   *)
(* no host to pick a request from yet, it is wedged in its search for one, *)
(* or it waits for a worker to make room in mmQ, and the workers were      *)
(* stopped, wait for Loop, or hang in a probe that has no deadline.        *)
RequestsAnswered ==
  \A c \in Clients :
    order[c] # "none" ~> \/ order[c] = "none"
                         \/ hostTbl = <<>>
                         \/ Wedged
                         \/ Unheard

(***************************************************************************)
(* A promise of the documentation that the code does not keep.             *)
(***************************************************************************)

(* "StopWorker stops <n> workers in the specified facility"                *)
(* (nexus.go:90): as long as no more workers are told to stop than are at  *)
(* work, Loop never ends up in front of a full mmQ nobody reads.           *)
NoStandoff == AtWork >= StopsPending => ~Standoff
=============================================================================
