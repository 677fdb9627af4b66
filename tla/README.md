# guang, specified

guang finds hosts (random addresses with a reverse DNS name, zone transfers) and
scans one port of one host after the other, slowly; the answers are kept in an
SQLite database and shown by a small web server, which also lets its user start
and stop workers. This directory holds TLA+ specifications of its concurrent
core, from the generator to the page in the browser, the configurations that check it with TLC, and proofs about it that TLAPS
checks. Paths like `backend/scanner.go:252` are relative to the repository.

    tlc -config MCPanelBalance.cfg MCControlPanel     # one run
    tlapm ScannerProofs.tla                           # the proofs of one module

## 1. The system

| component | state | operations | interacts with |
|---|---|---|---|
| **Scanner** `backend/scanner.go` | `running`, `started` under a lock; channels `hostQ`, `scanQ`, `resultQ`, `mmQ`, `RC`; the locals of `Loop`, `hostFeeder` and each worker | `Start`, `Stop`, `Count`, `Loop`, `hostFeeder`, `getRandomScanRequest`, `worker`, the probers | reads the host and port tables, writes the port table; receives control messages |
| **Port choice** `getScanPort` | none | which port next | called by `Loop` |
| **Nexus and worker handlers** `backend/nexus.go`, `frontend/ajax.go` | one goroutine per HTTP request | spawn, stop and count the workers of a facility; trigger the metadata update | send on the `RC` channels of scanner, generator and XFR client |
| **Host database** `database/database.go` | a `*sql.DB`, prepared statements, an open transaction, a process-wide cache of host addresses | `OpenDB`, `Begin`/`Commit`/`Rollback`, one method per query | every component has a `HostDB` of its own on the same file |
| **Database pool** `database/pool.go` | a free list, a counter, a condition variable | `Get`, `GetNoWait`, `Put`, `Close` | the web pages |
| **Generator** `generator/` | `running`, `runningCnt`, `HostQueue`, `RC`, an address cache on disk | the workers | feeds `HostQueue`; its workers read `RC` themselves |
| **XFR client** `xfr/xfr.go` | `isRunning`, `workerCnt`, `RC`, the `xfr` table | the workers, `performXfr`, `attemptXfr` | reads `xfrQ`, adds hosts |
| **Main** `guang.go` | `doXfr`, `xfrQ` | start-up; the goroutine that stores generated hosts and passes their names on | all of the above |
| **Blacklists** `blacklist/` | lists ordered by hits, under a lock | `Matches`, `MatchesIP` | generator, XFR client |
| **Metadata** `backend/metadata.go` | none but the database | location and operating system of each host | triggered by the control panel, one at a time |
| **Results page** `frontend/web.go`, `ajax.go`, `static/update.js`, `controlpanel.js`, `settings.js` | in the browser: the tables and totals of the page, `updateStamp`, the requests under way, a setting in `localStorage` | refresh on a timer, ask for the number of workers, order some | asks the web server, which reads the port table |
| **Other pages** | a cache header, templates | read-only pages, the beacon | database pool |

What is hard about it, and what would make it correct:

* **Scanner.** Three kinds of goroutines, five bounded channels in a circle
  (`Loop -> scanQ -> worker -> resultQ -> Loop`), copies of the port table that are
  old when they are used, results that race for one row, a process that is only
  ever killed. Correct means: no scan is lost but to a failed query or a kill; a
  port has one row, which stays; a port is passed over only if it has a row;
  `Count()` is right; a dispatched scan is recorded in the end; workers end on
  shutdown.
* **Port choice.** A chain of `if`s over sources, name patterns and ports. Correct
  means: the hints come first and in order, no port twice, every port in the end.
* **Control panel.** A count that is read before it is acted on; messages that pass
  two bounded channels and a goroutine that may be busy. Correct means: as many
  workers start and end as accepted requests say, and requests are answered.
* **Host database.** Ad-hoc and explicit transactions, ignored commit errors, a cache
  that is written before the commit, the creation of the file. Correct means: the
  cache and the success of a call tell the truth about the table; no address is
  inserted twice; whoever has the database open finds its tables.
* **Pool.** Correct means: a connection has one user, no wake-up is lost, a closed
  pool holds nothing.
* **Generator, main, XFR client.** Control messages that are read by the workers
  themselves, a check and an insert that are two steps, back pressure from `xfrQ`
  to the generators, variables shared without a lock. Correct means: no address and
  no zone twice, every zone ends with a status, requests are answered.
* **Results page.** A timer that does not wait for the last answer, a stamp that is
  taken when an answer is shown and compared with stamps that are older than their
  rows, callbacks that throw half-way, answers that overtake each other. Correct
  means: every row comes and comes once, the totals are right, the number of
  workers settles.
* **Blacklists, metadata.** Small and sequential under a lock.

`PROJECT.json` lists every component with its status, and every hazard at its line.

## 2. The modules

| module | models | remarks |
|---|---|---|
| `ScanPorts` | `getScanPort` as an operator that returns the set of answers the code may give | a random choice is a set; the name patterns are a field of the host |
| `PortWalk` | one host from its first port to its last, alone | composes `ScanPorts` with one row of state |
| `Ledger` | the abstract specification of the scanner: open scans and the port table, no queues | promises unique and permanent rows, which `ScannerProofs` proves of it |
| `Scanner` | `backend/scanner.go` and the parts of the database it uses | extends `ScanPorts`; implements `Ledger` |
| `ControlPanel` | the HTTP handlers and the Nexus in front of the scanner's `RC` | extends `Scanner` |
| `HostDB` | `OpenDB` and `initialize`, transactions, `HostExists` and `HostAdd` with the address cache | alone; what `Pipeline` takes for one step is shown here in detail |
| `Pool` | `database/pool.go`, with `Begin`, `Commit` and `Rollback` of its connections | alone; checked as it is |
| `Zones` | the abstract specification of the XFR client: the life of a zone | promises one row per zone, that only unfinished zones are asked for and that a status is final, all but for the ids of lost rows; `PipelineProofs` proves this of it |
| `XfrClient` | `xfr/xfr.go` and the xfr table | has no `Next` of its own |
| `Pipeline` | `generator/`, start-up and ingest goroutine of `guang.go` | extends `XfrClient`; implements `Zones` |
| `ResultsPage` | the page by_port in a browser: `update.js`, `controlpanel.js`, `settings.js`, and the handlers that answer them | alone |
| `PortWalkProofs`, `ScannerProofs`, `PanelProofs`, `HostDBProofs`, `PoolProofs`, `PipelineProofs`, `ResultsPageProofs` | the proofs about the module of that name | `PanelProofs` also extends `ScannerProofs` |
| `SequenceFacts` | lemmas about queues, lists and how often a message is in one | used by the proofs |
| `MCPortWalk`, `MCScanner`, `MCControlPanel`, `MCPipeline`, `MCResultsPage` | values for the constants | `HostDB` and `Pool` need none |

A definition whose comment begins with *Mutant* is a plausible bug. No specification
uses it; replaced for the definition below it, it makes a run fail, which shows
that the property of that run can tell the difference.

### How `Scanner` corresponds to the code

A step is what a goroutine does between two points where it may block or touch
shared state. The five channels are sequences with the capacities
`CreateScanner` gives them (`mmQ`, which only carries *Stop*, is a number).

| variable | code |
|---|---|
| `running`, `started` | the fields under `sc.lock` |
| `worker[w]`, `job[w]` | where worker `w` is, and its `request` / `result`: *born* (the `go` statement was executed, `cntInc` not), *select*, *scan*, *send* (in front of `resultQ`), *quit* (before the deferred `cntDec`) |
| `loop`, `req`, `portmap` | `Loop`: *get* (in front of `hostQ` in `getRandomScanRequest`), *select*, *mm* (in front of `mmQ`), *exit* |
| `feeder`, `batch`, `target` | `hostFeeder`: *open*, *fetch*, *ports*, *send* (in front of `hostQ`) |
| `hostTbl`, `portTbl` | the tables; the host table is a sequence because `HostGetRandom` reads a window `LIMIT n OFFSET random` of it |

| action | code |
|---|---|
| `Start` | `Scanner.Start` and `go scanner.Loop()` in main |
| `FeederOpen/Fetch/Ports/Send` | `OpenDB`; `HostGetRandom`; `PortGetByHost` per host; `hostQ <-` |
| `LoopGet` | one turn of `GET_HOST`, with `getScanPort` |
| `LoopDispatch/Result` | the cases `scanQ <- req` and `<-resultQ` with `PortAdd` |
| `LoopShutdown/Stop/Spawn/Ignore`, `LoopForward` | the case `<-RC`; `mmQ <- Stop` |
| `WorkerBegin/Stop/Take/Pulse/Scan/Send/Exit` | `worker`, with `scanHost` as one step |
| `HostArrives` | `HostAdd` by whoever finds a host |
| `SendCtl` | a send on `RC` (in `ControlPanel`: one turn of the loop in `SpawnWorker` / `StopWorker`) |
| `Crash` | the process is killed: the tables stay, all else is gone |

`"db" \in Faults` lets each query of the feeder and each `PortAdd` fail in the way
the code handles it; `"crash" \in Faults` allows `Crash`. What a probe brings back is
a member of `Replies`, `NoReply` for an error. `TimedPorts` are the ports whose
prober has a deadline; `scanPlain` and `scanTelnet` have none, so a worker may stay
in *scan* on the others.

`ControlPanel` adds, per client, the message its handler sends and how often it
still has to: `StopRequest` compares with `Count()` once (`ajax.go:226-241`), `Post`
sends one message.

### How `Pool` corresponds to the code

What the code does between `Lock` and `Unlock` is one step. `Get` and `Recheck` are
the two passages through `WAIT_FOR_LINK`, the second after a `Wait` has returned;
`Put` is everything up to `Unlock` and `Signal` what follows it. `waiters` is the
condition variable's list, which wakes the longest waiting first; a waiter that has
been woken (`pc = "woken"`) still has to get the lock, and others may come before it.
`tx` is the field of that name in the `HostDB`: *done* is a transaction that could not
be ended properly, after which `db.tx` stays set (`database.go:189`).

### How `HostDB` corresponds to the code

A caller is a goroutine with a `HostDB` of its own; the cache is the process's, the
file everybody's. `Open` is `OpenDB` up to the end of `openLock`, or into `initialize`
if there is no file (`database.go:83-135`); `Create` and `CreateFails` are the two ends
of `initialize` (`database.go:195-243`). `Lookup` and `Query` are the two halves of
`HostExists`, `Insert` is `HostAdd` up to the cache entry (`database.go:321`), `Finish`
its ad-hoc commit, whose error is ignored. `tx` is the field of that name: *done* is a
transaction that is over although the field is still set.

`file` is *bare* from the first connection until the tables are committed. `Insert` waits
for SQLite's one writer, which is what the `WaitForRetry` loops do. Faults: `"db"` lets a
statement fail, `"commit"` a commit or rollback, `"crash"` kills the process. Three
variables are history and influence nothing: what callers were told (`answered`), what
was rolled back or not committed after it had been added (`lost`), whether a fault hit
the creation (`botched`).

### How `XfrClient` and `Pipeline` correspond to the code

| variable | code |
|---|---|
| `main` | how far `guang.go:100-150` is: *flag*, before `doXfr = true`; *queue*, before `xfrQ` is made; *client*, before the XFR client is started |
| `gw[w]`, `gaddr[w]` | a generator worker: *select*, *pick* (a message has been read, the rest of the round is to come), *lookup* (between `HasKey` and `AddKey`), *send* (in front of `HostQueue`) |
| `cached` | the bbolt file |
| `ingest`, `inhand` | the goroutine of `guang.go:111-134`: *get*, *store*, *pass* (in front of `xfrQ`), *stuck* (it sends on the nil channel), *report* (a query has failed) |
| `xw[w]`, `zone[w]`, `xid[w]`, `result[w]` | an XFR worker and its `xfr`: *look* (in front of `XfrGetByZone`), *add*, *ask* (`performXfr`), *finish* (`XfrFinish`), *report* (`XfrFinish` has failed) |
| `rows` | the xfr table, a sequence: the id of a row is its place in it |
| `lost`, `strays` | history: of which addresses and zones this process has lost a row or status to a commit whose error is ignored, and the ids `XfrAdd` gave for lost rows |

`Store` is `HostExists` and `HostAdd` with the test of `doXfr` that follows. It has four
outcomes. The host is stored, and its name sent on (`Forward`). The commit of `HostAdd` fails, which
returns nil all the same (`database.go:323-325`): the name is sent on, the host is not in the table but in
the cache of the process (`Stored`). The host is in the table, or in the cache only, and is dropped. One of the two gives an
error, which is printed, and the host is gone (*report*, `Report`). There is one
ingest goroutine; that two statements do not add a host twice is `HostDB`'s business.

`XAdd` likewise: with a row, with an ignored commit error and no row (`Enter`, `database.go:680-684`), with an
error. A worker without a row goes on to ask; its transfer has the id the next row will have,
since SQLite gives a new row the highest id plus one, and `XfrFinish` updates by id alone (`Update`, `qdb.go:56`):
when another zone has got that id, its row gets the status of this transfer. `XfrFinish` ignores the
error of its commit as well.

The workers of both kinds read their own `RC`. `"key" \in Faults` lets `HasKey`
and `AddKey` fail (which the code ignores), `"host"` the queries and inserts of the ingest goroutine, `"zone"` the
statements on the xfr table, `"commit"` the ad-hoc commits of either: a failing `XfrGetByZone` dereferences nil rows (`database.go:775`), so
`XPanic` allows the process to end there without `"crash"`. What a name server answers
is any number of records and either result; that `performXfr` returns is taken for granted.

### How `ResultsPage` corresponds to the code

The functions have the names they have in the JavaScript and Go files. `Render` is the
server's half of a page load, `Load` the browser's (`initSettings`, and `updateStamp`
at the top of `update.js`). A request is in a slot until its callback has run; answers
come in any order, and `Fail` is a request without one. `AppendRows` is the loop over the
ports of an answer (`update.js:19-45`), which ends in an exception at the first port the
page has no table for; then neither `updateStamp` nor the total is reached. The
database compares with whole seconds, and a row has its stamp (`scanHost`) before it
is in the table (`PortAdd`). `overlap` and `threw` are history.

## 3. The runs

| run | instance | states | shows |
|---|---|---|---|
| `port_walk` | 8 ports: the six that are hinted at and two others; 20 kinds of host | 2 088 | `HintsComeFirst`, `NeverTwice`, `EveryPortScanned`, `TypeOK` |
| `scanner_faults` | 1 host, 2 ports, 1 worker, 2 replies, Stop, Spawn, Status and Bye, failing queries, kills | 770 000 | `SnapshotsSound`, `ImplementsLedger`, `TypeOK` |
| `scanner_live` | 1 host, 2 ports of which 1 has a probe without a deadline, 1 worker, Stop, Spawn and Shutdown, fairness | 100 000 | `ScansRecorded`, `ImplementsLedger`, `ShutdownEndsWorkers` |
| `panel_balance` | 2 clients asking for up to 2 workers each, 2 worker slots, 1 host, 1 port | 910 000 | `BalanceKept`, `CountExact`, `Held`, `LoopStaysStuck`, `PanelTypeOK` |
| `panel_answers` | 2 clients, 1 worker slot, 1 port whose probe has no deadline, kills, fairness | 51 000 | `RequestsAnswered` |
| `pool` | 3 users, 2 connections and 1 that `GetNoWait` may open, failing ends of transactions, `Close`, fairness | 9 000 | `OneOwner`, `CountMatches`, `NoLostWakeup`, `NoForeignTransaction`, `NoIdleWhileWaiting`, `TypeOK` |
| `hostdb` | 3 callers, one of which groups, 2 addresses, every fault, fairness | 43 500 | `Truthful`, `InsertedOnce`, `TablesThere`, `TableKept`, `CallsEnd`, `TypeOK` |
| `pipeline_faults` | 2 addresses in 2 zones, 1 generator worker and a slot for a second, 2 XFR workers, 1 message of any kind, failing queries, inserts and updates, lost commits, kills; symmetry in the workers | 674 000 | `NamesPassedOnce`, `ImplementsZones`, `TypeOK` |
| `pipeline_live` | 2 addresses of which 1 has a zone, 1 worker of each kind, 1 Stop, failing caches, queries, inserts and updates, kills, fairness | 229 000 | `GeneratorListens`, `FoundIsStored`, `ZonesFinish`, `DeadEndsStay` |
| `results_page` | 3 rows (1 old) on 2 ports, 2 seconds, 2 requests at a time, 1 worker, fairness | 146 000 | `OnceEach`, `TotalAddsUp`, `NewRowsAppear`, `CounterSettles`, `TypeOK` |
| `portmap` | 2 hosts, 2 ports | violation | `LeftOutPortsScanned` |
| `panel_standoff` | 1 client, 2 worker slots | violation | `NoStandoff` |

**Why the bounds are enough.** With `WorkerCnt = 1` the queues hold 1, 1, 2 and 1
elements, so each of them is empty, full and in between; a spawned second worker is
more than the queues were made for, which is what fills `resultQ`. Two ports are the
least for a host that is partly scanned; two hosts the least for `portmap` to carry
something from one to another; one port and one host are enough to be exhausted.
Two replies are needed to tell a replaced row from a kept one. One client
already races with itself, since an answered request is still under way; two clients race
with each other for the two places of `RC`. In `scanner_live` port 53 has a deadline and port
80 has none, so a worker may come back from its probe or not, and with the one worker stopped or
hanging, requests lie in `scanQ` and `mmQ` fills. In `panel_answers` the one port has no deadline, so
every probe may end or hang; with a deadline there are only fewer states that count as
hanging, and weak fairness ends those probes. The number of worker slots (`Workers`), of
clients and of workers asked for at once (`MaxCnt`) are the only bounds that the
program does not have; a *Spawn* is only sent while there is a free slot for it.

In `Pool`, two connections are what the web server opens (`web.go:39`), and three users
the least for one to wait while another is woken and a third overtakes it.

In `HostDB` a third caller is needed to wait while one holds the write lock and
another has it next; a second address, for a transaction with more than one row. In
`Pipeline` the queues have the capacities of one worker (`HostQueue` 2, `xfrQ` 1), which
two addresses and the host the ingest goroutine holds can fill. Two XFR workers get names of one zone
when both generator workers draw one address and the first commit of its host is lost, and
names of two zones otherwise; two zones are what it takes for one to get the id
of the other's lost row. `MaxMsgs` bounds the messages in the life
of a process: one *Spawn* is enough for the second worker, and one *Stop* for one kind to have no
worker left; since a kill begins a new life, every order of them happens. `pipeline_faults` takes workers of a
kind for interchangeable (`SYMMETRY`), which nothing in its invariants and action properties tells
apart. `pipeline_live` has every fault but a lost commit (`"commit"`), which makes it 19 times as large: a lost
commit only puts its address or zone into `lost`, from where on `FoundIsStored` and `ZonesFinish`
ask for nothing, and the goroutine goes on as after a commit that was kept. In `ResultsPage` one row is old, so that its port has a table, and
one is on a later port that may have none, so that an answer can throw with and without
rows appended before; two slots are two overlapping requests; two seconds are a row
with an old stamp and one with a new. An answer that has thrown comes again with every
refresh, so `MaxShown` bounds how often a row is added.

**Why deadlock is off** where a cfg says so: after a *Shutdown* the scanner stops,
and a standoff or an exhausted database stops it too; these states are what
the liveness properties name. A pool stops when it has been closed and all users wait.
Callers of the database are done when every address is there and nobody opens a transaction;
the pipeline stops when its workers have been stopped, which its liveness properties
name; on the results page nothing but the bounded clock and the user's actions would go on.

**Fairness.** The Go runtime runs every goroutine that is ready: weak fairness for
a step nothing else can disable (a send into a channel with one sender, a query,
the heartbeat, the end of a probe with a deadline). A `select` chooses at random
among its ready cases, and senders that wait on a channel are served in their order:
strong fairness for the cases of `Loop` and of the workers, for the sends on
`resultQ` and for the handlers' sends on `RC`. Nothing is assumed of new hosts, of
the users, of faults, or of a probe without a deadline. In `Pool` a goroutine that is
inside `Put` or has been woken inside `Get` goes on (weak fairness of `Signal` and
`Recheck`); nobody has to return a connection. In `HostDB` a call goes on; one that finds the
database busy tries again every 10 ms, so it gets the lock if that is free again and
again (strong fairness of `Insert`); nobody has to commit. In `Pipeline`, again, goroutines
go on, a `select` takes each of its ready cases sooner or later, senders get their turn;
no message, name, record or kill is assumed. In `ResultsPage` the two timers are set again
whatever happens (`finally`), the server answers what it is asked, and of the answers that
come again and again not all are lost; nothing makes time pass, a scan end, or a user act.

## 4. What the checks show

The pipeline keeps its promises about data. Whatever the interleaving, no stop
message, shutdown or full queue loses a scan; results that race for one row do no
harm because the second is refused; the snapshots are old but never wrong; the
worker count is exact; control messages are neither lost nor doubled.

The pool does what it says: signalling outside the lock and being overtaken cost no
waiter its connection, and `Close` while connections are in use neither loses nor
doubles one.

The host table keeps its addresses unique however its users' statements interleave, takes
the rows of a transaction as a whole, and
the cache never runs ahead of a transaction that is still to be committed. From the
generator to the zone transfers each host and each zone is handled once, whatever is
killed and whenever: the UNIQUE constraints decide every race, and the loser gives up. This ends
where a commit fails and nobody looks at its error; what may happen then is below. The
results page is right as long as its requests do not overlap and every port has its table.

Two runs end in a violation of something the repository says of itself; they are
the findings in `PROJECT.json`:

1. `portmap` (`scanner.go:348-372`): `portmap` is not emptied on the way back to
   `GET_HOST`. Once a host with nothing left has been drawn, the hosts after it look
   scanned as well, and when `portmap` holds every port `Loop` is *wedged*: it takes
   hosts and gives no request for ever. `ScansRecorded` and `RequestsAnswered` hold
   only with this exception, and `LoopStaysStuck` says that neither this nor the standoff
   below ever ends before the process does.
2. `panel_standoff` (`scanner.go:252`): `Loop` waits for `mmQ` while the workers wait
   for `Loop`.

Other limits of the code are stated in the properties that hold only with them:

* `ScansRecorded`: a request in `scanQ` waits as long as the workers are stopped or hang
  (`Untaken`); a probe of `scanPlain` or `scanTelnet` may never end (`Hanging`); and `Loop`, once a *Stop* has filled `mmQ`, records nothing
  while its workers are stopped, hang, or wait for it (`Unheard`). It speaks of runs without failing
  queries, since a result whose `PortAdd` fails is lost.
* `RequestsAnswered`: no answer comes without a host, or when `Loop` is wedged or `Unheard`. A standoff is the
  case of `Unheard` that no probe can end, the one `LoopStaysStuck` and the finding are about.
* `ShutdownEndsWorkers`: a worker in front of a full `resultQ` does not notice a
  shutdown (`scanner.go:442`).
* `BalanceKept`: `Count()` includes workers that are already told to stop
  (`ajax.go:234`), so the balance it keeps may be negative; the surplus messages
  stop workers that are spawned later.
* Two workers may probe ports of one host at the same time, which `README.md:9` rules
  out; the Ledger does not promise otherwise.
* `Truthful`: an ad-hoc commit whose error nobody looks at, or a rollback, leaves an address in
  the cache, or a caller with a success, for a row that is not there (`lost`); it is
  not tried again until the entry expires.
* `TablesThere`: a kill between the creation of the file and its tables leaves a database
  no later start repairs (`botched`), because `OpenDB` only looks whether there is a file.
* `FoundIsStored`, `GeneratorListens`: the ingest goroutine is *choked* when it has sent on `xfrQ`
  between `doXfr = true` and `make`, or when the XFR workers have been stopped; then
  `HostQueue` fills and the generator hears nothing any more. `DeadEndsStay`: no message
  brings such a goroutine back, nor the workers of a generator or XFR client that has none
  left, since only they would read the *Spawn* (`generator.go:143`, `xfr.go:152`). A kill, or an error of `HostExists` or
  `HostAdd`, costs the hosts that are in the cache of addresses but not yet in the table: no later
  process draws them again. So does a commit of `HostAdd` that fails, without a word.
* `NamesPassedOnce`: a host whose row was lost to such a commit is passed on without being in the table, and
  perhaps again.
* `ZonesFinish`: a zone whose transfer was interrupted by a kill, or whose `XfrFinish` has failed, with an
  error or in its commit, stays unfinished for ever.
* `ImplementsZones`: a zone whose row was lost to a failed commit of `XfrAdd` is asked for without a row,
  and by others again; its id then belongs to the next zone that is added, and whichever
  transfer ends last decides that row's status.
* `OnceEach`, `TotalAddsUp`, `NewRowsAppear`: overlapping requests bring rows twice; a port that has no
  table yet ends the callback, and the rows of the ports before it come again with every
  refresh. A row that is stored after an answer, with a stamp from before it, never comes
  at all (`NewRowsAppear` is about rows newer than `updateStamp`). The refresh is on in
  `settings` but off after `initSettings` for a user who has never saved it.

## 5. What is proved

Every invariant, every action property and both refinements that the passing runs check are
proved, in seven modules, together with what `Ledger` and `Zones` promise; every listed
theorem is for all values of the constants that satisfy the named assumptions.

**Scanner.** For all constants that satisfy `PortsAssumption`, `ScannerAssumption` and
`HintsAssumption` (the queues have room for one element at least; there are as many
slots as configured workers; the hinted ports are in the port list, as they are
in `Ports`):

| theorem | statement | argument |
|---|---|---|
| `Typing` | `Spec => []TypeOK` | part of `Invariance` |
| `Counting` | `Spec => []CountExact` | part of `Invariance` |
| `Holding` | `Spec => []Held` | part of `Invariance` |
| `Snapshots` | `Spec => []SnapshotsSound` | relative to `Invariance`; rows only grow (`RowsGrow`), so a copy stays below the table |
| `Refinement` | `Spec => ImplementsLedger` | relative to `Invariance`, one step per action in `LedgerStep` |
| `LedgerUnique`, `LedgerKeeps` | `Abstract!Spec => []UniqueRows`, `RowsPermanent`: the Ledger's rows are unique per pair and permanent | directly |
| `TableKept` | the same of `portTbl` | `Refinement` and the two above |
| `PanelProofs`: `PanelTyping`, `Balancing`, `PanelRefinement`, `DeadEnds` | `PanelSpec =>` `[]PanelTypeOK`, `[]BalanceKept`, `ImplementsLedger`, `LoopStaysStuck` | `PanelInvariance`; see below |
| `PoolProofs`: `Typing`, `Ownership`, `Counting`, `Waking`, `Isolation` | `Spec => []` of `TypeOK`, `OneOwner`, `CountMatches`, `NoLostWakeup`, `NoForeignTransaction` | parts of `Pool`'s inductive invariant |
| `HostDBProofs`: `Typing`, `Truth`, `Uniqueness`, `Tables`, `Kept` | `Spec =>` `[]TypeOK`, `[]Truthful`, `[]InsertedOnce`, `[]TablesThere`, `TableKept` | parts of `HostDB`'s inductive invariant; `Kept` action by action |
| `PipelineProofs`: `Typing`, `PassedOnce`, `Refinement`, `DeadEnds` | `Spec =>` `[]TypeOK`, `[]NamesPassedOnce`, `ImplementsZones`, `DeadEndsStay` | parts of `Pipeline`'s inductive invariant; one step per action |
| `PipelineProofs`: `ZonesAsked`, `ZonesStay` | `Z!Spec =>` `[](OneRowEach /\ AskedUnfinished)`, `RowsFinal` | the first is inductive with the type of the rows (`ZonesInductive`); the second rests on it |
| `PipelineProofs`: `ZonesKept` | all three of the xfr table | `Refinement` and the two above |
| `ResultsPageProofs`: `Typing`, `Once`, `Totals` | `Spec => []` of `TypeOK`, `OnceEach`, `TotalAddsUp` | parts of `ResultsPage`'s inductive invariant; see below |
| `PortWalkProofs`: `Typing`, `HintsFirst`, `Once` | `Spec => []` of `TypeOK`, `HintsComeFirst`, `NeverTwice` | parts of `PortWalk`'s inductive invariant |

The inductive invariant `IInv` is `TypeOK /\ Held /\ CountExact`. `TypeOK` alone is not
inductive: `LoopDispatch` puts `req` into `scanQ`, which has the right type only
because `Held` says that `Loop` in its `select` has a request, and a worker in *send*
builds its result from a `job` that `Held` says is there. `CountExact` needs `Held` for
the start (before it there is no worker) and `TypeOK` for the arithmetic; the lemmas
`TypeStep`, `HeldStep` and `CountStep` prove the three parts of the step. `Refinement`
needs `Held` too: a step that sets a worker's job to `Nil` drops an open scan
unless its result is in `resultQ`.

**Control panel** (and `PanelAssumption`). A step of the panel is a step of the scanner
or changes nothing of it (`Projection`), so the scanner's invariant and refinement
carry over, and `panel_balance` need not check `ImplementsLedger` once more. `BalanceKept` counts messages in the four places they can be in: the handlers
(`Unsent`), `RC`, `Loop`'s hand, `mmQ`; `CountOfAppend` and `CountOfTail` of `SequenceFacts`
say what a send and a receive do to the number of a message in a channel, and the sum before and
after is compared action by action (`ScannerBalance`, `PostBalance`, `AcceptBalance`).
It needs `Orders`: a handler that sends nothing has nothing left to send. `LoopStaysStuck`
is shown action by action: a wedged `Loop` can only take the next host, which adds nothing to
a `portmap` that has every port (`NothingLeft`, `WedgedStep`); in a standoff every worker is off
or waits in front of a full `resultQ`, so none can take a step, and `Loop` cannot either (`StandoffStep`); and only `Loop` takes from `RC`
(`OnlyLoopReads`).

**Port choice** (from `WalkAssumption`: the hinted ports are in the list). The chain of `if`s is reduced to the eight
lists of hints it amounts to (`EightLists`), which have no port twice (`HintsDiffer`).

**Host database** (from `HostDBAssumption`). Added to the checked invariants are `CallsHold`, in
front of the ad-hoc commit a caller's row is in its transaction; `OneWriter`, only the
holder of the write lock has rows pending, which makes two pending sets disjoint; and `Creation`,
a bare file is being created by whoever holds `openLock`, or a fault hit its creation.
`TableKept` needs `Made` besides: nobody creates a database that has tables, and nobody is between
query and commit, or has rows pending, in one that has none. So the `os.Remove` of a failed
creation (`database.go:95`, `:220`) never hits a table with rows.

**Pipeline** (from `XfrAssumption` and `PipelineAssumption`). Added are `Held`, a transfer under way has
an unfinished row of its zone under its id, which no other transfer has, or its id is a stray one; `Carried`, goroutines
in the middle of something have an address; and `NotYet`, there is no XFR worker before
`StartClient`, which would otherwise overwrite one. `Held` is what `XAdd` establishes because of
the UNIQUE constraint and because its id comes after those of all rows (`AddStep`), and what `XFinish`
keeps for the others because it updates no row but its own, or one whose id is a stray one (`EndStep`). `Refinement` maps `XAdd` to `Begin` or,
when the commit is lost, to `Stray`, `XFinish` to `End` and a kill to `Kill`; everything else stutters. Every exception is in the
promises of `Zones`, none in the refinement.

`DeadEnds` adds `Asleep`, no ingest goroutine before the generator is started. It rests on
`NeedsWorker`: every action of a worker needs one that is not off, so no action can start
one when all are off. `Choked` says *the XFR client is up* in so many words: a queue that is full while the
client has not been started yet is no dead end, although no worker is there either, because
`StartClient` ends it. Without that conjunct the step of `StartClient` cannot be proved and
is no dead end in the code.

**Results page** (from `ResultsPageAssumption`: the ports of the rows are natural numbers, an empty slot is
neither a request nor a time). `Pending(r)` is the set of requests under way whose
answer may bring row `r`: those still to be answered whose `since` is older than the row's stamp, and the
answers that hold it. Added to the checked invariants are `ShownStamped`, a row on the page has a stamp,
which is not newer than `updateStamp` unless a callback has thrown; `Single`, without an overlap at most
one request for rows is under way; `Fresh`, while nothing has overlapped or thrown a row on the page is
there once and not pending; and `Bounded`, by which a row's count stays within its type although a
thrown answer comes again. `OnceEach` is not inductive without `Fresh`, nor `Fresh` without
`ShownStamped` (the next request must not ask for what is shown) and `Single` (a second request with
the same stamp would bring the rows of the first again). The total is compared with the
number of lines, a finite union whose cardinality grows by that of the new lines.

**Pool** (from `PoolAssumption`). The inductive invariant adds two parts to the
checked ones: `UsersHold`, a user has a connection exactly in *using*, and `WaitersListed`,
the notify list holds exactly the waiting users and each once. Without the second, a
signal might wake somebody who is awake, and the number of signals under way
(`Rousing`) would fall while a connection lies free. One lemma per part shows what
each kind of step does to it.

Only model-checked are the liveness properties (`EveryPortScanned`, `ScansRecorded`,
`ShutdownEndsWorkers`, `RequestsAnswered`, `NoIdleWhileWaiting`, `CallsEnd`,
`GeneratorListens`, `FoundIsStored`, `ZonesFinish`, `NewRowsAppear`, `CounterSettles`):
they rest on fairness, hence on `ENABLED`, which is beyond the prover, as is induction
over data. `LoopStaysStuck` and `DeadEndsStay` are the provable half of some of them: `Wedged`, `Standoff`,
`Choked` and a client without workers, by which they are qualified, are states the program does not recover from.

## 6. What is not modelled

* The probers' protocols: a probe ends with a reply or without one, or not at all; likewise the
  protocol of a zone transfer, and what `HostRE` finds in a name.
* Time: the heartbeat is a step that may happen, timeouts are fairness. Only `ResultsPage`
  has a clock, since stamps are compared there.
* The vendored scripts under `frontend/html/static/`: Bootstrap, in three builds of the same
  code, and Underscore. They are nearly all of the JavaScript in the tree (18 279 of
  18 723 lines) and hold nothing of the program's own logic.
* The beacon of `interact.js`, which only writes a line of text; formatting, templates, routing
  and logging; the pages that only read; the build tool; `cache_kyoto.go`, which is not built.
* Blacklists: each operation is sequential under one lock, and all that matters to the
  pipeline is whether an address or name matches, which is left open.
* The metadata engine: one pass at a time, in columns nothing else writes; and the queries
  only it uses (`HostSetOS`, `HostSetLocation`).
* Overlapping processes: a second instance of the program on the same files.

## 7. Plan

Done: all modules above. What would come next, in this order:

1. `Blacklist`: the list that orders itself by hits, as a permutation that answers like
   the set it holds; `Metadata`: the choice among equal candidates for the operating system.
2. The beacon, whose late answer may replace the line *Beacon is suspended*.
3. `performXfr` with its name servers one by one, and what becomes of a transfer that never ends.
