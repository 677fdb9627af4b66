----------------------------- MODULE ResultsPage -----------------------------
(***************************************************************************)
(* The page by_port of the web server in one browser: rendered from the    *)
(* rows there are (frontend/web.go, templates/by_port.tmpl), kept up to    *)
(* date by update_results (static/update.js), which asks again and again   *)
(* for the rows newer than updateStamp (handlePortsRecent in               *)
(* frontend/ajax.go, PortGetRecent in database/database.go), and with a    *)
(* control panel that shows the number of scanner workers                  *)
(* (static/controlpanel.js).  Whether it asks for rows is a setting that   *)
(* outlives the page (static/settings.js).                                 *)
(*                                                                         *)
(* A row gets its time stamp, in seconds, when its scan ends, and is in    *)
(* the table some time later.  Browser and server have the same clock.     *)
(* Only rows with a reply are considered: the others are never shown.      *)
(* What the server does with an order to spawn or to stop a worker is      *)
(* module ControlPanel's; here it takes effect at once.                    *)
(***************************************************************************)
EXTENDS Integers, FiniteSets, Functions

CONSTANTS
  Rows,        \* the rows there will ever be
  Old,         \* those that are in the table at the beginning
  PortOf,      \* per row: its port
  Slots,       \* bound: the requests under way at a time
  MaxTime,     \* bound: the last second
  MaxShown,    \* bound: an answer that has thrown comes again this often
  MaxWorkers,  \* bound: the greatest number of workers
  workerCnt,   \* the number of workers the scanner is configured with
  Nil

(* What is under way between the page and the server.                      *)
RowsSince(s) == [since |-> s]
RowsFound(R) == [rows |-> R]
CountAsked   == [panel |-> "count"]
Order(d)     == [order |-> d]
CountFound(n) == [cnt |-> n]

Messages == {RowsSince(s) : s \in 0 .. MaxTime}
            \cup {RowsFound(R) : R \in SUBSET Rows}
            \cup {CountAsked, Order(1), Order(-1)}
            \cup {CountFound(n) : n \in 0 .. MaxWorkers}

ASSUME ResultsPageAssumption ==
  /\ IsFiniteSet(Rows) /\ IsFiniteSet(Slots) /\ Old \subseteq Rows
  /\ PortOf \in [Rows -> Nat]
  /\ MaxTime \in Nat /\ MaxShown \in Nat \ {0}
  /\ MaxWorkers \in Nat /\ workerCnt \in 0 .. MaxWorkers
  /\ Nil \notin Nat /\ Nil \notin Messages

VARIABLES
  now,          \* the clock
  stamp,        \* per row: when its scan ended, or Nil
  table,        \* the rows in the table
  started,      \* the workers of the scanner
  page,         \* closed, rendered (the script has not run yet), open
  shown,        \* per row: how often it is on the page
  bodies,       \* the ports that have a table on the page
  total,        \* the number at the end of the table of contents
  counter,      \* the number of workers on the page
  updateStamp,
  request,      \* per slot: the request or its answer, or Nil
  active,       \* settings.update.active
  stored,       \* the same in localStorage, or Nil
  overlap,      \* history: two requests for rows have been under way at once
  threw         \* history: an answer has ended in an exception

server  == <<now, stamp, table, started>>
tables  == <<shown, bodies, total, updateStamp>>
history == <<overlap, threw>>
setting == <<active, stored>>
vars    == <<server, page, tables, counter, request, setting, history>>

Holds(i, field) == request[i] # Nil /\ field \in DOMAIN request[i]
AsksForRows(i)  == Holds(i, "since") \/ Holds(i, "rows")

(* A row has its time stamp before it is in the table, the clock is never  *)
(* behind a stamp, an answer holds rows of the table, and only after a     *)
(* throw may a row be shown more often than there can be requests.         *)
TypeOK ==
  /\ now \in 0 .. MaxTime
  /\ stamp \in [Rows -> (0 .. now) \cup {Nil}]
  /\ table \subseteq {r \in Rows : stamp[r] # Nil}
  /\ started \in 0 .. MaxWorkers /\ counter \in 0 .. MaxWorkers
  /\ page \in {"closed", "rendered", "open"}
  /\ shown \in [Rows -> 0 .. Cardinality(Slots) + MaxShown]
  /\ bodies \subseteq Range(PortOf)
  /\ total \in Nat /\ updateStamp \in 0 .. now
  /\ request \in [Slots -> Messages \cup {Nil}]
  /\ \A i \in Slots : /\ Holds(i, "since") => request[i].since <= now
                      /\ Holds(i, "rows") => request[i].rows \subseteq table
  /\ active \in BOOLEAN /\ stored \in BOOLEAN \cup {Nil}
  /\ overlap \in BOOLEAN /\ threw \in BOOLEAN

NoRequest == [i \in Slots |-> Nil]

Init ==
  /\ now = 0 /\ table = Old
  /\ stamp = [r \in Rows |-> IF r \in Old THEN 0 ELSE Nil]
  /\ started = workerCnt
  /\ page = "closed" /\ shown = [r \in Rows |-> 0] /\ bodies = {}
  /\ total = 0 /\ counter = 0 /\ updateStamp = 0 /\ request = NoRequest
  /\ active = TRUE /\ stored = Nil
  /\ overlap = FALSE /\ threw = FALSE

-----------------------------------------------------------------------------
(* The server's side.                                                      *)
Tick ==
  /\ now < MaxTime /\ now' = now + 1
  /\ UNCHANGED <<stamp, table, started, page, tables, counter, request,
                 setting, history>>

ScanEnds(r) ==
  /\ stamp[r] = Nil
  /\ stamp' = [stamp EXCEPT ![r] = now]
  /\ UNCHANGED <<now, table, started, page, tables, counter, request,
                 setting, history>>

PortAdd(r) ==
  /\ stamp[r] # Nil /\ r \notin table
  /\ table' = table \cup {r}
  /\ UNCHANGED <<now, stamp, started, page, tables, counter, request,
                 setting, history>>

PortGetRecent(s) == {r \in table : stamp[r] > s}

Answer(i, a) ==
  /\ request' = [request EXCEPT ![i] = a]
  /\ UNCHANGED <<now, stamp, table, page, tables, counter, setting, history>>

handlePortsRecent(i) ==
  /\ Holds(i, "since")
  /\ Answer(i, RowsFound(PortGetRecent(request[i].since)))
  /\ UNCHANGED started

handleWorkerCount(i) ==
  /\ request[i] = CountAsked
  /\ Answer(i, CountFound(started))
  /\ UNCHANGED started

(* handleWorkerSpawn and handleWorkerStop.  The number answered is that    *)
(* before or after the order has been carried out.  To stop more workers   *)
(* than there are is refused, with a message; to spawn more than           *)
(* MaxWorkers is not modelled.                                             *)
handleOrder(i) ==
  /\ request[i] \in {Order(1), Order(-1)}
  /\ LET n == started + request[i].order IN
       \/ /\ n \in 0 .. MaxWorkers /\ started' = n
          /\ \E m \in {started, n} : Answer(i, CountFound(m))
       \/ /\ n \notin 0 .. MaxWorkers /\ UNCHANGED started
          /\ Answer(i, Nil)

-----------------------------------------------------------------------------
(* The page is asked for, again or for the first time; the server renders  *)
(* the rows there are, each port with a table of its own.  The number of   *)
(* workers is the one the scanner is configured with.                      *)
Render ==
  /\ page' = "rendered"
  /\ shown' = [r \in Rows |-> IF r \in table THEN 1 ELSE 0]
  /\ bodies' = {PortOf[r] : r \in table}
  /\ total' = Cardinality(table)
  /\ counter' = workerCnt
  /\ request' = NoRequest /\ updateStamp' = 0
  /\ overlap' = FALSE /\ threw' = FALSE
  /\ UNCHANGED <<server, setting>>

(* Then its scripts run.  initSettings takes a setting that was never      *)
(* saved for FALSE.                                                        *)
Load ==
  /\ page = "rendered" /\ page' = "open"
  /\ updateStamp' = now
  /\ active' = (stored = TRUE)
  /\ UNCHANGED <<server, shown, bodies, total, counter, request, stored,
                 history>>

updateToggle ==
  /\ page = "open"
  /\ active' = ~active /\ stored' = ~active
  /\ UNCHANGED <<server, page, tables, counter, request, history>>

Send(i, q) ==
  /\ page = "open" /\ request[i] = Nil
  /\ request' = [request EXCEPT ![i] = q]
  /\ UNCHANGED <<server, page, tables, counter, setting, threw>>

(* The timer fires whether or not the last request has been answered.      *)
update_results(i) ==
  /\ active
  /\ threw => \A r \in Rows : shown[r] < MaxShown
  /\ Send(i, RowsSince(updateStamp))
  /\ overlap' = (overlap \/ \E j \in Slots : AsksForRows(j))

loadWorkerCount(i) == Send(i, CountAsked) /\ UNCHANGED overlap

workerSpawn(i) == Send(i, Order(1)) /\ UNCHANGED overlap
workerStop(i)  == Send(i, Order(-1)) /\ UNCHANGED overlap

Close(i) == request' = [request EXCEPT ![i] = Nil]

(* The ports of an answer that have no table on the page.                  *)
Unknown(i) == {PortOf[r] : r \in request[i].rows} \ bodies

(* The callback goes through the ports of the answer in ascending order    *)
(* and appends their rows; at the first port without a table it throws.    *)
AppendRows(i) ==
  LET R == {r \in request[i].rows :
              \A p \in Unknown(i) : PortOf[r] < p} IN
    /\ Close(i)
    /\ shown' = [r \in Rows |-> shown[r] + IF r \in R THEN 1 ELSE 0]
    /\ threw' = (threw \/ Unknown(i) # {})
    /\ UNCHANGED <<server, page, bodies, counter, setting, overlap>>

(* Mutant: updateStamp is not set.                                         *)
RowsArriveUnstamped(i) ==
  /\ Holds(i, "rows") /\ AppendRows(i)
  /\ total' = total + IF Unknown(i) = {} THEN Cardinality(request[i].rows) ELSE 0
  /\ UNCHANGED updateStamp

(* Mutant: the total is set to the number of rows in the answer.           *)
RowsArriveAfresh(i) ==
  /\ Holds(i, "rows") /\ AppendRows(i)
  /\ IF Unknown(i) = {}
     THEN total' = Cardinality(request[i].rows) /\ updateStamp' = now
     ELSE UNCHANGED <<total, updateStamp>>

(* After a throw the total and updateStamp stay what they were.            *)
RowsArrive(i) ==
  /\ Holds(i, "rows") /\ AppendRows(i)
  /\ IF Unknown(i) = {}
     THEN /\ total' = total + Cardinality(request[i].rows)
          /\ updateStamp' = now
     ELSE UNCHANGED <<total, updateStamp>>

(* Mutant: an answer does not replace a greater number.                    *)
CountArrivesLarger(i) ==
  /\ Holds(i, "cnt") /\ Close(i)
  /\ counter' = IF request[i].cnt > counter THEN request[i].cnt ELSE counter
  /\ UNCHANGED <<server, page, tables, setting, history>>

(* The answers to all three requests of the panel replace the number.      *)
CountArrives(i) ==
  /\ Holds(i, "cnt") /\ Close(i)
  /\ counter' = request[i].cnt
  /\ UNCHANGED <<server, page, tables, setting, history>>

(* Mutant: updateStamp is set whatever comes of the request.               *)
FailStamped(i) ==
  /\ Holds(i, "rows") \/ Holds(i, "cnt")
  /\ Close(i) /\ updateStamp' = now
  /\ UNCHANGED <<server, page, shown, bodies, total, counter, setting, history>>

(* A request fails, or its answer reports an error: a message appears.     *)
(* (One that does not reach the server is as good as not sent.)            *)
Fail(i) ==
  /\ Holds(i, "rows") \/ Holds(i, "cnt")
  /\ Close(i)
  /\ UNCHANGED <<server, page, tables, counter, setting, history>>

Next ==
  \/ Tick \/ Render \/ Load \/ updateToggle
  \/ \E r \in Rows : ScanEnds(r) \/ PortAdd(r)
  \/ \E i \in Slots :
       \/ handlePortsRecent(i) \/ handleWorkerCount(i) \/ handleOrder(i)
       \/ update_results(i) \/ loadWorkerCount(i)
       \/ workerSpawn(i) \/ workerStop(i)
       \/ RowsArrive(i) \/ CountArrives(i) \/ Fail(i)

Spec == Init /\ [][Next]_vars

(* Both timers are set again whatever happens (a slot they may have to     *)
(* wait for is the model's), and of the answers not all get lost.          *)
(* Nothing makes time pass, scans end or a user act.                       *)
FairSpec ==
  /\ Spec
  /\ WF_vars(Load)
  /\ SF_vars(\E i \in Slots : update_results(i))
  /\ SF_vars(\E i \in Slots : loadWorkerCount(i))
  /\ WF_vars(\E i \in Slots : handlePortsRecent(i))
  /\ WF_vars(\E i \in Slots : handleWorkerCount(i))
  /\ WF_vars(\E i \in Slots : handleOrder(i))
  /\ SF_vars(\E i \in Slots : RowsArrive(i))
  /\ SF_vars(\E i \in Slots : CountArrives(i))

-----------------------------------------------------------------------------
(* While no two requests for rows were under way at once and no answer has *)
(* thrown, no row is on the page twice: what is asked for after an answer  *)
(* has been shown is newer than all that is shown (update.js:13,           *)
(* update.js:47).                                                          *)
OnceEach == ~overlap /\ ~threw => \A r \in Rows : shown[r] <= 1

(* The lines of the tables on the page.                                    *)
Lines == UNION {{r} \X (1 .. shown[r]) : r \in Rows}

(* The total at the end of the table of contents is the number of lines on *)
(* the page; it falls behind only after an answer has thrown (update.js:49 *)
(* is not reached).                                                        *)
TotalAddsUp ==
  IF threw THEN total <= Cardinality(Lines) ELSE total = Cardinality(Lines)

(* A row that is in the table while the page waits for no rows, and newer  *)
(* than updateStamp, comes onto the page, even if requests fail and the    *)
(* page is loaded again, unless an answer throws or the user turns the     *)
(* refresh off.                                                            *)
NewRowsAppear ==
  \A r \in Rows :
    (/\ page = "open" /\ r \in table /\ stamp[r] > updateStamp
     /\ \A i \in Slots : ~AsksForRows(i))
    ~> (shown[r] > 0 \/ threw \/ ~active)

(* Once the number of workers stays what it is and the page stays open,    *)
(* the panel comes to show it and then keeps it, though it starts with the *)
(* number configured and answers may arrive out of order.                  *)
CounterSettles ==
  \A n \in 0 .. MaxWorkers :
    <>[](page = "open" /\ started = n) => <>[](counter = n)
=============================================================================
