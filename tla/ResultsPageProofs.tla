-------------------------- MODULE ResultsPageProofs --------------------------
(***************************************************************************)
(* Proofs about the page by_port for every set of rows, ports and requests *)
(* under way, whatever the server, the user and the network do.            *)
(*                                                                         *)
(* Why no row comes twice is a matter of the requests under way: an answer *)
(* may hold a row if it does, or if it is still a question older than the  *)
(* row.  A row that is shown is not newer than updateStamp, so that no     *)
(* question asked from then on can bring it again (ShownStamped); a        *)
(* question asked before could, unless it was the only one (Single, Fresh).*)
(* Of every row the answers under way and the lines shown together are     *)
(* bounded (Bounded), which TypeOK needs.                                  *)
(***************************************************************************)
EXTENDS ResultsPage, FiniteSetTheorems, TLAPS

(* The requests under way whose answer may hold the row.                   *)
Pending(r) ==
  {i \in Slots : \/ /\ Holds(i, "since") /\ stamp[r] # Nil
                    /\ request[i].since < stamp[r]
                 \/ Holds(i, "rows") /\ r \in request[i].rows}

ShownStamped ==
  \A r \in Rows : shown[r] > 0 =>
    /\ stamp[r] # Nil
    /\ ~threw /\ page = "open" => stamp[r] <= updateStamp

Bounded ==
  \A r \in Rows :
    shown[r] + Cardinality(Pending(r)) <= Cardinality(Slots) + MaxShown

Single ==
  ~overlap => \A i, j \in Slots : AsksForRows(i) /\ AsksForRows(j) => i = j

Fresh ==
  ~overlap /\ ~threw =>
    \A r \in Rows : shown[r] > 0 => shown[r] = 1 /\ Pending(r) = {}

RowsInv == ShownStamped /\ Bounded /\ Single /\ Fresh
IInv == TypeOK /\ RowsInv

-----------------------------------------------------------------------------
(* The numbers.                                                            *)
LEMMA Numbers ==
  /\ MaxTime \in Nat /\ MaxShown \in Nat /\ MaxShown >= 1
  /\ MaxWorkers \in Nat /\ workerCnt \in 0 .. MaxWorkers
BY ResultsPageAssumption

LEMMA Times ==
  ASSUME TypeOK
  PROVE  /\ now \in Nat /\ now <= MaxTime
         /\ updateStamp \in Nat /\ updateStamp <= now
         /\ \A r \in Rows : stamp[r] # Nil => stamp[r] \in Nat /\ stamp[r] <= now
<1>1. now \in 0 .. MaxTime /\ updateStamp \in 0 .. now
  BY DEF TypeOK
<1>2. \A r \in Rows : stamp[r] \in (0 .. now) \cup {Nil}
  BY DEF TypeOK
<1> QED
  BY <1>1, <1>2, Numbers

(* A question holds a time, an answer holds rows or a number.              *)
LEMMA Kinds ==
  ASSUME TypeOK, NEW i \in Slots
  PROVE  /\ Holds(i, "since") => /\ request[i].since \in 0 .. MaxTime
                                 /\ request[i] = RowsSince(request[i].since)
         /\ Holds(i, "rows") => /\ request[i].rows \in SUBSET Rows
                                /\ request[i] = RowsFound(request[i].rows)
         /\ Holds(i, "cnt") => request[i].cnt \in 0 .. MaxWorkers
<1>1. request[i] \in Messages \cup {Nil}
  BY DEF TypeOK
<1>2. CASE request[i] = Nil
  BY <1>2 DEF Holds
<1>3. ASSUME NEW s \in 0 .. MaxTime, request[i] = RowsSince(s)
      PROVE  /\ request[i].since = s
             /\ ~Holds(i, "rows") /\ ~Holds(i, "cnt")
  BY <1>3 DEF Holds, RowsSince
<1>4. ASSUME NEW R \in SUBSET Rows, request[i] = RowsFound(R)
      PROVE  /\ request[i].rows = R
             /\ ~Holds(i, "since") /\ ~Holds(i, "cnt")
  BY <1>4 DEF Holds, RowsFound
<1>5. ASSUME request[i] \in {CountAsked, Order(1), Order(-1)}
      PROVE  ~Holds(i, "since") /\ ~Holds(i, "rows") /\ ~Holds(i, "cnt")
  BY <1>5 DEF Holds, CountAsked, Order
<1>6. ASSUME NEW n \in 0 .. MaxWorkers, request[i] = CountFound(n)
      PROVE  /\ request[i].cnt = n
             /\ ~Holds(i, "since") /\ ~Holds(i, "rows")
  BY <1>6 DEF Holds, CountFound
<1> QED
  BY <1>1, <1>2, <1>3, <1>4, <1>5, <1>6 DEF Messages

(* What the messages are made of.                                          *)
LEMMA Fields ==
  /\ \A s : DOMAIN RowsSince(s) = {"since"} /\ RowsSince(s).since = s
  /\ \A R : DOMAIN RowsFound(R) = {"rows"} /\ RowsFound(R).rows = R
  /\ \A n : DOMAIN CountFound(n) = {"cnt"}
  /\ \A d : DOMAIN Order(d) = {"order"} /\ Order(d).order = d
  /\ DOMAIN CountAsked = {"panel"}
BY DEF RowsSince, RowsFound, CountFound, Order, CountAsked

(* Nothing but a question or an answer about rows has to do with rows.     *)
LEMMA Quiet ==
  ASSUME NEW i \in Slots,
         \/ request'[i] \in {Nil, CountAsked, Order(1), Order(-1)}
         \/ \E n : request'[i] = CountFound(n)
  PROVE  ~AsksForRows(i)'
BY Fields DEF AsksForRows, Holds

LEMMA PartOfSlots ==
  ASSUME NEW S \in SUBSET Slots
  PROVE  /\ IsFiniteSet(S)
         /\ Cardinality(S) \in Nat /\ Cardinality(Slots) \in Nat
         /\ Cardinality(S) <= Cardinality(Slots)
BY FS_Subset, FS_CardinalityType, ResultsPageAssumption

LEMMA PendingInSlots ==
  ASSUME NEW r
  PROVE  /\ Pending(r) \in SUBSET Slots /\ Pending(r)' \in SUBSET Slots
         /\ Cardinality(Pending(r)) \in Nat
         /\ Cardinality(Pending(r)') \in Nat
<1>1. Pending(r) \in SUBSET Slots /\ Pending(r)' \in SUBSET Slots
  BY DEF Pending
<1> QED
  BY <1>1, PartOfSlots

(* The bound of a row stays when nothing is shown and no request becomes   *)
(* pending.                                                                *)
LEMMA FewerPending ==
  ASSUME NEW r \in Rows, Pending(r)' \subseteq Pending(r)
  PROVE  Cardinality(Pending(r)') <= Cardinality(Pending(r))
BY PendingInSlots, PartOfSlots, FS_Subset

-----------------------------------------------------------------------------
(* Time does not run backwards, and no row is taken from the table or      *)
(* stamped again.                                                          *)
LEMMA Growth ==
  ASSUME TypeOK, [Next]_vars
  PROVE  /\ now <= now' /\ now' \in 0 .. MaxTime
         /\ table \subseteq table'
<1> USE DEF server, tables, history, setting
<1>1. CASE Tick
  <2>1. now < MaxTime /\ now' = now + 1 /\ table' = table
    BY <1>1 DEF Tick
  <2> QED
    BY <2>1, Times, Numbers
<1>2. CASE UNCHANGED now /\ table \subseteq table'
  BY <1>2, Times, Numbers
<1>3. Tick \/ (UNCHANGED now /\ table \subseteq table')
  BY DEF Next, Tick, Render, Load, updateToggle, ScanEnds, PortAdd,
         handlePortsRecent, handleWorkerCount, handleOrder, Answer,
         update_results, loadWorkerCount, workerSpawn, workerStop, Send,
         RowsArrive, AppendRows, CountArrives, Fail, vars
<1> QED
  BY <1>1, <1>2, <1>3

(* Every message is one that page and server exchange, a question holds a  *)
(* time that has been, an answer holds rows of the table.                  *)
RequestOK ==
  /\ request \in [Slots -> Messages \cup {Nil}]
  /\ \A i \in Slots : /\ Holds(i, "since") => request[i].since <= now
                      /\ Holds(i, "rows") => request[i].rows \subseteq table

LEMMA RequestStep ==
  ASSUME TypeOK, [Next]_vars
  PROVE  RequestOK'
<1> USE DEF server, tables, history, setting
<1>0. /\ now <= now' /\ table \subseteq table'
      /\ now \in Int /\ now' \in Int /\ updateStamp \in 0 .. now
      /\ now \in 0 .. MaxTime
  BY Growth, Times, Numbers
<1>1. CASE UNCHANGED request
  <2> SUFFICES ASSUME NEW i \in Slots
               PROVE  /\ Holds(i, "since") => request[i].since <= now'
                      /\ Holds(i, "rows") => request[i].rows \subseteq table'
    BY <1>1 DEF RequestOK, TypeOK, Holds
  <2>1. Holds(i, "since") => request[i].since \in Int
    BY Kinds, Numbers
  <2>2. /\ Holds(i, "since") => request[i].since <= now
        /\ Holds(i, "rows") => request[i].rows \subseteq table
    BY DEF TypeOK
  <2> QED
    BY <1>0, <2>1, <2>2
<1>2. CASE request' = NoRequest
  BY <1>2 DEF RequestOK, NoRequest, Holds
<1>3. ASSUME NEW i \in Slots, NEW q \in Messages \cup {Nil},
             request' = [request EXCEPT ![i] = q],
             q # Nil /\ "since" \in DOMAIN q => q.since \in Int /\ q.since <= now,
             q # Nil /\ "rows" \in DOMAIN q => q.rows \subseteq table
      PROVE  RequestOK'
  <2>1. request' \in [Slots -> Messages \cup {Nil}]
    BY <1>3 DEF TypeOK
  <2>2. ASSUME NEW j \in Slots
        PROVE  /\ Holds(j, "since")' => request'[j].since <= now'
               /\ Holds(j, "rows")' => request'[j].rows \subseteq table'
    <3>1. CASE j = i
      <4>1. request'[j] = q
        BY <1>3, <3>1 DEF TypeOK
      <4> QED
        BY <1>0, <1>3, <4>1 DEF Holds
    <3>2. CASE j # i
      <4>1. request'[j] = request[j]
        BY <1>3, <3>2 DEF TypeOK
      <4>2. Holds(j, "since") => request[j].since \in Int
        BY Kinds, Numbers
      <4>3. /\ Holds(j, "since") => request[j].since <= now
            /\ Holds(j, "rows") => request[j].rows \subseteq table
        BY DEF TypeOK
      <4> QED
        BY <1>0, <4>1, <4>2, <4>3 DEF Holds
    <3> QED
      BY <3>1, <3>2
  <2> QED
    BY <2>1, <2>2 DEF RequestOK
<1>4. ASSUME NEW i \in Slots,
             NEW q \in {Nil, CountAsked, Order(1), Order(-1)}
                       \cup {CountFound(n) : n \in 0 .. MaxWorkers},
             request' = [request EXCEPT ![i] = q]
      PROVE  RequestOK'
  <2>1. q \in Messages \cup {Nil}
    BY <1>4 DEF Messages
  <2>2. q = Nil \/ ("since" \notin DOMAIN q /\ "rows" \notin DOMAIN q)
    BY <1>4, Fields
  <2> QED
    BY <1>3, <1>4, <2>1, <2>2
<1>5. ASSUME NEW i \in Slots, update_results(i) PROVE RequestOK'
  <2>1. request' = [request EXCEPT ![i] = RowsSince(updateStamp)]
    BY <1>5 DEF update_results, Send
  <2>2. RowsSince(updateStamp) \in Messages
    BY <1>0, ResultsPageAssumption DEF Messages
  <2>3. /\ "rows" \notin DOMAIN RowsSince(updateStamp)
        /\ RowsSince(updateStamp).since = updateStamp
    BY Fields
  <2>4. updateStamp \in Int /\ updateStamp <= now
    BY <1>0
  <2> QED
    BY <1>3, <2>1, <2>2, <2>3, <2>4
<1>6. ASSUME NEW i \in Slots, handlePortsRecent(i) PROVE RequestOK'
  <2> DEFINE R == PortGetRecent(request[i].since)
  <2>1. request' = [request EXCEPT ![i] = RowsFound(R)]
    BY <1>6 DEF handlePortsRecent, Answer
  <2>2. R \subseteq table /\ R \in SUBSET Rows
    BY DEF PortGetRecent, TypeOK
  <2>3. RowsFound(R) \in Messages
    BY <2>2 DEF Messages
  <2>4. "since" \notin DOMAIN RowsFound(R) /\ RowsFound(R).rows = R
    BY Fields
  <2> HIDE DEF R
  <2> QED
    BY <1>3, <2>1, <2>2, <2>3, <2>4
<1>7. ASSUME NEW i \in Slots, handleOrder(i) PROVE RequestOK'
  <2>1. PICK q \in {Nil} \cup {CountFound(n) : n \in 0 .. MaxWorkers} :
          request' = [request EXCEPT ![i] = q]
    BY <1>7 DEF handleOrder, Answer, TypeOK
  <2> QED
    BY <1>4, <2>1
<1>8. ASSUME NEW i \in Slots, handleWorkerCount(i) PROVE RequestOK'
  BY <1>4, <1>8 DEF handleWorkerCount, Answer, TypeOK
<1>9. ASSUME NEW i \in Slots,
             loadWorkerCount(i) \/ workerSpawn(i) \/ workerStop(i)
      PROVE  RequestOK'
  BY <1>4, <1>9 DEF loadWorkerCount, workerSpawn, workerStop, Send
<1>10. ASSUME NEW i \in Slots, RowsArrive(i) \/ CountArrives(i) \/ Fail(i)
       PROVE  RequestOK'
  BY <1>4, <1>10 DEF RowsArrive, AppendRows, CountArrives, Fail, Close
<1>11. ASSUME NEW r \in Rows, ScanEnds(r) \/ PortAdd(r) PROVE RequestOK'
  BY <1>1, <1>11 DEF ScanEnds, PortAdd
<1>12. CASE Tick \/ Load \/ updateToggle \/ UNCHANGED vars
  BY <1>1, <1>12 DEF Tick, Load, updateToggle, vars
<1>13. CASE Render
  BY <1>2, <1>13 DEF Render
<1> QED
  BY <1>5, <1>6, <1>7, <1>8, <1>9, <1>10, <1>11, <1>12, <1>13 DEF Next

-----------------------------------------------------------------------------
(* Nothing changes for the rows while no request for rows is sent or       *)
(* answered: a request that comes, goes or is replaced has to do with      *)
(* workers, or is given up.                                                *)
LEMMA Untouched ==
  ASSUME IInv,
         UNCHANGED <<stamp, page, shown, updateStamp, overlap, threw>>,
         \A i \in Slots : request'[i] = request[i] \/ ~AsksForRows(i)'
  PROVE  RowsInv'
<1>1. ASSUME NEW r \in Rows PROVE Pending(r)' \subseteq Pending(r)
  BY DEF Pending, AsksForRows, Holds
<1>2. ASSUME NEW i \in Slots, AsksForRows(i)' PROVE AsksForRows(i)
  BY <1>2 DEF AsksForRows, Holds
<1>3. ShownStamped'
  BY DEF IInv, RowsInv, ShownStamped
<1>4. Bounded'
  <2> SUFFICES ASSUME NEW r \in Rows
               PROVE  shown[r] + Cardinality(Pending(r)')
                        <= Cardinality(Slots) + MaxShown
    BY DEF Bounded
  <2>1. Cardinality(Pending(r)') <= Cardinality(Pending(r))
    BY <1>1, FewerPending
  <2>2. shown[r] + Cardinality(Pending(r)) <= Cardinality(Slots) + MaxShown
    BY DEF IInv, RowsInv, Bounded
  <2>3. /\ shown[r] \in Int /\ Cardinality(Slots) \in Int /\ MaxShown \in Int
        /\ Cardinality(Pending(r)) \in Int /\ Cardinality(Pending(r)') \in Int
    BY PendingInSlots, PartOfSlots, Numbers DEF IInv, TypeOK
  <2> QED
    BY <2>1, <2>2, <2>3
<1>5. Single'
  BY <1>2 DEF IInv, RowsInv, Single
<1>6. Fresh'
  BY <1>1 DEF IInv, RowsInv, Fresh
<1> QED
  BY <1>3, <1>4, <1>5, <1>6 DEF RowsInv

(* A row whose scan has not ended is not shown.                            *)
LEMMA ScanEndsStep ==
  ASSUME IInv, NEW x \in Rows, ScanEnds(x)
  PROVE  RowsInv'
<1> USE DEF server, tables, history, setting
<1>1. /\ stamp[x] = Nil /\ stamp' = [stamp EXCEPT ![x] = now]
      /\ UNCHANGED <<page, shown, updateStamp, request, overlap, threw>>
  BY DEF ScanEnds
<1>2. shown[x] = 0
  BY <1>1, PartOfSlots, Numbers DEF IInv, RowsInv, ShownStamped, TypeOK
<1>3. ASSUME NEW r \in Rows, r # x
      PROVE  stamp'[r] = stamp[r] /\ Pending(r)' = Pending(r)
  <2>1. stamp'[r] = stamp[r]
    BY <1>1, <1>3 DEF IInv, TypeOK
  <2> QED
    BY <1>1, <2>1 DEF Pending, Holds
<1>4. ShownStamped'
  BY <1>1, <1>2, <1>3 DEF IInv, RowsInv, ShownStamped
<1>5. Bounded'
  <2> SUFFICES ASSUME NEW r \in Rows
               PROVE  shown[r] + Cardinality(Pending(r)')
                        <= Cardinality(Slots) + MaxShown
    BY <1>1 DEF Bounded
  <2>1. CASE r = x
    <3>1. Cardinality(Pending(r)') <= Cardinality(Slots)
      BY PendingInSlots, PartOfSlots
    <3> QED
      BY <1>2, <2>1, <3>1, PendingInSlots, PartOfSlots, Numbers
  <2>2. CASE r # x
    BY <1>3, <2>2 DEF IInv, RowsInv, Bounded
  <2> QED
    BY <2>1, <2>2
<1>6. Single'
  BY <1>1 DEF IInv, RowsInv, Single, AsksForRows, Holds
<1>7. Fresh'
  BY <1>1, <1>2, <1>3 DEF IInv, RowsInv, Fresh
<1> QED
  BY <1>4, <1>5, <1>6, <1>7 DEF RowsInv

(* A new page shows the rows of the table once each and has asked nothing. *)
LEMMA RenderStep ==
  ASSUME IInv, Render
  PROVE  RowsInv'
<1> USE DEF server, tables, history, setting
<1>1. /\ page' = "rendered" /\ request' = NoRequest /\ UNCHANGED stamp
      /\ \A r \in Rows : shown'[r] = IF r \in table THEN 1 ELSE 0
  BY DEF Render
<1>2. \A i \in Slots : ~AsksForRows(i)'
  BY <1>1 DEF NoRequest, AsksForRows, Holds
<1>3. \A r \in Rows : Pending(r)' = {}
  BY <1>2 DEF Pending, AsksForRows
<1>4. ShownStamped'
  BY <1>1 DEF IInv, TypeOK, ShownStamped
<1>5. Bounded'
  <2> SUFFICES ASSUME NEW r \in Rows
               PROVE  shown'[r] + Cardinality(Pending(r)')
                        <= Cardinality(Slots) + MaxShown
    BY <1>1 DEF Bounded
  <2>1. Cardinality(Pending(r)') = 0
    BY <1>3, FS_EmptySet
  <2>2. shown'[r] \in {0, 1}
    BY <1>1
  <2> QED
    BY <2>1, <2>2, PartOfSlots, Numbers
<1>6. Single'
  BY <1>2 DEF Single
<1>7. Fresh'
  BY <1>1, <1>3 DEF Fresh
<1> QED
  BY <1>4, <1>5, <1>6, <1>7 DEF RowsInv

(* When the page opens, updateStamp is not older than any row.             *)
LEMMA LoadStep ==
  ASSUME IInv, Load
  PROVE  RowsInv'
<1> USE DEF server, tables, history, setting
<1>1. /\ updateStamp' = now
      /\ UNCHANGED <<stamp, shown, request, overlap, threw>>
  BY DEF Load
<1>2. \A r \in Rows : stamp[r] # Nil => stamp[r] <= now
  BY Times DEF IInv
<1>3. ShownStamped'
  BY <1>1, <1>2 DEF IInv, RowsInv, ShownStamped
<1>4. \A r \in Rows : Pending(r)' = Pending(r)
  BY <1>1 DEF Pending, Holds
<1>5. Bounded' /\ Single' /\ Fresh'
  BY <1>1, <1>4
     DEF IInv, RowsInv, Bounded, Single, Fresh, AsksForRows, Holds
<1> QED
  BY <1>3, <1>5 DEF RowsInv

(* A question sent now can bring back no row that is shown, unless an      *)
(* answer has thrown, and then it is sent only below MaxShown.             *)
LEMMA AskStep ==
  ASSUME IInv, NEW i \in Slots, update_results(i)
  PROVE  RowsInv'
<1> USE DEF server, tables, history, setting
<1>1. /\ page = "open" /\ request[i] = Nil
      /\ request' = [request EXCEPT ![i] = RowsSince(updateStamp)]
      /\ UNCHANGED <<stamp, page, shown, updateStamp, threw>>
      /\ threw => \A r \in Rows : shown[r] < MaxShown
      /\ overlap' = (overlap \/ \E j \in Slots : AsksForRows(j))
  BY DEF update_results, Send
<1>2. /\ request'[i] = RowsSince(updateStamp)
      /\ \A j \in Slots : j # i => request'[j] = request[j]
  BY <1>1 DEF IInv, TypeOK
<1>3. ~Holds(i, "rows")'
  BY <1>2, Fields DEF Holds
<1>4. ASSUME NEW r \in Rows
      PROVE  /\ Pending(r)' \subseteq Pending(r) \cup {i}
             /\ ~threw /\ shown[r] > 0 => i \notin Pending(r)'
  <2>1. Pending(r)' \subseteq Pending(r) \cup {i}
    BY <1>1, <1>2 DEF Pending, Holds
  <2>2. ASSUME ~threw, shown[r] > 0 PROVE i \notin Pending(r)'
    <3>1. stamp[r] # Nil /\ stamp[r] <= updateStamp
      BY <1>1, <2>2 DEF IInv, RowsInv, ShownStamped
    <3>2. request'[i].since = updateStamp
      BY <1>2, Fields
    <3>3. ~(request'[i].since < stamp'[r])
      BY <1>1, <3>1, <3>2, Times DEF IInv
    <3> QED
      BY <1>3, <3>3 DEF Pending
  <2> QED
    BY <2>1, <2>2
<1>5. ShownStamped'
  BY <1>1 DEF IInv, RowsInv, ShownStamped
<1>6. Bounded'
  <2> SUFFICES ASSUME NEW r \in Rows
               PROVE  shown[r] + Cardinality(Pending(r)')
                        <= Cardinality(Slots) + MaxShown
    BY <1>1 DEF Bounded
  <2>0. /\ shown[r] \in Nat /\ Cardinality(Slots) \in Nat /\ MaxShown \in Nat
        /\ Cardinality(Pending(r)) \in Nat /\ Cardinality(Pending(r)') \in Nat
        /\ Cardinality(Pending(r)') <= Cardinality(Slots)
    BY PendingInSlots, PartOfSlots, Numbers DEF IInv, TypeOK
  <2>1. CASE shown[r] < MaxShown
    BY <2>0, <2>1
  <2>2. CASE ~threw /\ shown[r] > 0
    <3>1. Cardinality(Pending(r)') <= Cardinality(Pending(r))
      BY <1>4, <2>2, FewerPending
    <3>2. shown[r] + Cardinality(Pending(r)) <= Cardinality(Slots) + MaxShown
      BY DEF IInv, RowsInv, Bounded
    <3> QED
      BY <2>0, <3>1, <3>2
  <2>3. shown[r] < MaxShown \/ (~threw /\ shown[r] > 0)
    BY <1>1, <2>0, Numbers DEF IInv, TypeOK
  <2> QED
    BY <2>1, <2>2, <2>3
<1>7. Single'
  <2> SUFFICES ASSUME ~overlap', NEW j \in Slots, AsksForRows(j)' PROVE j = i
    BY DEF Single
  <2> SUFFICES ASSUME j # i PROVE AsksForRows(j)
    BY <1>1
  <2> QED
    BY <1>2 DEF AsksForRows, Holds
<1>8. Fresh'
  BY <1>1, <1>4 DEF IInv, RowsInv, Fresh
<1> QED
  BY <1>5, <1>6, <1>7, <1>8 DEF RowsInv

(* An answer holds no row that its question did not ask for.               *)
LEMMA AnswerStep ==
  ASSUME IInv, NEW i \in Slots, handlePortsRecent(i)
  PROVE  RowsInv'
<1> DEFINE R == PortGetRecent(request[i].since)
<1>1. /\ Holds(i, "since")
      /\ request' = [request EXCEPT ![i] = RowsFound(R)]
      /\ UNCHANGED <<stamp, page, shown, updateStamp, overlap, threw>>
  BY DEF handlePortsRecent, Answer, server, tables, history, setting
<1>2. /\ request'[i] = RowsFound(R)
      /\ \A j \in Slots : j # i => request'[j] = request[j]
  BY <1>1 DEF IInv, TypeOK
<1>3. ~Holds(i, "since")' /\ request'[i].rows = R
  BY <1>2, Fields DEF Holds
<1>4. \A r \in R : stamp[r] # Nil /\ request[i].since < stamp[r]
  BY <1>1, Kinds, Times, Numbers DEF PortGetRecent, IInv, TypeOK
<1> HIDE DEF R
<1>5. ASSUME NEW r \in Rows PROVE Pending(r)' \subseteq Pending(r)
  BY <1>1, <1>2, <1>3, <1>4 DEF Pending, Holds
<1>6. ASSUME NEW j \in Slots, AsksForRows(j)' PROVE AsksForRows(j)
  BY <1>1, <1>2, <1>6 DEF AsksForRows, Holds
<1>7. ShownStamped'
  BY <1>1 DEF IInv, RowsInv, ShownStamped
<1>8. Bounded'
  <2> SUFFICES ASSUME NEW r \in Rows
               PROVE  shown[r] + Cardinality(Pending(r)')
                        <= Cardinality(Slots) + MaxShown
    BY <1>1 DEF Bounded
  <2>1. Cardinality(Pending(r)') <= Cardinality(Pending(r))
    BY <1>5, FewerPending
  <2>2. shown[r] + Cardinality(Pending(r)) <= Cardinality(Slots) + MaxShown
    BY DEF IInv, RowsInv, Bounded
  <2>3. /\ shown[r] \in Int /\ Cardinality(Slots) \in Int /\ MaxShown \in Int
        /\ Cardinality(Pending(r)) \in Int /\ Cardinality(Pending(r)') \in Int
    BY PendingInSlots, PartOfSlots, Numbers DEF IInv, TypeOK
  <2> QED
    BY <2>1, <2>2, <2>3
<1>9. Single'
  BY <1>1, <1>6 DEF IInv, RowsInv, Single
<1>10. Fresh'
  BY <1>1, <1>5 DEF IInv, RowsInv, Fresh
<1> QED
  BY <1>7, <1>8, <1>9, <1>10 DEF RowsInv

(* What an answer shows: rows it holds, all of them unless it throws.      *)
Appended(i) ==
  {r \in request[i].rows : \A p \in Unknown(i) : PortOf[r] < p}

(* The rows appended were pending in this answer and are no longer; if it  *)
(* does not throw, updateStamp is not older than any row shown.            *)
LEMMA ArriveStep ==
  ASSUME IInv, NEW i \in Slots, RowsArrive(i)
  PROVE  RowsInv'
<1> USE DEF server, tables, history, setting
<1> DEFINE R == Appended(i)
<1>1. /\ Holds(i, "rows") /\ request' = [request EXCEPT ![i] = Nil]
      /\ \A r \in Rows : shown'[r] = shown[r] + IF r \in R THEN 1 ELSE 0
      /\ UNCHANGED <<now, stamp, page, overlap>>
      /\ threw' = (threw \/ Unknown(i) # {})
      /\ Unknown(i) = {} => updateStamp' = now
      /\ Unknown(i) # {} => updateStamp' = updateStamp
  BY DEF RowsArrive, AppendRows, Close, Appended
<1>2. /\ request'[i] = Nil
      /\ \A j \in Slots : j # i => request'[j] = request[j]
  BY <1>1 DEF IInv, TypeOK
<1>3. /\ R \subseteq request[i].rows /\ R \subseteq Rows
      /\ \A r \in R : stamp[r] # Nil
  BY <1>1 DEF Appended, IInv, TypeOK
<1> HIDE DEF R
<1>4. \A r \in Rows : shown[r] \in Nat
  BY PartOfSlots, Numbers DEF IInv, TypeOK
<1>5. ASSUME NEW r \in Rows
      PROVE  /\ Pending(r)' = Pending(r) \ {i}
             /\ r \in R => i \in Pending(r) /\ shown'[r] = shown[r] + 1
             /\ r \notin R => shown'[r] = shown[r]
  <2>1. i \notin Pending(r)'
    BY <1>2 DEF Pending, Holds
  <2>2. \A j \in Slots \ {i} : j \in Pending(r)' <=> j \in Pending(r)
    BY <1>1, <1>2 DEF Pending, Holds
  <2>3. Pending(r)' = Pending(r) \ {i}
    BY <2>1, <2>2, PendingInSlots
  <2>4. r \in R => i \in Pending(r)
    BY <1>1, <1>3 DEF Pending
  <2> QED
    BY <1>1, <1>4, <2>3, <2>4
<1>6. ShownStamped'
  <2> SUFFICES ASSUME NEW r \in Rows, shown'[r] > 0
               PROVE  /\ stamp[r] # Nil
                      /\ ~threw' /\ page = "open" => stamp[r] <= updateStamp'
    BY <1>1 DEF ShownStamped
  <2>1. stamp[r] # Nil
    BY <1>3, <1>5 DEF IInv, RowsInv, ShownStamped
  <2>2. ~threw' => updateStamp' = now
    BY <1>1
  <2>3. stamp[r] <= now
    BY <2>1, Times DEF IInv
  <2> QED
    BY <2>1, <2>2, <2>3
<1>7. Bounded'
  <2> SUFFICES ASSUME NEW r \in Rows
               PROVE  shown'[r] + Cardinality(Pending(r)')
                        <= Cardinality(Slots) + MaxShown
    BY <1>1 DEF Bounded
  <2>0. /\ shown[r] \in Nat /\ Cardinality(Slots) \in Nat /\ MaxShown \in Nat
        /\ Cardinality(Pending(r)) \in Nat /\ Cardinality(Pending(r)') \in Nat
    BY <1>4, PendingInSlots, PartOfSlots, Numbers
  <2>1. shown[r] + Cardinality(Pending(r)) <= Cardinality(Slots) + MaxShown
    BY DEF IInv, RowsInv, Bounded
  <2>2. CASE r \in R
    <3>1. IsFiniteSet(Pending(r))
      BY PendingInSlots, PartOfSlots
    <3>2. Cardinality(Pending(r)') = Cardinality(Pending(r)) - 1
      BY <1>5, <2>2, <3>1, FS_RemoveElement
    <3>3. shown'[r] = shown[r] + 1
      BY <1>5, <2>2
    <3> QED
      BY <2>0, <2>1, <3>2, <3>3
  <2>3. CASE r \notin R
    <3>1. Cardinality(Pending(r)') <= Cardinality(Pending(r))
      BY <1>5, FewerPending
    <3>2. shown'[r] = shown[r]
      BY <1>5, <2>3
    <3> QED
      BY <2>0, <2>1, <3>1, <3>2
  <2> QED
    BY <2>2, <2>3
<1>8. Single'
  <2>1. ASSUME NEW j \in Slots, AsksForRows(j)' PROVE AsksForRows(j)
    BY <1>2, <2>1 DEF AsksForRows, Holds
  <2> QED
    BY <1>1, <2>1 DEF IInv, RowsInv, Single
<1>9. Fresh'
  <2> SUFFICES ASSUME ~overlap', ~threw', NEW r \in Rows, shown'[r] > 0
               PROVE  shown'[r] = 1 /\ Pending(r)' = {}
    BY DEF Fresh
  <2>1. ~overlap /\ ~threw
    BY <1>1
  <2>2. shown[r] > 0 => shown[r] = 1 /\ Pending(r) = {}
    BY <2>1 DEF IInv, RowsInv, Fresh
  <2>3. \A j \in Pending(r) : AsksForRows(j) /\ j \in Slots
    BY DEF Pending, AsksForRows
  <2>4. \A j \in Pending(r) : j = i
    BY <1>1, <2>1, <2>3 DEF IInv, RowsInv, Single, AsksForRows
  <2>5. CASE r \in R
    BY <1>4, <1>5, <2>2, <2>4, <2>5
  <2>6. CASE r \notin R
    BY <1>5, <2>2, <2>6
  <2> QED
    BY <2>5, <2>6
<1> QED
  BY <1>6, <1>7, <1>8, <1>9 DEF RowsInv

-----------------------------------------------------------------------------
LEMMA RowsStep ==
  ASSUME IInv, [Next]_vars
  PROVE  RowsInv'
<1> USE DEF server, tables, history, setting
<1>1. CASE Tick \/ updateToggle \/ UNCHANGED vars
  BY <1>1, Untouched DEF Tick, updateToggle, vars
<1>2. ASSUME NEW r \in Rows, PortAdd(r) PROVE RowsInv'
  BY <1>2, Untouched DEF PortAdd
<1>3. ASSUME NEW i \in Slots,
             NEW q \in {Nil, CountAsked, Order(1), Order(-1)}
                       \cup {CountFound(n) : n \in 0 .. MaxWorkers},
             request' = [request EXCEPT ![i] = q],
             UNCHANGED <<stamp, page, shown, updateStamp, overlap, threw>>
      PROVE  RowsInv'
  <2>1. ASSUME NEW j \in Slots PROVE request'[j] = request[j] \/ ~AsksForRows(j)'
    <3>1. CASE j = i
      <4>1. request'[j] = q
        BY <1>3, <3>1 DEF IInv, TypeOK
      <4> QED
        BY <1>3, <4>1, Quiet
    <3>2. CASE j # i
      BY <1>3, <3>2 DEF IInv, TypeOK
    <3> QED
      BY <3>1, <3>2
  <2> QED
    BY <1>3, <2>1, Untouched
<1>4. ASSUME NEW i \in Slots, handleOrder(i) PROVE RowsInv'
  <2>1. PICK q \in {Nil} \cup {CountFound(n) : n \in 0 .. MaxWorkers} :
          request' = [request EXCEPT ![i] = q]
    BY <1>4 DEF handleOrder, Answer, IInv, TypeOK
  <2> QED
    BY <1>3, <1>4, <2>1 DEF handleOrder, Answer
<1>5. ASSUME NEW i \in Slots, handleWorkerCount(i) PROVE RowsInv'
  <2>1. started \in 0 .. MaxWorkers
    BY DEF IInv, TypeOK
  <2> QED
    BY <1>3, <1>5, <2>1 DEF handleWorkerCount, Answer
<1>6. ASSUME NEW i \in Slots,
             loadWorkerCount(i) \/ workerSpawn(i) \/ workerStop(i)
      PROVE  RowsInv'
  BY <1>3, <1>6 DEF loadWorkerCount, workerSpawn, workerStop, Send
<1>7. ASSUME NEW i \in Slots, CountArrives(i) \/ Fail(i) PROVE RowsInv'
  BY <1>3, <1>7 DEF CountArrives, Fail, Close
<1>8. ASSUME NEW r \in Rows, ScanEnds(r) PROVE RowsInv'
  BY <1>8, ScanEndsStep
<1>9. CASE Render
  BY <1>9, RenderStep
<1>10. CASE Load
  BY <1>10, LoadStep
<1>11. ASSUME NEW i \in Slots, update_results(i) PROVE RowsInv'
  BY <1>11, AskStep
<1>12. ASSUME NEW i \in Slots, handlePortsRecent(i) PROVE RowsInv'
  BY <1>12, AnswerStep
<1>13. ASSUME NEW i \in Slots, RowsArrive(i) PROVE RowsInv'
  BY <1>13, ArriveStep
<1> QED
  BY <1>1, <1>2, <1>4, <1>5, <1>6, <1>7, <1>8, <1>9, <1>10, <1>11, <1>12,
     <1>13 DEF Next

(* What is on the page is typed: of the rows shown Bounded says how often. *)
LEMMA ShownTyped ==
  ASSUME IInv, [Next]_vars
  PROVE  shown' \in [Rows -> 0 .. Cardinality(Slots) + MaxShown]
<1> USE DEF server, tables, history, setting
<1>1. shown' \in [Rows -> Nat]
  <2>0. shown \in [Rows -> Nat]
    BY PartOfSlots, Numbers DEF IInv, TypeOK
  <2>1. CASE UNCHANGED shown
    BY <2>0, <2>1
  <2>2. CASE Render
    BY <2>2 DEF Render
  <2>3. ASSUME NEW i \in Slots, RowsArrive(i) PROVE shown' \in [Rows -> Nat]
    <3>1. PICK R : shown' = [r \in Rows |-> shown[r] + IF r \in R THEN 1 ELSE 0]
      BY <2>3 DEF RowsArrive, AppendRows
    <3> QED
      BY <2>0, <3>1
  <2>4. \/ UNCHANGED shown \/ Render
        \/ \E i \in Slots : RowsArrive(i)
    BY DEF Next, Tick, Load, updateToggle, ScanEnds, PortAdd,
           handlePortsRecent, handleWorkerCount, handleOrder, Answer,
           update_results, loadWorkerCount, workerSpawn, workerStop, Send,
           CountArrives, Fail, vars
  <2> QED
    BY <2>1, <2>2, <2>3, <2>4
<1>2. ASSUME NEW r \in Rows
      PROVE  shown'[r] <= Cardinality(Slots) + MaxShown
  <2>1. shown'[r] + Cardinality(Pending(r)') <= Cardinality(Slots) + MaxShown
    BY RowsStep DEF RowsInv, Bounded
  <2>2. /\ shown'[r] \in Nat /\ Cardinality(Pending(r)') \in Nat
        /\ Cardinality(Slots) \in Nat /\ MaxShown \in Nat
    BY <1>1, PendingInSlots, PartOfSlots, Numbers
  <2> QED
    BY <2>1, <2>2
<1> QED
  BY <1>1, <1>2, PartOfSlots, Numbers

LEMMA TypeStep ==
  ASSUME IInv, [Next]_vars
  PROVE  TypeOK'
<1> USE DEF server, tables, history, setting
<1>1. /\ now' \in 0 .. MaxTime
      /\ stamp' \in [Rows -> (0 .. now') \cup {Nil}]
      /\ table' \subseteq {r \in Rows : stamp'[r] # Nil}
  <2>0. /\ now \in Nat /\ now' \in Nat /\ now <= now'
        /\ stamp \in [Rows -> (0 .. now) \cup {Nil}]
        /\ table \subseteq {r \in Rows : stamp[r] # Nil}
    BY Times, Growth, Numbers DEF IInv, TypeOK
  <2>1. CASE UNCHANGED stamp /\ UNCHANGED table
    BY <2>0, <2>1, Growth DEF IInv
  <2>2. ASSUME NEW x \in Rows, ScanEnds(x)
        PROVE  /\ stamp' \in [Rows -> (0 .. now') \cup {Nil}]
               /\ table' \subseteq {r \in Rows : stamp'[r] # Nil}
    <3>1. /\ stamp[x] = Nil /\ stamp' = [stamp EXCEPT ![x] = now]
          /\ now' = now /\ table' = table
      BY <2>2 DEF ScanEnds
    <3>2. stamp' \in [Rows -> (0 .. now) \cup {Nil}]
      BY <2>0, <3>1
    <3>3. \A r \in table : r # x /\ stamp'[r] = stamp[r]
      BY <2>0, <3>1
    <3> QED
      BY <2>0, <3>1, <3>2, <3>3
  <2>3. ASSUME NEW x \in Rows, PortAdd(x)
        PROVE  /\ stamp' \in [Rows -> (0 .. now') \cup {Nil}]
               /\ table' \subseteq {r \in Rows : stamp'[r] # Nil}
    BY <2>0, <2>3 DEF PortAdd
  <2>4. \/ UNCHANGED <<stamp, table>>
        \/ \E x \in Rows : ScanEnds(x) \/ PortAdd(x)
    BY DEF Next, Tick, Render, Load, updateToggle,
           handlePortsRecent, handleWorkerCount, handleOrder, Answer,
           update_results, loadWorkerCount, workerSpawn, workerStop, Send,
           RowsArrive, AppendRows, CountArrives, Fail, vars
  <2> QED
    BY <2>1, <2>2, <2>3, <2>4, Growth DEF IInv
<1>2. started' \in 0 .. MaxWorkers /\ counter' \in 0 .. MaxWorkers
  <2>0. started \in 0 .. MaxWorkers /\ counter \in 0 .. MaxWorkers
    BY DEF IInv, TypeOK
  <2>1. started' \in 0 .. MaxWorkers
    BY <2>0 DEF Next, Tick, Render, Load, updateToggle, ScanEnds, PortAdd,
           handlePortsRecent, handleWorkerCount, handleOrder, Answer,
           update_results, loadWorkerCount, workerSpawn, workerStop, Send,
           RowsArrive, AppendRows, CountArrives, Fail, vars
  <2>2. ASSUME NEW i \in Slots, CountArrives(i)
        PROVE  counter' \in 0 .. MaxWorkers
    <3>1. Holds(i, "cnt") /\ counter' = request[i].cnt
      BY <2>2 DEF CountArrives
    <3>2. request[i].cnt \in 0 .. MaxWorkers
      BY <3>1, Kinds DEF IInv
    <3> QED
      BY <3>1, <3>2
  <2>3. CASE Render
    <3>1. counter' = workerCnt
      BY <2>3 DEF Render
    <3> QED
      BY <2>1, <3>1, Numbers
  <2>4. \/ UNCHANGED counter \/ Render
        \/ \E i \in Slots : CountArrives(i)
    BY DEF Next, Tick, Load, updateToggle, ScanEnds, PortAdd,
           handlePortsRecent, handleWorkerCount, handleOrder, Answer,
           update_results, loadWorkerCount, workerSpawn, workerStop, Send,
           RowsArrive, AppendRows, Fail, vars
  <2> QED
    BY <2>0, <2>1, <2>2, <2>3, <2>4
<1>3. /\ page' \in {"closed", "rendered", "open"}
      /\ bodies' \subseteq Range(PortOf)
  <2>1. \A r \in Rows : PortOf[r] \in Range(PortOf)
    BY ResultsPageAssumption DEF Range
  <2> QED
    BY <2>1 DEF Next, Tick, Render, Load, updateToggle, ScanEnds, PortAdd,
           handlePortsRecent, handleWorkerCount, handleOrder, Answer,
           update_results, loadWorkerCount, workerSpawn, workerStop, Send,
           RowsArrive, AppendRows, CountArrives, Fail, vars, IInv, TypeOK
<1>4. total' \in Nat
  <2>0. total \in Nat
    BY DEF IInv, TypeOK
  <2>1. ASSUME NEW i \in Slots, RowsArrive(i) PROVE total' \in Nat
    <3>1. request[i].rows \in SUBSET Rows
      BY <2>1, Kinds DEF RowsArrive, IInv
    <3>2. Cardinality(request[i].rows) \in Nat
      BY <3>1, FS_Subset, FS_CardinalityType, ResultsPageAssumption
    <3> QED
      BY <2>0, <2>1, <3>2 DEF RowsArrive
  <2>2. CASE Render
    <3>1. IsFiniteSet(table)
      BY FS_Subset, ResultsPageAssumption DEF IInv, TypeOK
    <3> QED
      BY <2>2, <3>1, FS_CardinalityType DEF Render
  <2>3. \/ UNCHANGED total \/ Render
        \/ \E i \in Slots : RowsArrive(i)
    BY DEF Next, Tick, Load, updateToggle, ScanEnds, PortAdd,
           handlePortsRecent, handleWorkerCount, handleOrder, Answer,
           update_results, loadWorkerCount, workerSpawn, workerStop, Send,
           CountArrives, Fail, vars
  <2> QED
    BY <2>0, <2>1, <2>2, <2>3
<1>5. updateStamp' \in 0 .. now'
  <2>1. updateStamp' \in {0, now, updateStamp}
    BY DEF Next, Tick, Render, Load, updateToggle, ScanEnds, PortAdd,
           handlePortsRecent, handleWorkerCount, handleOrder, Answer,
           update_results, loadWorkerCount, workerSpawn, workerStop, Send,
           RowsArrive, AppendRows, CountArrives, Fail, vars
  <2> QED
    BY <2>1, Times, Growth, Numbers DEF IInv
<1>6. active' \in BOOLEAN /\ stored' \in BOOLEAN \cup {Nil}
  BY DEF Next, Tick, Render, Load, updateToggle, ScanEnds, PortAdd,
         handlePortsRecent, handleWorkerCount, handleOrder, Answer,
         update_results, loadWorkerCount, workerSpawn, workerStop, Send,
         RowsArrive, AppendRows, CountArrives, Fail, vars, IInv, TypeOK
<1>7. overlap' \in BOOLEAN /\ threw' \in BOOLEAN
  BY DEF Next, Tick, Render, Load, updateToggle, ScanEnds, PortAdd,
         handlePortsRecent, handleWorkerCount, handleOrder, Answer,
         update_results, loadWorkerCount, workerSpawn, workerStop, Send,
         RowsArrive, AppendRows, CountArrives, Fail, vars, IInv, TypeOK
<1>8. RequestOK'
  BY RequestStep DEF IInv
<1> QED
  BY <1>1, <1>2, <1>3, <1>4, <1>5, <1>6, <1>7, <1>8, ShownTyped
     DEF TypeOK, RequestOK

-----------------------------------------------------------------------------
LEMMA LineOf ==
  ASSUME NEW l
  PROVE  /\ l \in Lines <=> \E r \in Rows : \E n \in 1 .. shown[r] : l = <<r, n>>
         /\ l \in Lines' <=> \E r \in Rows : \E n \in 1 .. shown'[r] : l = <<r, n>>
BY DEF Lines

LEMMA LinesFinite ==
  ASSUME TypeOK
  PROVE  IsFiniteSet(Lines)
<1> DEFINE B == Cardinality(Slots) + MaxShown
<1>1. B \in Nat /\ \A r \in Rows : shown[r] \in Nat /\ shown[r] <= B
  BY PartOfSlots, Numbers DEF TypeOK
<1> HIDE DEF B
<1>2. Lines \subseteq Rows \X (1 .. B)
  BY <1>1, LineOf
<1>3. IsFiniteSet(1 .. B)
  BY <1>1, FS_Interval
<1>4. IsFiniteSet(Rows \X (1 .. B))
  BY <1>3, FS_Product, ResultsPageAssumption
<1> QED
  BY <1>2, <1>4, FS_Subset

(* One more line for each of some rows: so many lines more.                *)
LEMMA LinesGrow ==
  ASSUME TypeOK, NEW R \in SUBSET Rows,
         \A r \in Rows : shown'[r] = shown[r] + IF r \in R THEN 1 ELSE 0
  PROVE  Cardinality(Lines') = Cardinality(Lines) + Cardinality(R)
<1> DEFINE New == {<<r, shown[r] + 1>> : r \in R}
           f == [r \in R |-> <<r, shown[r] + 1>>]
<1>0. \A r \in Rows : shown[r] \in Nat
  BY PartOfSlots, Numbers DEF TypeOK
<1>1. /\ \A r \in R : shown'[r] = shown[r] + 1
      /\ \A r \in Rows \ R : shown'[r] = shown[r]
  BY <1>0
<1>2. IsFiniteSet(R) /\ IsFiniteSet(Lines)
  BY LinesFinite, FS_Subset, ResultsPageAssumption
<1>3. f \in Bijection(R, New)
  <2>1. f \in [R -> New]
    OBVIOUS
  <2>2. \A r, s \in R : f[r] = f[s] => r = s
    OBVIOUS
  <2>3. \A l \in New : \E r \in R : f[r] = l
    OBVIOUS
  <2> HIDE DEF f, New
  <2> QED
    BY <2>1, <2>2, <2>3 DEF Bijection, Injection, Surjection,
                               IsInjective
<1>4. IsFiniteSet(New) /\ Cardinality(New) = Cardinality(R)
  BY <1>2, <1>3, FS_Bijection DEF ExistsBijection
<1>5. Lines' = Lines \cup New
  <2>1. ASSUME NEW l \in Lines' PROVE l \in Lines \cup New
    <3>1. PICK r \in Rows, n \in Int : n \in 1 .. shown'[r] /\ l = <<r, n>>
      BY LineOf
    <3>2. n \in 1 .. shown[r] \/ (r \in R /\ n = shown[r] + 1)
      BY <1>0, <1>1, <3>1
    <3> QED
      BY <3>1, <3>2, LineOf
  <2>2. ASSUME NEW l \in Lines PROVE l \in Lines'
    <3>1. PICK r \in Rows, n \in Int : n \in 1 .. shown[r] /\ l = <<r, n>>
      BY LineOf
    <3>2. n \in 1 .. shown'[r]
      BY <1>0, <1>1, <3>1
    <3> QED
      BY <3>1, <3>2, LineOf
  <2>3. ASSUME NEW r \in R PROVE <<r, shown[r] + 1>> \in Lines'
    <3>1. shown[r] + 1 \in 1 .. shown'[r]
      BY <1>0, <1>1
    <3> QED
      BY <3>1, LineOf
  <2> QED
    BY <2>1, <2>2, <2>3
<1>6. Lines \cap New = {}
  <2> SUFFICES ASSUME NEW r \in R, <<r, shown[r] + 1>> \in Lines PROVE FALSE
    OBVIOUS
  <2>1. PICK q \in Rows, n \in Int : n \in 1 .. shown[q] /\ <<r, shown[r] + 1>> = <<q, n>>
    BY LineOf
  <2>2. q = r /\ n = shown[r] + 1
    BY <2>1
  <2> QED
    BY <1>0, <2>1, <2>2
<1> HIDE DEF New, f
<1>7. Cardinality(Lines \cap New) = 0
  BY <1>6, FS_EmptySet
<1>8. Cardinality(Lines \cup New)
        = Cardinality(Lines) + Cardinality(New) - Cardinality(Lines \cap New)
  BY <1>2, <1>4, FS_Union
<1>9. Cardinality(Lines) \in Nat /\ Cardinality(R) \in Nat
  BY <1>2, FS_CardinalityType
<1> QED
  BY <1>4, <1>5, <1>7, <1>8, <1>9

(* A new page has one line for each row of the table.                      *)
LEMMA LinesRendered ==
  ASSUME TypeOK, \A r \in Rows : shown'[r] = IF r \in table THEN 1 ELSE 0
  PROVE  Cardinality(Lines') = Cardinality(table)
<1> DEFINE f == [r \in table |-> <<r, 1>>]
<1>1. table \subseteq Rows /\ IsFiniteSet(table)
  BY FS_Subset, ResultsPageAssumption DEF TypeOK
<1>2. Lines' = {<<r, 1>> : r \in table}
  <2>0. 1 .. 1 = {1} /\ 1 .. 0 = {}
    OBVIOUS
  <2>1. \A r \in Rows : 1 .. shown'[r] = IF r \in table THEN {1} ELSE {}
    BY <2>0
  <2>2. ASSUME NEW l \in Lines' PROVE l \in {<<r, 1>> : r \in table}
    BY <2>1, LineOf
  <2>3. ASSUME NEW r \in table PROVE <<r, 1>> \in Lines'
    BY <1>1, <2>1, LineOf
  <2> QED
    BY <2>2, <2>3
<1>3. f \in Bijection(table, Lines')
  <2>1. f \in [table -> Lines']
    BY <1>2
  <2>2. \A r, s \in table : f[r] = f[s] => r = s
    OBVIOUS
  <2>3. \A l \in Lines' : \E r \in table : f[r] = l
    BY <1>2
  <2> HIDE DEF f
  <2> QED
    BY <2>1, <2>2, <2>3 DEF Bijection, Injection, Surjection,
                               IsInjective
<1> QED
  BY <1>1, <1>3, FS_Bijection DEF ExistsBijection

LEMMA TotalStep ==
  ASSUME IInv, TotalAddsUp, [Next]_vars
  PROVE  TotalAddsUp'
<1> USE DEF server, tables, history, setting
<1>1. CASE UNCHANGED <<shown, total, threw>>
  BY <1>1 DEF TotalAddsUp, Lines
<1>2. CASE Render
  <2>1. Cardinality(Lines') = Cardinality(table)
    BY <1>2, LinesRendered DEF Render, IInv
  <2> QED
    BY <1>2, <2>1 DEF Render, TotalAddsUp
<1>3. ASSUME NEW i \in Slots, RowsArrive(i) PROVE TotalAddsUp'
  <2> DEFINE R == Appended(i)
  <2>1. /\ Holds(i, "rows")
        /\ \A r \in Rows : shown'[r] = shown[r] + IF r \in R THEN 1 ELSE 0
        /\ threw' = (threw \/ Unknown(i) # {})
    BY <1>3 DEF RowsArrive, AppendRows, Appended
  <2>2. R \in SUBSET Rows /\ (Unknown(i) = {} => R = request[i].rows)
    BY <2>1, Kinds DEF Appended, IInv
  <2> HIDE DEF R
  <2>3. Cardinality(Lines') = Cardinality(Lines) + Cardinality(R)
    BY <2>1, <2>2, LinesGrow DEF IInv
  <2>4. /\ Cardinality(R) \in Nat /\ Cardinality(Lines) \in Nat
        /\ total \in Nat
    BY <2>2, LinesFinite, FS_Subset, FS_CardinalityType, ResultsPageAssumption
       DEF IInv, TypeOK
  <2>5. CASE Unknown(i) = {}
    <3>1. total' = total + Cardinality(R) /\ threw' = threw
      BY <1>3, <2>1, <2>2, <2>5 DEF RowsArrive, IInv, TypeOK
    <3> QED
      BY <2>3, <2>4, <3>1 DEF TotalAddsUp
  <2>6. CASE Unknown(i) # {}
    <3>1. total' = total /\ threw'
      BY <1>3, <2>1, <2>6 DEF RowsArrive
    <3> QED
      BY <2>3, <2>4, <3>1 DEF TotalAddsUp
  <2> QED
    BY <2>5, <2>6
<1>4. \/ UNCHANGED <<shown, total, threw>> \/ Render
      \/ \E i \in Slots : RowsArrive(i)
  BY DEF Next, Tick, Load, updateToggle, ScanEnds, PortAdd,
         handlePortsRecent, handleWorkerCount, handleOrder, Answer,
         update_results, loadWorkerCount, workerSpawn, workerStop, Send,
         CountArrives, Fail, vars
<1> QED
  BY <1>1, <1>2, <1>3, <1>4

-----------------------------------------------------------------------------
LEMMA InitIInv == Init => IInv /\ TotalAddsUp
<1> SUFFICES ASSUME Init PROVE IInv /\ TotalAddsUp
  OBVIOUS
<1>1. \A i \in Slots : request[i] = Nil
  BY DEF Init, NoRequest
<1>2. \A r \in Rows : Pending(r) = {} /\ shown[r] = 0
  BY <1>1 DEF Init, Pending, Holds
<1>3. RowsInv
  <2>1. Bounded
    BY <1>2, FS_EmptySet, PartOfSlots, Numbers DEF Bounded
  <2> QED
    BY <1>1, <1>2, <2>1
       DEF RowsInv, ShownStamped, Single, Fresh, AsksForRows, Holds
<1>4. TypeOK
  <2>1. shown \in [Rows -> 0 .. Cardinality(Slots) + MaxShown]
    BY PartOfSlots, Numbers DEF Init
  <2>2. /\ now \in 0 .. MaxTime /\ updateStamp \in 0 .. now /\ total \in Nat
        /\ started \in 0 .. MaxWorkers /\ counter \in 0 .. MaxWorkers
    BY Numbers DEF Init
  <2>3. stamp \in [Rows -> (0 .. now) \cup {Nil}]
    BY DEF Init
  <2>4. table \subseteq {r \in Rows : stamp[r] # Nil}
    BY ResultsPageAssumption DEF Init
  <2> QED
    BY <1>1, <2>1, <2>2, <2>3, <2>4 DEF Init, TypeOK, NoRequest, Holds
<1>5. TotalAddsUp
  <2>1. Lines = {}
    BY <1>2, LineOf
  <2> QED
    BY <2>1, FS_EmptySet DEF Init, TotalAddsUp
<1> QED
  BY <1>3, <1>4, <1>5 DEF IInv

(* The variables of page and server keep their types, and of every row the *)
(* requests under way and the lines on the page are what IInv says.        *)
THEOREM Invariance == Spec => [](IInv /\ TotalAddsUp)
<1>1. IInv /\ TotalAddsUp /\ [Next]_vars => (IInv /\ TotalAddsUp)'
  BY TypeStep, RowsStep, TotalStep DEF IInv
<1> QED
  BY <1>1, InitIInv, PTL DEF Spec

(* The types, with them that an answer holds rows of the table and that a  *)
(* row is not shown more often than requests and MaxShown allow.           *)
THEOREM Typing == Spec => []TypeOK
BY Invariance, PTL DEF IInv

(* While no two requests for rows were under way at once and no answer has *)
(* thrown, no row is on the page twice (update.js:13, update.js:47).       *)
THEOREM Once == Spec => []OnceEach
<1>1. IInv => OnceEach
  <2> SUFFICES ASSUME IInv, ~overlap, ~threw, NEW r \in Rows
               PROVE  shown[r] <= 1
    BY DEF OnceEach
  <2>1. shown[r] \in Nat
    BY PartOfSlots, Numbers DEF IInv, TypeOK
  <2>2. shown[r] > 0 => shown[r] = 1
    BY DEF IInv, RowsInv, Fresh
  <2> QED
    BY <2>1, <2>2
<1> QED
  BY <1>1, Invariance, PTL

(* The total is the number of lines on the page until an answer throws,    *)
(* and never more (update.js:49).                                          *)
THEOREM Totals == Spec => []TotalAddsUp
BY Invariance, PTL
=============================================================================
