---------------------------- MODULE HostDBProofs ----------------------------
(***************************************************************************)
(* Proofs about the host table and its cache, for every number of callers  *)
(* and addresses and every choice of faults.                               *)
(*                                                                         *)
(* What a caller is told when HostAdd returns is true only if the row is   *)
(* still in its transaction then (CallsHold), two callers add different    *)
(* rows only because one of them alone may write (OneWriter), and the      *)
(* tables are there only because openLock is held until they are           *)
(* (Creation).  IInv is all of these and the invariants they serve.  That  *)
(* no database with rows is removed needs more: nobody creates one that    *)
(* has tables, and nobody writes into one that has none (Made).            *)
(***************************************************************************)
EXTENDS HostDB, TLAPS

CallsHold ==
  \A c \in Callers :
    /\ pc[c] \in {"query", "insert", "commit"} => addr[c] \in Addrs
    /\ pc[c] = "commit" => addr[c] \in pending[c]

OneWriter == \A c \in Callers : pending[c] # {} => writer = c

Creation ==
  /\ \A c \in Callers : pc[c] = "creating" => opener = c
  /\ file = "bare" /\ opener = Nil => botched

IInv == /\ TypeOK /\ CallsHold /\ OneWriter /\ Creation
        /\ Truthful /\ InsertedOnce /\ TablesThere

(* Nobody creates a database that has tables, and nobody writes into one   *)
(* that has none.                                                          *)
Made ==
  /\ \A c \in Callers :
       /\ pc[c] = "creating" => file = "bare"
       /\ pc[c] \in {"insert", "commit"} \/ pending[c] # {} => file = "ready"
  /\ table # {} => file = "ready"

(* What both ways for a transaction to end do to its rows.                 *)
Ends(c) == EndWriting(c) /\ (CommitRows(c) \/ LoseRows(c))

-----------------------------------------------------------------------------
LEMMA TypeStep ==
  ASSUME TypeOK, CallsHold, [Next]_vars
  PROVE  TypeOK'
<1> USE DEF TypeOK, store, history
<1>1. ASSUME NEW c \in Callers, Open(c) PROVE TypeOK'
  BY <1>1 DEF Open
<1>2. ASSUME NEW c \in Callers, Create(c) PROVE TypeOK'
  BY <1>2 DEF Create
<1>3. ASSUME ProcessEnds, table' = table, botched' \in BOOLEAN,
             file' \in {"absent", "bare", "ready"}
      PROVE  TypeOK'
  BY <1>3 DEF ProcessEnds, AllClosed, NoAddr, NoTx, NoRows
<1>4. ASSUME NEW c \in Callers, NEW a \in Addrs, Lookup(c, a) PROVE TypeOK'
  BY <1>4 DEF Lookup
<1>5. ASSUME NEW c \in Callers, Query(c) PROVE TypeOK'
  BY <1>5 DEF Query, Return
<1>6. ASSUME NEW c \in Callers, Insert(c) PROVE TypeOK'
  BY <1>6 DEF Insert, InsertFails, Return, CallsHold
<1>7. ASSUME NEW c \in Callers, Ends(c) PROVE
        /\ table' \subseteq Addrs /\ lost' \subseteq Addrs
        /\ pending' \in [Callers -> SUBSET Addrs]
        /\ writer' \in Callers \cup {Nil}
  BY <1>7 DEF Ends, EndWriting, CommitRows, LoseRows
<1>8. ASSUME NEW c \in Callers, Finish(c) PROVE TypeOK'
  <2>1. addr[c] \in Addrs
    BY <1>8 DEF Finish, CallsHold
  <2> QED
    BY <1>7, <1>8, <2>1 DEF Finish, Return, Ends
<1>9. ASSUME NEW c \in Callers, Begin(c) PROVE TypeOK'
  BY <1>9 DEF Begin
<1>10. ASSUME NEW c \in Callers, Commit(c) \/ Rollback(c) PROVE TypeOK'
  BY <1>7, <1>10 DEF Commit, Rollback, Ends
<1>11. ASSUME NEW a \in Addrs, Expire(a) PROVE TypeOK'
  BY <1>11 DEF Expire
<1>12. ASSUME NEW c \in Callers, CreateFails(c) PROVE TypeOK'
  BY <1>3, <1>12 DEF CreateFails
<1>13. CASE Crash
  BY <1>3, <1>13 DEF Crash
<1>14. CASE UNCHANGED vars
  BY <1>14 DEF vars
<1> QED
  BY <1>1, <1>2, <1>4, <1>5, <1>6, <1>8, <1>9, <1>10, <1>11, <1>12, <1>13, <1>14
     DEF Next, Call

-----------------------------------------------------------------------------
(* Nobody is in a call, and no transaction has rows, when the process has  *)
(* just been started.                                                      *)
LEMMA AfterEnd ==
  ASSUME ProcessEnds
  PROVE  CallsHold' /\ OneWriter' /\ InsertedOnce'
         /\ \A c \in Callers : pc'[c] = "closed" /\ pending'[c] = {}
BY DEF ProcessEnds, AllClosed, NoRows, CallsHold, OneWriter, InsertedOnce

LEMMA CallsStep ==
  ASSUME TypeOK, CallsHold, [Next]_vars
  PROVE  CallsHold'
<1> USE DEF TypeOK, CallsHold
<1>1. ASSUME NEW c \in Callers, Open(c) \/ Create(c) PROVE CallsHold'
  BY <1>1 DEF Open, Create
<1>2. ASSUME NEW c \in Callers, NEW a \in Addrs, Lookup(c, a) PROVE CallsHold'
  BY <1>2 DEF Lookup
<1>3. ASSUME NEW c \in Callers, Query(c) PROVE CallsHold'
  BY <1>3 DEF Query, Return
<1>4. ASSUME NEW c \in Callers, Insert(c) PROVE CallsHold'
  BY <1>4 DEF Insert, InsertFails, Return
<1>5. ASSUME NEW c \in Callers, Finish(c) PROVE CallsHold'
  BY <1>5 DEF Finish, Return, EndWriting
<1>6. ASSUME NEW c \in Callers, Begin(c) \/ Commit(c) \/ Rollback(c)
      PROVE  CallsHold'
  BY <1>6 DEF Begin, Commit, Rollback, EndWriting
<1>7. ASSUME NEW a \in Addrs, Expire(a) PROVE CallsHold'
  BY <1>7 DEF Expire
<1>8. ASSUME ProcessEnds PROVE CallsHold'
  BY <1>8, AfterEnd
<1>9. CASE UNCHANGED vars
  BY <1>9 DEF vars
<1> QED
  BY <1>1, <1>2, <1>3, <1>4, <1>5, <1>6, <1>7, <1>8, <1>9
     DEF Next, Call, CreateFails, Crash

-----------------------------------------------------------------------------
(* Only who has the write lock, or finds it free, adds a row.              *)
LEMMA WriterStep ==
  ASSUME TypeOK, OneWriter, [Next]_vars
  PROVE  OneWriter'
<1> USE DEF TypeOK, OneWriter
<1>1. ASSUME pending' = pending, writer' = writer PROVE OneWriter'
  BY <1>1
<1>2. ASSUME NEW c \in Callers, Insert(c) PROVE OneWriter'
  <2>1. CASE pc'[c] = "commit" /\ writer' = c /\ writer \in {Nil, c}
    BY <1>2, <2>1, HostDBAssumption DEF Insert, InsertFails
  <2>2. CASE InsertFails(c)
    BY <1>2, <2>2, HostDBAssumption DEF Insert, InsertFails
  <2> QED
    BY <1>2, <2>1, <2>2 DEF Insert
<1>3. ASSUME NEW c \in Callers, EndWriting(c) PROVE OneWriter'
  BY <1>3, HostDBAssumption DEF EndWriting
<1>4. ASSUME NEW c \in Callers, Finish(c) \/ Commit(c) \/ Rollback(c)
      PROVE  OneWriter'
  BY <1>1, <1>3, <1>4 DEF Finish, Commit, Rollback
<1>5. ASSUME ProcessEnds PROVE OneWriter'
  BY <1>5, AfterEnd
<1>6. ASSUME NEW c \in Callers, Open(c) \/ Create(c) \/ Query(c) \/ Begin(c)
      PROVE  OneWriter'
  BY <1>1, <1>6 DEF Open, Create, Query, Begin
<1>7. ASSUME NEW c \in Callers, NEW a \in Addrs, Lookup(c, a)
      PROVE  OneWriter'
  BY <1>1, <1>7 DEF Lookup
<1>8. ASSUME NEW a \in Addrs, Expire(a) PROVE OneWriter'
  BY <1>1, <1>8 DEF Expire
<1>9. CASE UNCHANGED vars
  BY <1>1, <1>9 DEF vars
<1> QED
  BY <1>2, <1>4, <1>5, <1>6, <1>7, <1>8, <1>9 DEF Next, Call, CreateFails, Crash

LEMMA OnceStep ==
  ASSUME TypeOK, OneWriter, InsertedOnce, [Next]_vars
  PROVE  InsertedOnce'
<1> USE DEF TypeOK, InsertedOnce
<1>1. ASSUME pending' = pending, table' = table PROVE InsertedOnce'
  BY <1>1
<1>2. ASSUME NEW c \in Callers, Insert(c) PROVE InsertedOnce'
  <2>1. CASE pending' = pending
    BY <1>1, <1>2, <2>1 DEF Insert, store
  <2>2. CASE /\ addr[c] \notin table \cup pending[c]
             /\ pending' = [pending EXCEPT ![c] = @ \cup {addr[c]}]
             /\ writer \in {Nil, c}
    <3>1. \A d \in Callers \ {c} : pending[d] = {}
      BY <2>2, HostDBAssumption DEF OneWriter
    <3> QED
      BY <1>2, <2>2, <3>1 DEF Insert, store
  <2> QED
    BY <1>2, <2>1, <2>2 DEF Insert, InsertFails
<1>3. ASSUME NEW c \in Callers, Ends(c) PROVE InsertedOnce'
  BY <1>3 DEF Ends, EndWriting, CommitRows, LoseRows
<1>4. ASSUME NEW c \in Callers, Finish(c) \/ Commit(c) \/ Rollback(c)
      PROVE  InsertedOnce'
  BY <1>1, <1>3, <1>4 DEF Finish, Commit, Rollback, Ends
<1>5. ASSUME ProcessEnds PROVE InsertedOnce'
  BY <1>5, AfterEnd
<1>6. ASSUME NEW c \in Callers, Open(c) \/ Create(c) \/ Query(c) \/ Begin(c)
      PROVE  InsertedOnce'
  BY <1>1, <1>6 DEF Open, Create, Query, Begin, store
<1>7. ASSUME NEW c \in Callers, NEW a \in Addrs, Lookup(c, a)
      PROVE  InsertedOnce'
  BY <1>1, <1>7 DEF Lookup, store
<1>8. ASSUME NEW a \in Addrs, Expire(a) PROVE InsertedOnce'
  BY <1>1, <1>8 DEF Expire, store
<1>9. CASE UNCHANGED vars
  BY <1>1, <1>9 DEF vars, store
<1> QED
  BY <1>2, <1>4, <1>5, <1>6, <1>7, <1>8, <1>9 DEF Next, Call, CreateFails, Crash

-----------------------------------------------------------------------------
(* Rows only leave a transaction for the table or for lost.                *)
LEMMA TruthStep ==
  ASSUME TypeOK, CallsHold, Truthful, [Next]_vars
  PROVE  Truthful'
<1> DEFINE Known == table \cup Pending \cup lost
<1> USE DEF TypeOK, store, history
<1>1. ASSUME Known \subseteq Known',
             cache' \cup answered' \subseteq cache \cup answered \cup Known'
      PROVE  Truthful'
  BY <1>1 DEF Truthful
<1>2. ASSUME NEW c \in Callers, NEW a \in Addrs, Lookup(c, a) PROVE Truthful'
  BY <1>2 DEF Lookup, Truthful, Pending
<1>3. ASSUME NEW c \in Callers, Query(c) PROVE Truthful'
  BY <1>3 DEF Query, Truthful, Pending
<1>4. ASSUME NEW c \in Callers, Insert(c) PROVE Truthful'
  <2>1. \A d \in Callers : pending[d] \subseteq pending'[d]
    BY <1>4 DEF Insert, InsertFails
  <2>2. cache' \subseteq cache \cup pending'[c]
    BY <1>4 DEF Insert, InsertFails
  <2>3. table' = table /\ lost' = lost /\ answered' = answered
    BY <1>4 DEF Insert, InsertFails
  <2> QED
    BY <1>1, <2>1, <2>2, <2>3 DEF Pending
<1>5. ASSUME NEW c \in Callers, Ends(c) PROVE Known \subseteq Known'
  <2>1. \A d \in Callers \ {c} : pending'[d] = pending[d]
    BY <1>5 DEF Ends, EndWriting
  <2>2. /\ table \cup pending[c] \subseteq table' \cup lost'
        /\ lost \subseteq table' \cup lost'
    BY <1>5 DEF Ends, CommitRows, LoseRows
  <2> QED
    BY <2>1, <2>2 DEF Pending
<1>6. ASSUME NEW c \in Callers, Finish(c) PROVE Truthful'
  <2>1. addr[c] \in Known
    BY <1>6 DEF Finish, CallsHold, Pending
  <2>2. Known \subseteq Known'
    BY <1>5, <1>6 DEF Finish, Ends, Pending
  <2>3. cache' = cache /\ answered' = answered \cup {addr[c]}
    BY <1>6 DEF Finish
  <2> QED
    BY <1>1, <2>1, <2>2, <2>3
<1>7. ASSUME NEW c \in Callers, Commit(c) \/ Rollback(c) PROVE Truthful'
  <2>1. Ends(c) /\ cache' = cache /\ answered' = answered
    BY <1>7 DEF Commit, Rollback, Ends
  <2> QED
    BY <1>1, <1>5, <2>1
<1>8. ASSUME ProcessEnds PROVE Truthful'
  BY <1>8 DEF ProcessEnds, Truthful
<1>9. ASSUME NEW c \in Callers, Open(c) \/ Create(c) \/ Begin(c)
      PROVE  Truthful'
  BY <1>9 DEF Open, Create, Begin, Truthful, Pending
<1>10. ASSUME NEW a \in Addrs, Expire(a) PROVE Truthful'
  BY <1>10 DEF Expire, Truthful, Pending
<1>11. CASE UNCHANGED vars
  BY <1>11 DEF vars, Truthful, Pending
<1> QED
  BY <1>2, <1>3, <1>4, <1>6, <1>7, <1>8, <1>9, <1>10, <1>11
     DEF Next, Call, CreateFails, Crash

-----------------------------------------------------------------------------
LEMMA TablesStep ==
  ASSUME TypeOK, Creation, TablesThere, [Next]_vars
  PROVE  Creation' /\ TablesThere'
<1> USE DEF TypeOK, Creation, TablesThere, store, history
<1>1. ASSUME UNCHANGED <<file, opener, botched>>,
             \A c \in Callers : /\ pc'[c] = "creating" => pc[c] = "creating"
                                /\ pc[c] \in {"closed", "creating"} => pc'[c] = pc[c]
      PROVE  Creation' /\ TablesThere'
  BY <1>1
<1>2. ASSUME NEW c \in Callers, Open(c) PROVE Creation' /\ TablesThere'
  BY <1>2, HostDBAssumption DEF Open
<1>3. ASSUME NEW c \in Callers, Create(c) PROVE Creation' /\ TablesThere'
  <2>1. opener = c /\ opener' = Nil
    BY <1>3 DEF Create
  <2>2. \A d \in Callers : pc'[d] # "creating"
    BY <1>3, <2>1 DEF Create
  <2>3. file' = "ready" \/ botched'
    BY <1>3 DEF Create
  <2> QED
    BY <2>2, <2>3
<1>4. ASSUME ProcessEnds, file' = "bare" => botched'
      PROVE  Creation' /\ TablesThere'
  BY <1>4 DEF ProcessEnds, AllClosed
<1>5. ASSUME NEW c \in Callers, CreateFails(c) PROVE Creation' /\ TablesThere'
  BY <1>4, <1>5 DEF CreateFails
<1>6. CASE Crash
  BY <1>4, <1>6 DEF Crash
<1>7. ASSUME NEW c \in Callers, NEW a \in Addrs, Lookup(c, a)
      PROVE  Creation' /\ TablesThere'
  BY <1>1, <1>7 DEF Lookup
<1>8. ASSUME NEW c \in Callers, Query(c) \/ Insert(c)
      PROVE  Creation' /\ TablesThere'
  BY <1>1, <1>8 DEF Query, Insert, InsertFails, Return
<1>9. ASSUME NEW c \in Callers, Finish(c) PROVE Creation' /\ TablesThere'
  BY <1>1, <1>9 DEF Finish, Return
<1>10. ASSUME NEW c \in Callers, Begin(c) \/ Commit(c) \/ Rollback(c)
       PROVE  Creation' /\ TablesThere'
  BY <1>1, <1>10 DEF Begin, Commit, Rollback, LoseRows
<1>11. ASSUME NEW a \in Addrs, Expire(a) PROVE Creation' /\ TablesThere'
  BY <1>1, <1>11 DEF Expire
<1>12. CASE UNCHANGED vars
  BY <1>1, <1>12 DEF vars
<1> QED
  BY <1>2, <1>3, <1>5, <1>6, <1>7, <1>8, <1>9, <1>10, <1>11, <1>12 DEF Next, Call

-----------------------------------------------------------------------------
LEMMA AtFirst == Init => IInv
<1> SUFFICES ASSUME Init PROVE IInv
  OBVIOUS
<1>1. \A c \in Callers : pc[c] = "closed" /\ pending[c] = {}
  BY DEF Init, AllClosed, NoRows
<1>2. TypeOK
  BY DEF Init, TypeOK, AllClosed, NoAddr, NoTx, NoRows
<1>3. CallsHold /\ OneWriter /\ Creation
  BY <1>1 DEF Init, CallsHold, OneWriter, Creation
<1>4. Truthful /\ InsertedOnce /\ TablesThere
  BY <1>1 DEF Init, Truthful, InsertedOnce, TablesThere
<1> QED
  BY <1>2, <1>3, <1>4 DEF IInv

(* All parts of IInv hold in every state of the database.                  *)
THEOREM Invariance == Spec => []IInv
<1>1. Init => IInv
  BY AtFirst
<1>2. IInv /\ [Next]_vars => IInv'
  BY TypeStep, CallsStep, WriterStep, OnceStep, TruthStep, TablesStep DEF IInv
<1> QED
  BY <1>1, <1>2, PTL DEF Spec

(* The variables keep their types.                                         *)
THEOREM Typing == Spec => []TypeOK
BY Invariance, PTL DEF IInv

(* What the cache and the callers were told of an address is true of the   *)
(* table, of an open transaction, or of rows that were rolled back         *)
(* (database.go:321, :324).                                                *)
THEOREM Truth == Spec => []Truthful
BY Invariance, PTL DEF IInv

(* Although HostExists and HostAdd are two statements, no address is       *)
(* inserted twice (database.go:286, xfr.go:356, guang.go:122).             *)
THEOREM Uniqueness == Spec => []InsertedOnce
BY Invariance, PTL DEF IInv

(* Whoever has the database open finds its tables, unless its creation was *)
(* hit by a kill or a failed commit (database.go:89).                      *)
THEOREM Tables == Spec => []TablesThere
BY Invariance, PTL DEF IInv

-----------------------------------------------------------------------------
LEMMA MadeStep ==
  ASSUME TypeOK, Creation, Made, [Next]_vars
  PROVE  Made'
<1> USE DEF TypeOK, Made, store, history
<1>1. ASSUME UNCHANGED file, table' # {} => file = "ready",
             \A c \in Callers :
               /\ pc'[c] = "creating" => pc[c] = "creating"
               /\ pc'[c] \in {"insert", "commit"} \/ pending'[c] # {}
                    => file = "ready"
      PROVE  Made'
  BY <1>1
<1>2. ASSUME NEW c \in Callers, Open(c) PROVE Made'
  <2>1. \A d \in Callers : pc[d] # "creating"
    BY <1>2, HostDBAssumption DEF Open, Creation
  <2> QED
    BY <1>2, <2>1 DEF Open
<1>3. ASSUME NEW c \in Callers, Create(c) PROVE Made'
  <2>1. \A d \in Callers : pc'[d] # "creating"
    BY <1>3 DEF Create, Creation
  <2> QED
    BY <1>3, <2>1 DEF Create
<1>4. ASSUME ProcessEnds, table' = table, table # {} => file' = "ready" PROVE Made'
  BY <1>4, AfterEnd
<1>5. ASSUME NEW c \in Callers, CreateFails(c) PROVE Made'
  BY <1>4, <1>5 DEF CreateFails
<1>6. CASE Crash
  BY <1>4, <1>6 DEF Crash
<1>7. ASSUME NEW c \in Callers, NEW a \in Addrs, Lookup(c, a) PROVE Made'
  BY <1>1, <1>7 DEF Lookup
<1>8. ASSUME NEW c \in Callers, Query(c) PROVE Made'
  BY <1>1, <1>8 DEF Query, Return
<1>9. ASSUME NEW c \in Callers, Insert(c) PROVE Made'
  BY <1>1, <1>9 DEF Insert, InsertFails, Return
<1>10. ASSUME NEW c \in Callers, Ends(c)
       PROVE  /\ table' # {} => file = "ready"
              /\ \A d \in Callers : pending'[d] # {} => file = "ready"
  BY <1>10 DEF Ends, EndWriting, CommitRows, LoseRows
<1>11. ASSUME NEW c \in Callers, Finish(c) PROVE Made'
  <2>1. \A d \in Callers :
          /\ pc'[d] = "creating" => pc[d] = "creating"
          /\ pc'[d] \in {"insert", "commit"} => pc[d] \in {"insert", "commit"}
    BY <1>11 DEF Finish, Return
  <2>2. /\ table' # {} => file = "ready"
        /\ \A d \in Callers : pending'[d] # {} => file = "ready"
    BY <1>10, <1>11 DEF Finish, Ends
  <2> QED
    BY <1>1, <1>11, <2>1, <2>2 DEF Finish
<1>12. ASSUME NEW c \in Callers, Commit(c) \/ Rollback(c) PROVE Made'
  BY <1>1, <1>10, <1>12 DEF Commit, Rollback, Ends
<1>13. ASSUME NEW c \in Callers, Begin(c) PROVE Made'
  BY <1>1, <1>13 DEF Begin
<1>14. ASSUME NEW a \in Addrs, Expire(a) PROVE Made'
  BY <1>1, <1>14 DEF Expire
<1>15. CASE UNCHANGED vars
  BY <1>1, <1>15 DEF vars
<1> QED
  BY <1>2, <1>3, <1>5, <1>6, <1>7, <1>8, <1>9, <1>11, <1>12, <1>13, <1>14, <1>15
     DEF Next, Call

(* A file with tables stays, and the table changes by whole transactions.  *)
LEMMA KeptStep ==
  ASSUME TypeOK, Made, Made', [Next]_vars
  PROVE  KeepsTable
<1>1. file = "ready" => file' = "ready"
  BY DEF Next, vars, store, Open, Create, CreateFails, Call, Lookup, Query,
         Insert, Finish, Begin, Commit, Rollback, Expire, Crash, Made
<1>2. ASSUME table' # table
      PROVE  \E c \in Callers : Ends(c) /\ CommitRows(c) /\ tx'[c] = "none"
  <2>1. PICK c \in Callers : Finish(c) \/ Commit(c)
    BY <1>2 DEF Next, vars, store, Open, Create, CreateFails, Call, Lookup,
                Query, Insert, Begin, Rollback, LoseRows, Expire, Crash
  <2>2. CASE Finish(c)
    BY <1>2, <2>2 DEF Finish, LoseRows, Ends
  <2>3. CASE Commit(c)
    BY <1>2, <2>3 DEF Commit, LoseRows, Ends, TypeOK
  <2> QED
    BY <2>1, <2>2, <2>3
<1>3. ASSUME NEW c \in Callers, Ends(c), CommitRows(c)
      PROVE  table' = table \cup pending[c] /\ pending'[c] = {}
  BY <1>3 DEF Ends, EndWriting, CommitRows, TypeOK
<1> QED
  BY <1>1, <1>2, <1>3 DEF Made, KeepsTable

LEMMA MadeAlways == Spec => [](IInv /\ Made)
<1>1. Init => IInv /\ Made
  BY AtFirst DEF Init, AllClosed, NoRows, Made
<1>2. IInv /\ Made /\ [Next]_vars => IInv' /\ Made'
  BY TypeStep, CallsStep, WriterStep, OnceStep, TruthStep, TablesStep, MadeStep
     DEF IInv
<1> QED
  BY <1>1, <1>2, PTL DEF Spec

(* A failed creation never removes a database that was made, and the rows  *)
(* of a transaction come into the table together or not at all, and stay   *)
(* (database.go:95, :189, :220).                                           *)
THEOREM Kept == Spec => TableKept
<1>1. ASSUME IInv /\ Made, [Next]_vars
      PROVE  [KeepsTable]_vars
  BY <1>1, MadeStep, KeptStep DEF IInv
<1> QED
  BY <1>1, MadeAlways, PTL DEF Spec, TableKept
=============================================================================
