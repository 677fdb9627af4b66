------------------------------- MODULE HostDB -------------------------------
(***************************************************************************)
(* The host table of database/database.go and the cache of addresses in    *)
(* front of it.  Each caller is a goroutine with a HostDB of its own on    *)
(* the same file; it opens it, and then asks HostExists of an address and, *)
(* when the answer is no, calls HostAdd, as the goroutine that stores      *)
(* generated hosts (guang.go) and the XFR workers (xfr/xfr.go) do.  Some   *)
(* callers also group their calls with Begin, Commit and Rollback, as the  *)
(* tests of the package do.                                                *)
(*                                                                         *)
(* SQLite in WAL mode: a statement sees the rows that are committed and    *)
(* those of its own transaction; one transaction at a time may write, and  *)
(* the others are told that the database is busy and try again.            *)
(***************************************************************************)
EXTENDS Naturals, FiniteSets

CONSTANTS
  Callers,    \* the goroutines with a HostDB
  Grouping,   \* those that use explicit transactions
  Addrs,      \* the addresses they come across
  Faults,     \* a subset of {"db", "commit", "crash"}
  Nil

ASSUME HostDBAssumption ==
  /\ Grouping \subseteq Callers
  /\ Faults \subseteq {"db", "commit", "crash"}
  /\ Nil \notin Callers \cup Addrs

VARIABLES
  file,       \* absent, bare (it exists, without tables), ready
  opener,     \* who holds openLock while it creates the database
  table,      \* the addresses in the committed table
  writer,     \* who has SQLite's write lock
  cache,      \* hostCache, which the whole process shares
  pc,         \* per caller: closed, creating, idle, query, insert, commit
  addr,       \* per caller: the address its call is about
  tx,         \* per caller: none, open, or done (over, but still set)
  pending,    \* per caller: the rows its transaction has added
  answered,   \* history: addresses this process was told are stored
  lost,       \* history: those whose rows were rolled back afterwards
  botched     \* history: a fault hit the creation of the database

store   == <<file, table>>
history == <<answered, lost, botched>>
vars    == <<store, opener, writer, cache, pc, addr, tx, pending, history>>

TypeOK ==
  /\ file \in {"absent", "bare", "ready"}
  /\ opener \in Callers \cup {Nil} /\ writer \in Callers \cup {Nil}
  /\ table \subseteq Addrs /\ cache \subseteq Addrs
  /\ pc \in [Callers -> {"closed", "creating", "idle", "query", "insert", "commit"}]
  /\ addr \in [Callers -> Addrs \cup {Nil}]
  /\ tx \in [Callers -> {"none", "open", "done"}]
  /\ pending \in [Callers -> SUBSET Addrs]
  /\ answered \subseteq Addrs /\ lost \subseteq Addrs /\ botched \in BOOLEAN

AllClosed == [c \in Callers |-> "closed"]
NoAddr    == [c \in Callers |-> Nil]
NoTx      == [c \in Callers |-> "none"]
NoRows    == [c \in Callers |-> {}]

Init ==
  /\ file = "absent" /\ opener = Nil
  /\ table = {} /\ writer = Nil /\ cache = {}
  /\ pc = AllClosed /\ addr = NoAddr /\ tx = NoTx /\ pending = NoRows
  /\ answered = {} /\ lost = {} /\ botched = FALSE

Pending == UNION {pending[c] : c \in Callers}

-----------------------------------------------------------------------------
(* OpenDB.  Whether the database has to be created is decided by its file  *)
(* alone.  The first connection of the initialising transaction creates    *)
(* the file; the tables are there when it has committed.                   *)

(* Mutant: OpenDB without openLock.                                        *)
OpenUnlocked(c) ==
  /\ pc[c] = "closed"
  /\ \/ /\ file = "absent"
        /\ file' = "bare" /\ opener' = c
        /\ pc' = [pc EXCEPT ![c] = "creating"]
     \/ /\ file # "absent"
        /\ pc' = [pc EXCEPT ![c] = "idle"]
        /\ UNCHANGED <<file, opener>>
  /\ UNCHANGED <<table, writer, cache, addr, tx, pending, history>>

Open(c) ==
  /\ pc[c] = "closed" /\ opener = Nil
  /\ \/ /\ file = "absent"
        /\ file' = "bare" /\ opener' = c
        /\ pc' = [pc EXCEPT ![c] = "creating"]
     \/ /\ file # "absent"
        /\ pc' = [pc EXCEPT ![c] = "idle"]
        /\ UNCHANGED <<file, opener>>
  /\ UNCHANGED <<table, writer, cache, addr, tx, pending, history>>

(* initialize ends with a commit whose error is ignored: then there are no *)
(* tables, and the transaction stays set.                                  *)
Create(c) ==
  /\ pc[c] = "creating"
  /\ pc' = [pc EXCEPT ![c] = "idle"] /\ opener' = Nil
  /\ \/ file' = "ready" /\ UNCHANGED <<tx, botched>>
     \/ /\ "commit" \in Faults
        /\ tx' = [tx EXCEPT ![c] = "done"]
        /\ botched' = TRUE
        /\ UNCHANGED file
  /\ UNCHANGED <<table, writer, cache, addr, pending, answered, lost>>

(* The process ends: what is not committed is rolled back by SQLite, and   *)
(* nothing in memory survives.                                             *)
ProcessEnds ==
  /\ pc' = AllClosed /\ addr' = NoAddr /\ tx' = NoTx /\ pending' = NoRows
  /\ opener' = Nil /\ writer' = Nil /\ cache' = {}
  /\ answered' = {} /\ lost' = {}

(* A query of initialize fails: the file is removed, and OpenDB panics on  *)
(* the db.db that initialize has set to nil.                               *)
CreateFails(c) ==
  /\ "db" \in Faults
  /\ pc[c] = "creating"
  /\ file' = "absent"
  /\ ProcessEnds
  /\ UNCHANGED <<table, botched>>

-----------------------------------------------------------------------------
Return(c) == pc' = [pc EXCEPT ![c] = "idle"] /\ addr' = [addr EXCEPT ![c] = Nil]

(* HostExists asks the cache first.                                        *)
Lookup(c, a) ==
  /\ pc[c] = "idle"
  /\ \/ /\ a \in cache
        /\ answered' = answered \cup {a}
        /\ UNCHANGED <<pc, addr>>
     \/ /\ a \notin cache
        /\ pc' = [pc EXCEPT ![c] = "query"] /\ addr' = [addr EXCEPT ![c] = a]
        /\ UNCHANGED answered
  /\ UNCHANGED <<store, opener, writer, cache, tx, pending, lost, botched>>

(* Mutant: the call's address is given up once the query is done.          *)
QueryForgetful(c) ==
  /\ pc[c] = "query"
  /\ \/ /\ file = "ready" /\ addr[c] \in table
        /\ cache' = cache \cup {addr[c]}
        /\ answered' = answered \cup {addr[c]}
        /\ Return(c)
     \/ /\ file = "ready" /\ addr[c] \notin table
        /\ pc' = [pc EXCEPT ![c] = "insert"] /\ addr' = [addr EXCEPT ![c] = Nil]
        /\ UNCHANGED <<cache, answered>>
     \/ /\ file # "ready" \/ "db" \in Faults
        /\ Return(c)
        /\ UNCHANGED <<cache, answered>>
  /\ UNCHANGED <<store, opener, writer, tx, pending, lost, botched>>

(* Then the table, outside any transaction of its own; without tables the  *)
(* query is an error.                                                      *)
Query(c) ==
  /\ pc[c] = "query"
  /\ \/ /\ file = "ready" /\ addr[c] \in table
        /\ cache' = cache \cup {addr[c]}
        /\ answered' = answered \cup {addr[c]}
        /\ Return(c)
     \/ /\ file = "ready" /\ addr[c] \notin table
        /\ pc' = [pc EXCEPT ![c] = "insert"]
        /\ UNCHANGED <<addr, cache, answered>>
     \/ /\ file # "ready" \/ "db" \in Faults
        /\ Return(c)
        /\ UNCHANGED <<cache, answered>>
  /\ UNCHANGED <<store, opener, writer, tx, pending, lost, botched>>

(* HostAdd fails: in a transaction of its own, it is rolled back; in the   *)
(* caller's, the write lock is kept when it was already granted.           *)
InsertFails(c) ==
  /\ Return(c)
  /\ \/ writer' = writer
     \/ tx[c] = "open" /\ writer' = c
  /\ UNCHANGED <<cache, pending, answered>>

(* Mutants: the address is cached before the row is in; a row that is      *)
(* there already is no error.                                              *)
InsertCachedFirst(c) ==
  /\ pc[c] = "insert"
  /\ tx[c] = "done" \/ writer \in {Nil, c}
  /\ cache' = cache \cup {addr[c]}
  /\ \/ /\ tx[c] # "done" /\ addr[c] \notin table \cup pending[c]
        /\ writer' = c
        /\ pending' = [pending EXCEPT ![c] = @ \cup {addr[c]}]
        /\ pc' = [pc EXCEPT ![c] = "commit"]
        /\ UNCHANGED <<addr, answered>>
     \/ /\ tx[c] = "done" \/ addr[c] \in table \cup pending[c] \/ "db" \in Faults
        /\ Return(c)
        /\ UNCHANGED <<writer, pending, answered>>
  /\ UNCHANGED <<store, opener, tx, lost, botched>>

InsertUnchecked(c) ==
  /\ pc[c] = "insert"
  /\ tx[c] = "done" \/ writer \in {Nil, c}
  /\ \/ /\ tx[c] # "done"
        /\ writer' = c
        /\ pending' = [pending EXCEPT ![c] = @ \cup {addr[c]}]
        /\ cache' = cache \cup {addr[c]}
        /\ pc' = [pc EXCEPT ![c] = "commit"]
        /\ UNCHANGED <<addr, answered>>
     \/ /\ tx[c] = "done" \/ "db" \in Faults
        /\ InsertFails(c)
  /\ UNCHANGED <<store, opener, tx, lost, botched>>

(* HostAdd up to the cache entry.  A busy database is asked again until it *)
(* is not; a row that is there already is an error, and so is the use of a *)
(* transaction that is over.                                               *)
Insert(c) ==
  /\ pc[c] = "insert"
  /\ tx[c] = "done" \/ writer \in {Nil, c}
  /\ \/ /\ tx[c] # "done" /\ addr[c] \notin table \cup pending[c]
        /\ writer' = c
        /\ pending' = [pending EXCEPT ![c] = @ \cup {addr[c]}]
        /\ cache' = cache \cup {addr[c]}
        /\ pc' = [pc EXCEPT ![c] = "commit"]
        /\ UNCHANGED <<addr, answered>>
     \/ /\ tx[c] = "done" \/ addr[c] \in table \cup pending[c] \/ "db" \in Faults
        /\ InsertFails(c)
  /\ UNCHANGED <<store, opener, tx, lost, botched>>

(* The rows of c's transaction become permanent, or are gone.              *)
CommitRows(c) ==
  /\ table' = table \cup pending[c]
  /\ lost' = lost \ pending[c]

LoseRows(c) ==
  /\ lost' = lost \cup (pending[c] \ table)
  /\ UNCHANGED table

EndWriting(c) ==
  /\ pending' = [pending EXCEPT ![c] = {}]
  /\ writer' = IF writer = c THEN Nil ELSE writer

(* Mutant: a transaction of its own is left open.                          *)
FinishWithoutCommit(c) ==
  /\ pc[c] = "commit"
  /\ answered' = answered \cup {addr[c]}
  /\ Return(c)
  /\ UNCHANGED <<store, lost, pending, writer, opener, cache, tx, botched>>

(* Mutant: the caller's transaction is committed as if it were its own.    *)
FinishAlwaysCommits(c) ==
  /\ pc[c] = "commit"
  /\ answered' = answered \cup {addr[c]}
  /\ Return(c)
  /\ EndWriting(c)
  /\ \/ CommitRows(c)
     \/ "commit" \in Faults /\ LoseRows(c)
  /\ UNCHANGED <<file, opener, cache, tx, botched>>

(* The end of HostAdd: a transaction of its own is committed, whatever     *)
(* comes of it, and the caller hears of no error.                          *)
Finish(c) ==
  /\ pc[c] = "commit"
  /\ answered' = answered \cup {addr[c]}
  /\ Return(c)
  /\ \/ /\ tx[c] = "open"
        /\ UNCHANGED <<table, lost, pending, writer>>
     \/ /\ tx[c] = "none"
        /\ EndWriting(c)
        /\ \/ CommitRows(c)
           \/ "commit" \in Faults /\ LoseRows(c)
  /\ UNCHANGED <<file, opener, cache, tx, botched>>

-----------------------------------------------------------------------------
(* Begin takes no lock: the first statement that writes does.              *)
Begin(c) ==
  /\ c \in Grouping /\ pc[c] = "idle" /\ tx[c] = "none"
  /\ tx' = [tx EXCEPT ![c] = "open"]
  /\ UNCHANGED <<store, opener, writer, cache, pc, addr, pending, history>>

Commit(c) ==
  /\ c \in Grouping /\ pc[c] = "idle" /\ tx[c] = "open"
  /\ EndWriting(c)
  /\ \/ CommitRows(c) /\ tx' = [tx EXCEPT ![c] = "none"]
     \/ /\ "commit" \in Faults
        /\ LoseRows(c) /\ tx' = [tx EXCEPT ![c] = "done"]
  /\ UNCHANGED <<file, opener, cache, pc, addr, answered, botched>>

Rollback(c) ==
  /\ c \in Grouping /\ pc[c] = "idle" /\ tx[c] = "open"
  /\ EndWriting(c)
  /\ LoseRows(c)
  /\ \/ tx' = [tx EXCEPT ![c] = "none"]
     \/ "commit" \in Faults /\ tx' = [tx EXCEPT ![c] = "done"]
  /\ UNCHANGED <<file, opener, cache, pc, addr, answered, botched>>

(* An entry that nobody has asked for in 20 minutes.                       *)
Expire(a) ==
  /\ a \in cache
  /\ cache' = cache \ {a}
  /\ UNCHANGED <<store, opener, writer, pc, addr, tx, pending, history>>

Crash ==
  /\ "crash" \in Faults
  /\ ProcessEnds
  /\ botched' = (botched \/ opener # Nil)
  /\ UNCHANGED store

Call(c) == \/ \E a \in Addrs : Lookup(c, a)
           \/ Query(c) \/ Insert(c) \/ Finish(c)

Next ==
  \/ \E c \in Callers : \/ Open(c) \/ Create(c) \/ CreateFails(c)
                        \/ Call(c)
                        \/ Begin(c) \/ Commit(c) \/ Rollback(c)
  \/ \E a \in Addrs : Expire(a)
  \/ Crash

Spec == Init /\ [][Next]_vars

(* A goroutine goes on; one that finds the database busy tries again every *)
(* 10 ms, and so gets its turn if the lock is free again and again.        *)
Fairness ==
  \A c \in Callers : /\ WF_vars(Create(c)) /\ WF_vars(Query(c))
                     /\ SF_vars(Insert(c)) /\ WF_vars(Finish(c))

FairSpec == Spec /\ Fairness

-----------------------------------------------------------------------------
(* What the cache says and what callers are told of an address (HostExists *)
(* said yes, or HostAdd gave no error) is true of the table, or will be    *)
(* when the transaction that added it commits, or was true of one that has *)
(* since been rolled back, or whose commit failed without anybody noticing.*)
Truthful == cache \cup answered \subseteq table \cup Pending \cup lost

(* HostExists and HostAdd are two statements, and everybody uses them at   *)
(* the same time; still no address is inserted twice: not by two           *)
(* transactions, nor by one into the table that has it.                    *)
InsertedOnce ==
  /\ \A c \in Callers : pending[c] \cap table = {}
  /\ \A c, d \in Callers : c # d => pending[c] \cap pending[d] = {}

(* Whoever has a database open finds its tables, unless a fault hit the    *)
(* creation; one kill there is enough to leave a file that no later start  *)
(* repairs.                                                                *)
TablesThere ==
  (\E c \in Callers : pc[c] \notin {"closed", "creating"})
     => file = "ready" \/ botched

(* A file with tables is never removed by a creation that fails, rows are  *)
(* only in such a file, and the rows of a transaction come into the table  *)
(* together or not at all, and stay there.                                 *)
KeepsTable ==
  /\ file = "ready" => file' = "ready"
  /\ table' # {} => file' = "ready"
  /\ table' # table => \E c \in Callers : /\ table' = table \cup pending[c]
                                          /\ pending'[c] = {}
                                          /\ tx'[c] = "none"

TableKept == [][KeepsTable]_vars

(* Every call ends, unless somebody sits on the write lock with a          *)
(* transaction of his own.                                                 *)
Blocked(c) == \E d \in Callers \ {c} : writer = d /\ tx[d] = "open"

CallsEnd ==
  \A c \in Callers : pc[c] \notin {"closed", "idle"}
                        ~> pc[c] \in {"closed", "idle"} \/ Blocked(c)
=============================================================================
