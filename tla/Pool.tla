-------------------------------- MODULE Pool --------------------------------
(***************************************************************************)
(* The pool of database connections of database/pool.go, as the handlers   *)
(* of the web server and the tests of the database use it.  Everything the *)
(* code does between Lock and Unlock is one step; what it does without the *)
(* lock, the Signal at the end of Put, is a step of its own, and so is the *)
(* return of a waiter from Wait, which takes the lock again.               *)
(*                                                                         *)
(* A connection (HostDB) has the field tx, which Begin sets and Commit and *)
(* Rollback reset, unless they fail: the transaction is over then, and tx  *)
(* stays set.                                                              *)
(***************************************************************************)
EXTENDS Naturals, Sequences, FiniteSets, Functions

CONSTANTS
  Users,      \* the goroutines that use the pool
  Conns,      \* bound: the connections that are ever opened
  PoolSize,   \* NewPool's cnt
  TxFails,    \* TRUE when ending a transaction may fail
  Nil

ASSUME PoolAssumption ==
  /\ IsFiniteSet(Users) /\ IsFiniteSet(Conns)
  /\ PoolSize \in Nat \ {0} /\ PoolSize <= Cardinality(Conns)
  /\ TxFails \in BOOLEAN
  /\ Nil \notin Conns

VARIABLES
  pc,        \* per user: idle, wait, woken, using, signal
  held,      \* per user: the connection it uses
  free,      \* pool.link, from its head
  cnt,       \* pool.cnt
  waiters,   \* the notify list of pool.empty, longest waiting first
  opened,    \* the connections OpenDB has made
  closed,    \* those Close has closed
  tx         \* per connection: none, open, or done (over, but still set)

vars == <<pc, held, free, cnt, waiters, opened, closed, tx>>

TypeOK ==
  /\ pc \in [Users -> {"idle", "wait", "woken", "using", "signal"}]
  /\ held \in [Users -> Conns \cup {Nil}]
  /\ free \in Seq(Conns) /\ cnt \in Nat
  /\ waiters \in Seq(Users)
  /\ opened \subseteq Conns /\ closed \subseteq opened
  /\ tx \in [Conns -> {"none", "open", "done"}]

-----------------------------------------------------------------------------
(* NewPool opens PoolSize connections.                                     *)
Init ==
  /\ pc = [u \in Users |-> "idle"] /\ held = [u \in Users |-> Nil]
  /\ free \in [1 .. PoolSize -> Conns] /\ IsInjective(free)
  /\ cnt = PoolSize
  /\ waiters = <<>>
  /\ opened = Range(free) /\ closed = {}
  /\ tx = [c \in Conns |-> "none"]

(* A link is taken from the list.                                          *)
Grab(u) ==
  /\ free # <<>>
  /\ held' = [held EXCEPT ![u] = Head(free)]
  /\ free' = Tail(free)
  /\ cnt' = cnt - 1
  /\ pc' = [pc EXCEPT ![u] = "using"]
  /\ UNCHANGED <<waiters, opened, closed, tx>>

Sleep(u) ==
  /\ free = <<>>
  /\ waiters' = Append(waiters, u)
  /\ pc' = [pc EXCEPT ![u] = "wait"]
  /\ UNCHANGED <<held, free, cnt, opened, closed, tx>>

Get(u) == pc[u] = "idle" /\ (Grab(u) \/ Sleep(u))

(* Wait returns, with the lock, and Get goes back to WAIT_FOR_LINK.        *)
Recheck(u) == pc[u] = "woken" /\ (Grab(u) \/ Sleep(u))

(* Mutant: a connection that was never in the list is counted out.         *)
OpenNewCounted(u) ==
  /\ free = <<>>
  /\ \E c \in Conns \ opened :
       /\ opened' = opened \cup {c}
       /\ held' = [held EXCEPT ![u] = c]
  /\ cnt' = cnt - 1
  /\ pc' = [pc EXCEPT ![u] = "using"]
  /\ UNCHANGED <<free, waiters, closed, tx>>

(* GetNoWait opens another connection when the list is empty.  (If that    *)
(* fails, nothing has happened.)                                           *)
OpenNew(u) ==
  /\ free = <<>>
  /\ \E c \in Conns \ opened :
       /\ opened' = opened \cup {c}
       /\ held' = [held EXCEPT ![u] = c]
  /\ pc' = [pc EXCEPT ![u] = "using"]
  /\ UNCHANGED <<free, cnt, waiters, closed, tx>>

(* Mutant: the counter is forgotten.                                       *)
GetNoWaitUncounted(u) ==
  /\ pc[u] = "idle" /\ free # <<>>
  /\ held' = [held EXCEPT ![u] = Head(free)]
  /\ free' = Tail(free)
  /\ pc' = [pc EXCEPT ![u] = "using"]
  /\ UNCHANGED <<cnt, waiters, opened, closed, tx>>

GetNoWait(u) == pc[u] = "idle" /\ (Grab(u) \/ OpenNew(u))

-----------------------------------------------------------------------------
(* How a transaction may end: well, or with an error after which tx stays  *)
(* set.  Ending one that is over already is such an error.                 *)
Outcomes(state) ==
  IF state = "open" THEN {"none"} \cup (IF TxFails THEN {"done"} ELSE {})
                    ELSE {state}

Begin(u) ==
  /\ pc[u] = "using" /\ tx[held[u]] = "none"
  /\ tx' = [tx EXCEPT ![held[u]] = "open"]
  /\ UNCHANGED <<pc, held, free, cnt, waiters, opened, closed>>

(* Commit or Rollback.                                                     *)
EndTx(u) ==
  /\ pc[u] = "using" /\ tx[held[u]] # "none"
  /\ \E state \in Outcomes(tx[held[u]]) : tx' = [tx EXCEPT ![held[u]] = state]
  /\ UNCHANGED <<pc, held, free, cnt, waiters, opened, closed>>

Link(u) ==
  /\ free' = <<held[u]>> \o free
  /\ cnt' = cnt + 1
  /\ held' = [held EXCEPT ![u] = Nil]

(* Mutants: no roll-back; a signal only for the first link of the list.    *)
PutAsIs(u) ==
  /\ pc[u] = "using"
  /\ Link(u)
  /\ pc' = [pc EXCEPT ![u] = "signal"]
  /\ UNCHANGED <<waiters, opened, closed, tx>>

PutSignalsFirst(u) ==
  /\ pc[u] = "using"
  /\ \E state \in Outcomes(tx[held[u]]) : tx' = [tx EXCEPT ![held[u]] = state]
  /\ Link(u)
  /\ pc' = [pc EXCEPT ![u] = IF free = <<>> THEN "signal" ELSE "idle"]
  /\ UNCHANGED <<waiters, opened, closed>>

(* Put rolls a pending transaction back, whatever comes of it, and links   *)
(* the connection in.                                                      *)
Put(u) ==
  /\ pc[u] = "using"
  /\ \E state \in Outcomes(tx[held[u]]) : tx' = [tx EXCEPT ![held[u]] = state]
  /\ Link(u)
  /\ pc' = [pc EXCEPT ![u] = "signal"]
  /\ UNCHANGED <<waiters, opened, closed>>

(* Mutant: nobody is woken.                                                *)
SignalNobody(u) ==
  /\ pc[u] = "signal"
  /\ pc' = [pc EXCEPT ![u] = "idle"]
  /\ UNCHANGED <<held, free, cnt, waiters, opened, closed, tx>>

(* The signal wakes the one who waits longest, if there is one.            *)
Signal(u) ==
  /\ pc[u] = "signal"
  /\ \/ /\ waiters = <<>>
        /\ pc' = [pc EXCEPT ![u] = "idle"]
        /\ UNCHANGED waiters
     \/ /\ waiters # <<>>
        /\ pc' = [pc EXCEPT ![u] = "idle", ![Head(waiters)] = "woken"]
        /\ waiters' = Tail(waiters)
  /\ UNCHANGED <<held, free, cnt, opened, closed, tx>>

(* Mutant: the list is not emptied.                                        *)
CloseKeepingLinks ==
  /\ closed' = closed \cup Range(free)
  /\ cnt' = 0
  /\ UNCHANGED <<pc, held, free, waiters, opened, tx>>

(* HostDB.Close gives up a transaction that is left.                       *)
Close ==
  /\ closed' = closed \cup Range(free)
  /\ tx' = [c \in Conns |-> IF c \in Range(free) THEN "none" ELSE tx[c]]
  /\ free' = <<>> /\ cnt' = 0
  /\ UNCHANGED <<pc, held, waiters, opened>>

User(u) == \/ Get(u) \/ GetNoWait(u) \/ Recheck(u) \/ Begin(u) \/ EndTx(u)
           \/ Put(u) \/ Signal(u)

Next == Close \/ \E u \in Users : User(u)

Spec == Init /\ [][Next]_vars

(* A goroutine inside Put or Get goes on; nobody has to call them.         *)
Fairness == \A u \in Users : WF_vars(Signal(u)) /\ WF_vars(Recheck(u))

FairSpec == Spec /\ Fairness

-----------------------------------------------------------------------------
InUse == {held[u] : u \in Users} \ {Nil}

(* Every connection is in one place: in the list once, with one user, or   *)
(* closed; none is forgotten.  No user gets a connection another one has,  *)
(* or one that Close has closed, and "any connections retrieved from the   *)
(* pool that are in use at the time Close is called are unaffected"        *)
(* (pool.go:67).                                                           *)
OneOwner ==
  /\ IsInjective(free)
  /\ \A u, v \in Users : held[u] = held[v] /\ held[u] # Nil => u = v
  /\ InUse \cap Range(free) = {}
  /\ closed \cap (InUse \cup Range(free)) = {}
  /\ opened = InUse \cup Range(free) \cup closed

(* The counter goes up and down in five places; it is the length of the    *)
(* list.                                                                   *)
CountMatches == cnt = Len(free)

(* As long as somebody waits, there is a signal or a woken waiter under    *)
(* way for every connection in the list: it does not matter that Put       *)
(* signals after it has unlocked, nor that another Get or GetNoWait may    *)
(* come before the waiter that was woken.                                  *)
Rousing == {u \in Users : pc[u] \in {"signal", "woken"}}

NoLostWakeup == waiters # <<>> => Len(free) <= Cardinality(Rousing)

(* A transaction one user has left open is not there for the next one.     *)
NoForeignTransaction == \A c \in Range(free) : tx[c] # "open"

(* Connections do not stay in the list for ever while somebody waits.      *)
NoIdleWhileWaiting ==
  (waiters # <<>> /\ free # <<>>) ~> (waiters = <<>> \/ free = <<>>)
=============================================================================
