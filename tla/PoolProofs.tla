----------------------------- MODULE PoolProofs -----------------------------
(***************************************************************************)
(* Proofs about the pool for every number of users and connections.        *)
(*                                                                         *)
(* That every connection has one place (OneOwner) needs a link between a   *)
(* user's place in the code and what it holds (UsersHold); that no waiter  *)
(* is forgotten needs the notify list to be exactly the users that wait,   *)
(* each of them once (WaitersListed).  IInv is all of these together.      *)
(***************************************************************************)
EXTENDS Pool, SequenceFacts, TLAPS, FiniteSetTheorems

UsersHold == \A u \in Users : held[u] # Nil <=> pc[u] = "using"

WaitersListed ==
  /\ IsInjective(waiters)
  /\ Range(waiters) = {u \in Users : pc[u] = "wait"}

Basic == TypeOK /\ UsersHold

IInv == /\ Basic /\ WaitersListed /\ OneOwner
        /\ CountMatches /\ NoLostWakeup /\ NoForeignTransaction

-----------------------------------------------------------------------------
(* The kinds of steps: both Get and GetNoWait take links, and whoever has  *)
(* been woken does so again.                                               *)
Takes(u)  == pc[u] \in {"idle", "woken"} /\ Grab(u)
Waits(u)  == pc[u] \in {"idle", "woken"} /\ Sleep(u)
Opens(u)  == pc[u] = "idle" /\ OpenNew(u)
InTx(u)   == Begin(u) \/ EndTx(u)

LEMMA Steps ==
  ASSUME [Next]_vars
  PROVE  \/ Close \/ UNCHANGED vars
         \/ \E u \in Users : \/ Takes(u) \/ Waits(u) \/ Opens(u) \/ InTx(u)
                             \/ Put(u) \/ Signal(u)
BY DEF Next, User, Get, GetNoWait, Recheck, Takes, Waits, Opens, InTx

LEMMA BasicStep ==
  ASSUME Basic, WaitersListed, OneOwner, CountMatches, [Next]_vars
  PROVE  Basic'
<1> USE DEF Basic, TypeOK, UsersHold
<1>0. Nil \notin Conns
  BY PoolAssumption
<1>1. ASSUME NEW u \in Users, Takes(u) PROVE Basic'
  <2>1. /\ free \in Seq(Conns) /\ free # <<>>
        /\ Head(free) \in Conns /\ Tail(free) \in Seq(Conns)
        /\ Len(free) \in Nat \ {0}
    BY <1>1, HeadTailProperties DEF Takes, Grab
  <2>2. cnt' \in Nat
    BY <1>1, <2>1 DEF Takes, Grab, CountMatches
  <2>3. /\ held' \in [Users -> Conns \cup {Nil}] /\ free' \in Seq(Conns)
        /\ pc' \in [Users -> {"idle", "wait", "woken", "using", "signal"}]
    BY <1>1, <2>1 DEF Takes, Grab
  <2> QED
    BY <1>0, <1>1, <2>1, <2>2, <2>3 DEF Takes, Grab
<1>2. ASSUME NEW u \in Users, Waits(u) PROVE Basic'
  BY <1>2, AppendProperties DEF Waits, Sleep
<1>3. ASSUME NEW u \in Users, Opens(u) PROVE Basic'
  BY <1>0, <1>3 DEF Opens, OpenNew
<1>4. ASSUME NEW u \in Users, InTx(u) PROVE Basic'
  BY <1>4 DEF InTx, Begin, EndTx, Outcomes
<1>5. ASSUME NEW u \in Users, Put(u) PROVE Basic'
  <2>1. held[u] \in Conns
    BY <1>5 DEF Put
  <2>2. free' \in Seq(Conns)
    BY <1>5, <2>1, RangeOfCons DEF Put, Link
  <2>3. \A state \in Outcomes(tx[held[u]]) : state \in {"none", "open", "done"}
    BY <2>1 DEF Outcomes
  <2> QED
    BY <1>5, <2>1, <2>2, <2>3 DEF Put, Link
<1>6. ASSUME NEW u \in Users, Signal(u) PROVE Basic'
  <2>1. CASE waiters = <<>>
    BY <1>6, <2>1 DEF Signal
  <2>2. CASE waiters # <<>>
    <3>1. /\ Head(waiters) \in Users /\ Tail(waiters) \in Seq(Users)
          /\ pc[Head(waiters)] = "wait"
      BY <2>2, HeadTailProperties, RangeOfTail DEF WaitersListed
    <3>2. /\ pc' \in [Users -> {"idle", "wait", "woken", "using", "signal"}]
          /\ waiters' \in Seq(Users)
          /\ \A v \in Users : pc'[v] = "using" <=> pc[v] = "using"
      BY <1>6, <2>2, <3>1 DEF Signal
    <3> QED
      BY <1>6, <3>2 DEF Signal
  <2> QED
    BY <2>1, <2>2
<1>7. CASE Close
  <2>1. free' \in Seq(Conns) /\ cnt' \in Nat /\ closed' \subseteq opened
    BY <1>7 DEF Close, OneOwner
  <2>2. tx' \in [Conns -> {"none", "open", "done"}]
    BY <1>7 DEF Close
  <2> QED
    BY <1>7, <2>1, <2>2 DEF Close
<1>8. CASE UNCHANGED vars
  BY <1>8 DEF vars
<1> QED
  BY <1>1, <1>2, <1>3, <1>4, <1>5, <1>6, <1>7, <1>8, Steps

-----------------------------------------------------------------------------
LEMMA WaitersStep ==
  ASSUME Basic, WaitersListed, [Next]_vars
  PROVE  WaitersListed'
<1> USE DEF Basic, TypeOK, WaitersListed
<1>1. ASSUME NEW u \in Users, Takes(u) PROVE WaitersListed'
  BY <1>1 DEF Takes, Grab
<1>2. ASSUME NEW u \in Users, Waits(u) PROVE WaitersListed'
  <2>1. u \notin Range(waiters)
    BY <1>2 DEF Waits
  <2>2. IsInjective(waiters') /\ Range(waiters') = Range(waiters) \cup {u}
    BY <1>2, <2>1, InjectiveAppend, RangeOfAppend DEF Waits, Sleep
  <2> QED
    BY <1>2, <2>2 DEF Waits, Sleep
<1>3. ASSUME NEW u \in Users, Opens(u) PROVE WaitersListed'
  BY <1>3 DEF Opens, OpenNew
<1>4. ASSUME NEW u \in Users, InTx(u) PROVE WaitersListed'
  BY <1>4 DEF InTx, Begin, EndTx
<1>5. ASSUME NEW u \in Users, Put(u) PROVE WaitersListed'
  BY <1>5 DEF Put, Link
<1>6. ASSUME NEW u \in Users, Signal(u) PROVE WaitersListed'
  <2>1. CASE waiters = <<>>
    BY <1>6, <2>1 DEF Signal
  <2>2. CASE waiters # <<>>
    <3>1. /\ IsInjective(Tail(waiters))
          /\ Range(Tail(waiters)) = Range(waiters) \ {Head(waiters)}
      BY <2>2, InjectiveTail, RangeOfTail
    <3>2. Head(waiters) \in Users /\ pc[Head(waiters)] = "wait"
      BY <2>2, HeadTailProperties, RangeOfTail
    <3>3. {v \in Users : pc'[v] = "wait"}
            = {v \in Users : pc[v] = "wait"} \ {Head(waiters)}
      BY <1>6, <2>2, <3>2 DEF Signal
    <3> QED
      BY <1>6, <2>2, <3>1, <3>3 DEF Signal
  <2> QED
    BY <2>1, <2>2
<1>7. CASE Close
  BY <1>7 DEF Close
<1>8. CASE UNCHANGED vars
  BY <1>8 DEF vars
<1> QED
  BY <1>1, <1>2, <1>3, <1>4, <1>5, <1>6, <1>7, <1>8, Steps

-----------------------------------------------------------------------------
LEMMA OwnerStep ==
  ASSUME Basic, OneOwner, [Next]_vars
  PROVE  OneOwner'
<1> USE DEF Basic, TypeOK, UsersHold, OneOwner
<1>0. Nil \notin Conns
  BY PoolAssumption
<1>1. ASSUME NEW u \in Users, Takes(u) PROVE OneOwner'
  <2>1. /\ free # <<>> /\ IsInjective(Tail(free))
        /\ Range(free) = {Head(free)} \cup Range(Tail(free))
        /\ Head(free) \notin Range(Tail(free))
        /\ Head(free) \in Conns /\ held[u] = Nil
    BY <1>1, InjectiveTail, RangeOfTail, HeadTailProperties DEF Takes, Grab
  <2>2. InUse' = InUse \cup {Head(free)}
    BY <1>0, <1>1, <2>1 DEF Takes, Grab, InUse
  <2>3. \A v, w \in Users : held'[v] = held'[w] /\ held'[v] # Nil => v = w
    BY <1>1, <2>1 DEF Takes, Grab, InUse
  <2> QED
    BY <1>1, <2>1, <2>2, <2>3 DEF Takes, Grab
<1>2. ASSUME NEW u \in Users, Waits(u) PROVE OneOwner'
  BY <1>2 DEF Waits, Sleep, InUse
<1>3. ASSUME NEW u \in Users, Opens(u) PROVE OneOwner'
  <2>1. PICK c \in Conns \ opened : /\ opened' = opened \cup {c}
                                    /\ held' = [held EXCEPT ![u] = c]
    BY <1>3 DEF Opens, OpenNew
  <2>2. InUse' = InUse \cup {c}
    BY <1>0, <1>3, <2>1 DEF Opens, InUse
  <2>3. \A v, w \in Users : held'[v] = held'[w] /\ held'[v] # Nil => v = w
    BY <2>1 DEF InUse
  <2> QED
    BY <1>3, <2>1, <2>2, <2>3 DEF Opens, OpenNew
<1>4. ASSUME NEW u \in Users, InTx(u) PROVE OneOwner'
  BY <1>4 DEF InTx, Begin, EndTx, InUse
<1>5. ASSUME NEW u \in Users, Put(u) PROVE OneOwner'
  <2>1. held[u] \in Conns /\ held[u] \in InUse
    BY <1>0, <1>5 DEF Put, InUse
  <2>2. /\ Range(free') = {held[u]} \cup Range(free)
        /\ IsInjective(free')
    <3>1. /\ free' \in Seq(Conns) /\ free' # <<>>
          /\ Head(free') = held[u] /\ Tail(free') = free
          /\ Range(free') = {held[u]} \cup Range(free)
      BY <1>5, <2>1, RangeOfCons DEF Put, Link
    <3>2. IsInjective(free')
            <=> /\ IsInjective(Tail(free'))
                /\ Head(free') \notin Range(Tail(free'))
      BY <3>1, InjectiveTail
    <3> QED
      BY <2>1, <3>1, <3>2
  <2>3. InUse' = InUse \ {held[u]}
    BY <1>5, <2>1 DEF Put, Link, InUse
  <2>4. \A v, w \in Users : held'[v] = held'[w] /\ held'[v] # Nil => v = w
    BY <1>5 DEF Put, Link
  <2> QED
    BY <1>5, <2>1, <2>2, <2>3, <2>4 DEF Put
<1>6. ASSUME NEW u \in Users, Signal(u) PROVE OneOwner'
  BY <1>6 DEF Signal, InUse
<1>7. CASE Close
  <2>1. Range(<<>>) = {} /\ IsInjective(<<>>)
    BY DEF Range, IsInjective
  <2> QED
    BY <1>7, <2>1 DEF Close, InUse
<1>8. CASE UNCHANGED vars
  BY <1>8 DEF vars, InUse
<1> QED
  BY <1>1, <1>2, <1>3, <1>4, <1>5, <1>6, <1>7, <1>8, Steps

-----------------------------------------------------------------------------
LEMMA CountStep ==
  ASSUME Basic, CountMatches, [Next]_vars
  PROVE  CountMatches'
<1> USE DEF Basic, TypeOK, CountMatches
<1>1. ASSUME NEW u \in Users, Takes(u) PROVE CountMatches'
  BY <1>1, HeadTailProperties DEF Takes, Grab
<1>2. ASSUME NEW u \in Users, Put(u) PROVE CountMatches'
  BY <1>2, RangeOfCons DEF Put, Link, UsersHold
<1>3. CASE Close
  BY <1>3 DEF Close
<1>4. ASSUME NEW u \in Users, Waits(u) \/ Opens(u) \/ InTx(u) \/ Signal(u)
      PROVE  CountMatches'
  BY <1>4 DEF Waits, Sleep, Opens, OpenNew, InTx, Begin, EndTx, Signal
<1>5. CASE UNCHANGED vars
  BY <1>5 DEF vars
<1> QED
  BY <1>1, <1>2, <1>3, <1>4, <1>5, Steps

(* A step adds to the list what it adds to the signals under way; one that *)
(* takes a woken waiter from them takes a link from the list as well.      *)
LEMMA WakeStep ==
  ASSUME Basic, WaitersListed, NoLostWakeup, [Next]_vars
  PROVE  NoLostWakeup'
<1> USE DEF Basic, TypeOK
<1>0. IsFiniteSet(Rousing) /\ Cardinality(Rousing) \in Nat /\ Len(free) \in Nat
  BY PoolAssumption, FS_Subset, FS_CardinalityType DEF Rousing
<1>1. ASSUME NEW u \in Users, Takes(u) PROVE NoLostWakeup'
  <2>1. Rousing' = Rousing \ {u} /\ Len(free') = Len(free) - 1
    BY <1>1, HeadTailProperties DEF Takes, Grab, Rousing
  <2>2. Cardinality(Rousing') >= Cardinality(Rousing) - 1
    <3>1. Cardinality(Rousing \ {u})
            = IF u \in Rousing THEN Cardinality(Rousing) - 1
                               ELSE Cardinality(Rousing)
      BY <1>0, FS_RemoveElement
    <3> QED
      BY <1>0, <2>1, <3>1
  <2>3. IsFiniteSet(Rousing') /\ Cardinality(Rousing') \in Nat
    BY <1>0, <2>1, FS_RemoveElement, FS_CardinalityType
  <2> QED
    BY <1>0, <1>1, <2>1, <2>2, <2>3 DEF Takes, Grab, NoLostWakeup
<1>2. ASSUME NEW u \in Users, Waits(u) \/ Opens(u) PROVE NoLostWakeup'
  <2>1. Rousing' \subseteq Rousing /\ free' = <<>>
    BY <1>2 DEF Waits, Sleep, Opens, OpenNew, Rousing
  <2>2. Cardinality(Rousing') \in Nat
    BY <1>0, <2>1, FS_Subset, FS_CardinalityType
  <2> QED
    BY <2>1, <2>2 DEF NoLostWakeup
<1>3. ASSUME NEW u \in Users, InTx(u) PROVE NoLostWakeup'
  BY <1>3 DEF InTx, Begin, EndTx, NoLostWakeup, Rousing
<1>4. ASSUME NEW u \in Users, Put(u) PROVE NoLostWakeup'
  <2>1. Rousing' = Rousing \cup {u} /\ u \notin Rousing
    BY <1>4 DEF Put, Rousing
  <2>2. Cardinality(Rousing') = Cardinality(Rousing) + 1
    BY <1>0, <2>1, FS_AddElement
  <2>3. Len(free') = Len(free) + 1
    BY <1>4, RangeOfCons DEF Put, Link, UsersHold
  <2> QED
    BY <1>0, <1>4, <2>2, <2>3 DEF Put, NoLostWakeup
<1>5. ASSUME NEW u \in Users, Signal(u) PROVE NoLostWakeup'
  <2>1. CASE waiters = <<>>
    BY <1>5, <2>1 DEF Signal, NoLostWakeup
  <2>2. CASE waiters # <<>>
    <3> DEFINE v == Head(waiters)
    <3>1. v \in Users /\ pc[v] = "wait" /\ pc[u] = "signal"
      BY <1>5, <2>2, RangeOfTail, HeadTailProperties DEF WaitersListed, Signal
    <3>2. Rousing' = (Rousing \ {u}) \cup {v} /\ u \in Rousing /\ v \notin Rousing
      BY <1>5, <2>2, <3>1 DEF Signal, Rousing
    <3>3. Cardinality(Rousing') = Cardinality(Rousing)
      <4>1. /\ IsFiniteSet(Rousing \ {u})
            /\ Cardinality(Rousing \ {u}) = Cardinality(Rousing) - 1
        BY <1>0, <3>2, FS_RemoveElement
      <4>2. Cardinality((Rousing \ {u}) \cup {v})
              = Cardinality(Rousing \ {u}) + 1
        BY <3>2, <4>1, FS_AddElement
      <4> QED
        BY <1>0, <3>2, <4>1, <4>2
    <3> QED
      BY <1>5, <2>2, <3>3 DEF Signal, NoLostWakeup
  <2> QED
    BY <2>1, <2>2
<1>6. CASE Close
  <2>1. Rousing' = Rousing /\ free' = <<>>
    BY <1>6 DEF Close, Rousing
  <2> QED
    BY <1>0, <2>1 DEF NoLostWakeup
<1>7. CASE UNCHANGED vars
  BY <1>7 DEF vars, NoLostWakeup, Rousing
<1> QED
  BY <1>1, <1>2, <1>3, <1>4, <1>5, <1>6, <1>7, Steps

-----------------------------------------------------------------------------
(* A connection in use, whose transaction changes, is not in the list, and *)
(* none of the ways a transaction can end leaves it open.                  *)
LEMMA TransactionStep ==
  ASSUME Basic, OneOwner, NoForeignTransaction, [Next]_vars
  PROVE  NoForeignTransaction'
<1> USE DEF Basic, TypeOK, NoForeignTransaction
<1>0. ASSUME NEW u \in Users, pc[u] = "using"
      PROVE  held[u] \in Conns \ Range(free)
  BY <1>0 DEF UsersHold, OneOwner, InUse
<1>1. ASSUME NEW u \in Users, Takes(u) PROVE NoForeignTransaction'
  <2>1. Range(Tail(free)) \subseteq Range(free)
    BY <1>1, RangeOfTail DEF Takes, Grab
  <2> QED
    BY <1>1, <2>1 DEF Takes, Grab
<1>2. ASSUME NEW u \in Users, Waits(u) \/ Opens(u) \/ Signal(u)
      PROVE  NoForeignTransaction'
  BY <1>2 DEF Waits, Sleep, Opens, OpenNew, Signal
<1>3. ASSUME NEW u \in Users, InTx(u) PROVE NoForeignTransaction'
  <2>1. \A c \in Range(free) : tx'[c] = tx[c]
    <3>1. PICK state : tx' = [tx EXCEPT ![held[u]] = state]
      BY <1>3 DEF InTx, Begin, EndTx
    <3>2. held[u] \in Conns \ Range(free) /\ Range(free) \subseteq Conns
      BY <1>0, <1>3 DEF InTx, Begin, EndTx, Range
    <3> QED
      BY <3>1, <3>2
  <2> QED
    BY <1>3, <2>1 DEF InTx, Begin, EndTx
<1>4. ASSUME NEW u \in Users, Put(u) PROVE NoForeignTransaction'
  <2>1. held[u] \in Conns \ Range(free)
    BY <1>0, <1>4 DEF Put
  <2>2. tx'[held[u]] # "open" /\ \A c \in Range(free) : tx'[c] = tx[c]
    BY <1>4, <2>1 DEF Put, Outcomes
  <2>3. Range(free') = {held[u]} \cup Range(free)
    BY <1>4, <2>1, RangeOfCons DEF Put, Link
  <2> QED
    BY <2>2, <2>3
<1>5. CASE Close
  BY <1>5 DEF Close, Range
<1>6. CASE UNCHANGED vars
  BY <1>6 DEF vars
<1> QED
  BY <1>1, <1>2, <1>3, <1>4, <1>5, <1>6, Steps

-----------------------------------------------------------------------------
LEMMA AtFirst == Init => IInv
<1> SUFFICES ASSUME Init PROVE IInv
  OBVIOUS
<1>0. /\ PoolSize \in Nat /\ Nil \notin Conns
      /\ free \in [1 .. PoolSize -> Conns] /\ free \in Seq(Conns)
      /\ Len(free) = PoolSize
  BY PoolAssumption DEF Init
<1>1. <<>> \in Seq(Users) /\ IsInjective(<<>>) /\ Range(<<>>) = {}
  BY DEF IsInjective, Range
<1>2. Range(free) \subseteq Conns
  BY <1>0 DEF Range
<1>3. Basic
  BY <1>0, <1>1, <1>2 DEF Init, Basic, TypeOK, UsersHold
<1>4. WaitersListed
  BY <1>1 DEF Init, WaitersListed
<1>5. InUse = {}
  BY DEF Init, InUse
<1>6. OneOwner
  BY <1>5 DEF Init, OneOwner
<1>7. CountMatches /\ NoLostWakeup
  BY <1>0 DEF Init, CountMatches, NoLostWakeup
<1>8. NoForeignTransaction
  BY <1>2 DEF Init, NoForeignTransaction
<1> QED
  BY <1>3, <1>4, <1>6, <1>7, <1>8 DEF IInv

(* All parts of IInv hold in every state of the pool.                      *)
THEOREM Invariance == Spec => []IInv
<1>1. Init => IInv
  BY AtFirst
<1>2. IInv /\ [Next]_vars => IInv'
  BY BasicStep, WaitersStep, OwnerStep, CountStep, WakeStep, TransactionStep
     DEF IInv
<1> QED
  BY <1>1, <1>2, PTL DEF Spec

(* The variables keep their types; the counter never goes below zero.      *)
THEOREM Typing == Spec => []TypeOK
BY Invariance, PTL DEF IInv, Basic

(* A connection has one user or one place in the list, or is closed        *)
(* (pool.go:67).                                                           *)
THEOREM Ownership == Spec => []OneOwner
BY Invariance, PTL DEF IInv

(* The counter is the length of the list (pool.go:95, 117, 146, 78).       *)
THEOREM Counting == Spec => []CountMatches
BY Invariance, PTL DEF IInv

(* A signal is under way for each free connection while somebody waits     *)
(* (pool.go:102, 148).                                                     *)
THEOREM Waking == Spec => []NoLostWakeup
BY Invariance, PTL DEF IInv

(* No connection lies in the list with an open transaction (pool.go:134).  *)
THEOREM Isolation == Spec => []NoForeignTransaction
BY Invariance, PTL DEF IInv
=============================================================================
