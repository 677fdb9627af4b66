--------------------------- MODULE SequenceFacts ---------------------------
(***************************************************************************)
(* Facts about the sequences that stand for channels and lists: what they  *)
(* hold, and that they hold it once.                                       *)
(***************************************************************************)
EXTENDS Naturals, Sequences, FiniteSets, Functions, TLAPS, SequenceTheorems,
        FiniteSetTheorems

(* What a receive takes from a queue.                                     *)
LEMMA RangeOfTail ==
  ASSUME NEW S, NEW s \in Seq(S), s # <<>>
  PROVE  Range(s) = {Head(s)} \cup Range(Tail(s))
<1>1. /\ DOMAIN s = 1 .. Len(s) /\ Len(s) \in Nat \ {0}
      /\ DOMAIN Tail(s) = 1 .. Len(s) - 1
  BY HeadTailProperties
<1>2. Head(s) = s[1] /\ \A i \in 1 .. Len(s) - 1 : Tail(s)[i] = s[i + 1]
  BY HeadTailProperties
<1>3. ASSUME NEW i \in DOMAIN s PROVE s[i] \in {Head(s)} \cup Range(Tail(s))
  <2>1. CASE i = 1
    BY <1>2, <2>1
  <2>2. CASE i # 1
    <3>1. i - 1 \in DOMAIN Tail(s) /\ Tail(s)[i - 1] = s[i]
      BY <1>1, <1>2, <2>2
    <3> QED
      BY <3>1 DEF Range
  <2> QED
    BY <2>1, <2>2
<1>4. ASSUME NEW i \in DOMAIN Tail(s) PROVE Tail(s)[i] \in Range(s)
  <2>1. i + 1 \in DOMAIN s /\ Tail(s)[i] = s[i + 1]
    BY <1>1, <1>2
  <2> QED
    BY <2>1 DEF Range
<1>5. Head(s) \in Range(s)
  BY <1>1, <1>2 DEF Range
<1> QED
  BY <1>3, <1>4, <1>5 DEF Range

(* What a send puts there.                                                 *)
LEMMA RangeOfAppend ==
  ASSUME NEW S, NEW s \in Seq(S), NEW e \in S
  PROVE  Range(Append(s, e)) = Range(s) \cup {e}
<1>1. /\ DOMAIN s = 1 .. Len(s) /\ Len(s) \in Nat
      /\ DOMAIN Append(s, e) = 1 .. Len(s) + 1
  BY AppendProperties
<1>2. /\ \A i \in DOMAIN s : Append(s, e)[i] = s[i]
      /\ Append(s, e)[Len(s) + 1] = e
  BY <1>1, AppendProperties
<1>3. \A i \in DOMAIN Append(s, e) : i \in DOMAIN s \/ i = Len(s) + 1
  BY <1>1
<1>4. /\ DOMAIN s \subseteq DOMAIN Append(s, e)
      /\ Len(s) + 1 \in DOMAIN Append(s, e)
  BY <1>1
<1> QED
  BY <1>2, <1>3, <1>4 DEF Range

(* A connection that is put back comes first.                              *)
LEMMA RangeOfCons ==
  ASSUME NEW S, NEW s \in Seq(S), NEW e \in S
  PROVE  /\ <<e>> \o s \in Seq(S) /\ Len(<<e>> \o s) = Len(s) + 1
         /\ Range(<<e>> \o s) = {e} \cup Range(s)
         /\ Head(<<e>> \o s) = e /\ Tail(<<e>> \o s) = s
<1> DEFINE t == <<e>> \o s
<1>1. t \in Seq(S) /\ Len(t) = Len(s) + 1
  OBVIOUS
<1>2. Head(t) = e /\ Tail(t) = s
  OBVIOUS
<1>3. t # <<>>
  BY <1>1
<1>4. Range(t) = {Head(t)} \cup Range(Tail(t))
  BY <1>1, <1>3, RangeOfTail
<1> QED
  BY <1>1, <1>2, <1>4

(* What is in a sequence once is not in its tail, if it is its head.       *)
LEMMA InjectiveTail ==
  ASSUME NEW S, NEW s \in Seq(S), s # <<>>
  PROVE  IsInjective(s) <=> IsInjective(Tail(s)) /\ Head(s) \notin Range(Tail(s))
<1>1. /\ DOMAIN s = 1 .. Len(s) /\ Len(s) \in Nat \ {0}
      /\ DOMAIN Tail(s) = 1 .. Len(s) - 1
  BY HeadTailProperties
<1>2. Head(s) = s[1] /\ \A i \in 1 .. Len(s) - 1 : Tail(s)[i] = s[i + 1]
  BY HeadTailProperties
<1>3. ASSUME IsInjective(s)
      PROVE  IsInjective(Tail(s)) /\ Head(s) \notin Range(Tail(s))
  <2>1. \A i, j \in 1 .. Len(s) - 1 : s[i + 1] = s[j + 1] => i = j
    BY <1>1, <1>3 DEF IsInjective
  <2>2. \A i \in 1 .. Len(s) - 1 : s[i + 1] # s[1]
    BY <1>1, <1>3 DEF IsInjective
  <2> QED
    BY <1>1, <1>2, <2>1, <2>2 DEF IsInjective, Range
<1>4. ASSUME IsInjective(Tail(s)), Head(s) \notin Range(Tail(s)),
             NEW i \in DOMAIN s, NEW j \in DOMAIN s, s[i] = s[j]
      PROVE  i = j
  <2>1. \A k \in DOMAIN s : k # 1 => k - 1 \in DOMAIN Tail(s) /\ Tail(s)[k - 1] = s[k]
    BY <1>1, <1>2
  <2>2. \A k \in DOMAIN s : k # 1 => s[k] # s[1]
    BY <1>2, <1>4, <2>1 DEF Range
  <2>3. CASE i = 1 \/ j = 1
    BY <1>4, <2>2, <2>3
  <2>4. CASE i # 1 /\ j # 1
    <3>1. i - 1 = j - 1
      BY <1>4, <2>1, <2>4 DEF IsInjective
    <3> QED
      BY <1>1, <3>1
  <2> QED
    BY <2>3, <2>4
<1> QED
  BY <1>3, <1>4 DEF IsInjective

(* A newcomer may queue up.                                                *)
LEMMA InjectiveAppend ==
  ASSUME NEW S, NEW s \in Seq(S), NEW e \in S, IsInjective(s), e \notin Range(s)
  PROVE  IsInjective(Append(s, e))
<1>1. /\ DOMAIN s = 1 .. Len(s) /\ Len(s) \in Nat
      /\ DOMAIN Append(s, e) = 1 .. Len(s) + 1
  BY AppendProperties
<1>2. /\ \A i \in DOMAIN s : Append(s, e)[i] = s[i]
      /\ Append(s, e)[Len(s) + 1] = e
  BY <1>1, AppendProperties
<1>3. \A i \in DOMAIN Append(s, e) : i \in DOMAIN s \/ i = Len(s) + 1
  BY <1>1
<1>4. \A i \in DOMAIN s : s[i] # e
  BY DEF Range
<1> QED
  BY <1>2, <1>3, <1>4 DEF IsInjective

-----------------------------------------------------------------------------
(* How often x is in a sequence.                                           *)
Places(s, x) == {i \in DOMAIN s : s[i] = x}

LEMMA FinitePlaces ==
  ASSUME NEW S, NEW s \in Seq(S), NEW x
  PROVE  IsFiniteSet(Places(s, x)) /\ Cardinality(Places(s, x)) \in Nat
<1>1. DOMAIN s = 1 .. Len(s) /\ Len(s) \in Nat
  OBVIOUS
<1>2. IsFiniteSet(DOMAIN s)
  BY <1>1, FS_Interval
<1>3. Places(s, x) \in SUBSET DOMAIN s
  BY DEF Places
<1> QED
  BY <1>2, <1>3, FS_Subset, FS_CardinalityType

(* A send adds one.                                                        *)
LEMMA CountOfAppend ==
  ASSUME NEW S, NEW s \in Seq(S), NEW e \in S, NEW x
  PROVE  Cardinality(Places(Append(s, e), x))
           = Cardinality(Places(s, x)) + (IF e = x THEN 1 ELSE 0)
<1> DEFINE n == Len(s) + 1
<1>1. /\ DOMAIN s = 1 .. Len(s) /\ Len(s) \in Nat
      /\ DOMAIN Append(s, e) = 1 .. n
      /\ \A i \in 1 .. Len(s) : Append(s, e)[i] = s[i]
      /\ Append(s, e)[n] = e
  BY AppendProperties
<1>2. n \notin Places(s, x)
  BY <1>1 DEF Places
<1>3. \A i : i \in 1 .. n <=> i \in 1 .. Len(s) \/ i = n
  BY <1>1
<1>4. Places(Append(s, e), x) = Places(s, x) \cup (IF e = x THEN {n} ELSE {})
  BY <1>1, <1>3 DEF Places
<1>5. IsFiniteSet(Places(s, x)) /\ Cardinality(Places(s, x)) \in Nat
  BY FinitePlaces
<1>6. CASE e = x
  <2>1. Cardinality(Places(s, x) \cup {n}) = Cardinality(Places(s, x)) + 1
    BY <1>2, <1>5, FS_AddElement
  <2> QED
    BY <1>4, <1>6, <2>1
<1>7. CASE e # x
  <2>1. Places(Append(s, e), x) = Places(s, x)
    BY <1>4, <1>7
  <2> QED
    BY <1>5, <1>7, <2>1
<1> QED
  BY <1>6, <1>7

(* A receive takes one: the places in the tail are those in the sequence,  *)
(* the first left out, moved by one.                                       *)
LEMMA CountOfTail ==
  ASSUME NEW S, NEW s \in Seq(S), s # <<>>, NEW x
  PROVE  Cardinality(Places(s, x))
           = Cardinality(Places(Tail(s), x)) + (IF Head(s) = x THEN 1 ELSE 0)
<1> DEFINE P == Places(s, x)
           Q == Places(Tail(s), x)
           f == [i \in Q |-> i + 1]
<1>1. /\ DOMAIN s = 1 .. Len(s) /\ Len(s) \in Nat \ {0}
      /\ DOMAIN Tail(s) = 1 .. Len(s) - 1
      /\ Head(s) = s[1] /\ \A i \in 1 .. Len(s) - 1 : Tail(s)[i] = s[i + 1]
      /\ Tail(s) \in Seq(S)
  BY HeadTailProperties
<1>2. \A i \in Q : i \in Nat /\ i + 1 \in P \ {1}
  BY <1>1 DEF Places
<1>3. ASSUME NEW j \in P \ {1} PROVE j \in Nat /\ j - 1 \in Q /\ (j - 1) + 1 = j
  <2>1. j \in 1 .. Len(s) /\ j # 1 /\ s[j] = x
    BY <1>1 DEF Places
  <2>2. j - 1 \in 1 .. Len(s) - 1 /\ (j - 1) + 1 = j
    BY <1>1, <2>1
  <2> QED
    BY <1>1, <2>1, <2>2 DEF Places
<1> HIDE DEF P, Q
<1>4. f \in Bijection(Q, P \ {1})
  <2>1. f \in [Q -> P \ {1}]
    BY <1>2
  <2>2. \A i, j \in Q : f[i] = f[j] => i = j
    BY <1>2
  <2>3. \A j \in P \ {1} : \E i \in Q : f[i] = j
    BY <1>3
  <2> QED
    BY <2>1, <2>2, <2>3 DEF Bijection, Injection, Surjection, IsInjective
<1>5. IsFiniteSet(P) /\ IsFiniteSet(Q) /\ Cardinality(P) \in Nat /\ Cardinality(Q) \in Nat
  BY <1>1, FinitePlaces DEF P, Q
<1>6. Cardinality(P \ {1}) = Cardinality(Q)
  BY <1>4, <1>5, FS_Bijection DEF ExistsBijection
<1>7. Cardinality(P \ {1}) = IF 1 \in P THEN Cardinality(P) - 1 ELSE Cardinality(P)
  BY <1>5, FS_RemoveElement
<1>8. 1 \in P <=> Head(s) = x
  BY <1>1 DEF P, Places
<1>9. Cardinality(P) = Cardinality(Q) + (IF Head(s) = x THEN 1 ELSE 0)
  BY <1>5, <1>6, <1>7, <1>8
<1> QED
  BY <1>9 DEF P, Q
=============================================================================
