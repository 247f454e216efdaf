---------------------------- MODULE QueueLemmas ----------------------------
(***************************************************************************)
(* What Append, Head and Tail do to the number of entries a sequence has   *)
(* of one element: the arithmetic of AddReady and RemoveTask.              *)
(***************************************************************************)
EXTENDS Queues, FiniteSetTheorems, FunctionTheorems, SequenceTheorems, TLAPS

\* The positions of an element are a finite set.
LEMMA OccurrencesFinite ==
  ASSUME NEW S, NEW list \in Seq(S), NEW e
  PROVE  /\ IsFiniteSet(Occurrences(list, e))
         /\ Cardinality(Occurrences(list, e)) \in Nat
<1>1. DOMAIN list = 1 .. Len(list) /\ Len(list) \in Nat
  BY LenProperties
<1>2. IsFiniteSet(1 .. Len(list))
  BY <1>1, FS_Interval
<1>3. Occurrences(list, e) \in SUBSET (1 .. Len(list))
  BY <1>1 DEF Occurrences
<1>4. IsFiniteSet(Occurrences(list, e))
  BY <1>2, <1>3, FS_Subset
<1> QED
  BY <1>4, FS_CardinalityType

\* An element that stands somewhere is counted.
LEMMA OccurrencesPositive ==
  ASSUME NEW S, NEW list \in Seq(S), NEW i \in DOMAIN list
  PROVE  Cardinality(Occurrences(list, list[i])) >= 1
<1>1. /\ IsFiniteSet(Occurrences(list, list[i]))
      /\ Cardinality(Occurrences(list, list[i])) \in Nat
  BY OccurrencesFinite
<1>2. Occurrences(list, list[i]) # {}
  BY DEF Occurrences
<1> QED
  BY <1>1, <1>2, FS_EmptySet

\* Appending an element adds one entry of it and none of the others.
LEMMA OccurrencesAppend ==
  ASSUME NEW S, NEW list \in Seq(S), NEW new \in S, NEW e
  PROVE  Cardinality(Occurrences(Append(list, new), e)) =
           Cardinality(Occurrences(list, e)) + (IF e = new THEN 1 ELSE 0)
<1> DEFINE longer == Append(list, new)
<1>1. /\ Len(list) \in Nat /\ DOMAIN list = 1 .. Len(list)
      /\ longer \in Seq(S) /\ Len(longer) = Len(list) + 1
      /\ \A i \in 1 .. Len(list) : longer[i] = list[i]
      /\ longer[Len(list) + 1] = new
  BY LenProperties, AppendProperties
<1>2. DOMAIN longer = 1 .. (Len(list) + 1)
  BY <1>1, LenProperties
<1>3. IsFiniteSet(Occurrences(list, e)) /\ Cardinality(Occurrences(list, e)) \in Nat
  BY OccurrencesFinite
<1>4. CASE e = new
  <2>1. Occurrences(longer, e) = Occurrences(list, e) \cup {Len(list) + 1}
    BY <1>1, <1>2, <1>4 DEF Occurrences
  <2>2. Len(list) + 1 \notin Occurrences(list, e)
    BY <1>1 DEF Occurrences
  <2> QED
    BY <2>1, <2>2, <1>3, <1>4, FS_AddElement
<1>5. CASE e # new
  <2>1. Occurrences(longer, e) = Occurrences(list, e)
    BY <1>1, <1>2, <1>5 DEF Occurrences
  <2> QED
    BY <2>1, <1>3, <1>5
<1> QED
  BY <1>4, <1>5

\* Dropping the head takes one entry from the head's element, none from others.
LEMMA OccurrencesTail ==
  ASSUME NEW S, NEW list \in Seq(S), list # <<>>, NEW e
  PROVE  Cardinality(Occurrences(Tail(list), e)) =
           Cardinality(Occurrences(list, e)) - (IF e = Head(list) THEN 1 ELSE 0)
<1> DEFINE rest == Tail(list)
           later == Occurrences(list, e) \ {1}
           shift == [i \in Occurrences(rest, e) |-> i + 1]
<1>1. /\ Len(list) \in Nat \ {0} /\ DOMAIN list = 1 .. Len(list)
      /\ rest \in Seq(S) /\ Len(rest) = Len(list) - 1
      /\ \A i \in 1 .. Len(rest) : rest[i] = list[i + 1]
      /\ Head(list) = list[1]
  BY LenProperties, HeadTailProperties, EmptySeq
<1>2. DOMAIN rest = 1 .. (Len(list) - 1)
  BY <1>1, LenProperties
<1>3. IsFiniteSet(Occurrences(list, e)) /\ Cardinality(Occurrences(list, e)) \in Nat
  BY OccurrencesFinite
<1>4. IsFiniteSet(Occurrences(rest, e)) /\ Cardinality(Occurrences(rest, e)) \in Nat
  BY <1>1, OccurrencesFinite
<1>5. shift \in Bijection(Occurrences(rest, e), later)
  <2>1. \A i \in Occurrences(rest, e) : i \in Nat /\ i + 1 \in later
    BY <1>1, <1>2 DEF Occurrences
  <2>2. \A i, j \in Occurrences(rest, e) : shift[i] = shift[j] => i = j
    BY <2>1
  <2>3. \A k \in later : \E i \in Occurrences(rest, e) : shift[i] = k
    <3> SUFFICES ASSUME NEW k \in later
                 PROVE  k - 1 \in Occurrences(rest, e) /\ shift[k - 1] = k
      OBVIOUS
    <3>1. k \in 2 .. Len(list) /\ list[k] = e
      BY <1>1 DEF Occurrences
    <3>2. k - 1 \in 1 .. (Len(list) - 1) /\ (k - 1) + 1 = k
      BY <3>1, <1>1
    <3>3. k - 1 \in Occurrences(rest, e)
      BY <3>1, <3>2, <1>1, <1>2 DEF Occurrences
    <3> QED
      BY <3>2, <3>3
  <2> QED
    BY <2>1, <2>2, <2>3, Fun_IsBij
<1>6. Cardinality(later) = Cardinality(Occurrences(rest, e))
  BY <1>4, <1>5, FS_Bijection DEF ExistsBijection
<1>7. Cardinality(later) =
        Cardinality(Occurrences(list, e)) - (IF e = Head(list) THEN 1 ELSE 0)
  <2>1. 1 \in Occurrences(list, e) <=> e = Head(list)
    BY <1>1 DEF Occurrences
  <2>2. Cardinality(Occurrences(list, e) \ {1}) =
          IF 1 \in Occurrences(list, e) THEN Cardinality(Occurrences(list, e)) - 1
                                       ELSE Cardinality(Occurrences(list, e))
    BY <1>3, FS_RemoveElement
  <2> QED
    BY <2>1, <2>2, <1>3
<1> QED
  BY <1>6, <1>7

\* The places that a queue has for the elements of S, up to a limit for each.
Places(S, limit) == UNION {{e} \X (1 .. limit[e]) : e \in S}
KeepsLimits(list, S, limit) ==
  \A e \in S : limit[e] \in Nat /\ Cardinality(Occurrences(list, e)) <= limit[e]

LEMMA PlacesFinite ==
  ASSUME NEW S, IsFiniteSet(S), NEW limit, \A e \in S : limit[e] \in Nat
  PROVE  IsFiniteSet(Places(S, limit))
<1> DEFINE places == [e \in S |-> {e} \X (1 .. limit[e])]
           Rows == {{e} \X (1 .. limit[e]) : e \in S}
<1>1. places \in Surjection(S, Rows)
  <2>1. places \in [S -> Rows]
    OBVIOUS
  <2>2. \A row \in Rows : \E e \in S : places[e] = row
    OBVIOUS
  <2> QED
    BY <2>1, <2>2, Fun_IsSurj
<1>2. IsFiniteSet(Rows)
  BY <1>1, FS_Surjection
<1>3. ASSUME NEW e \in S
      PROVE  IsFiniteSet({e} \X (1 .. limit[e]))
  <2>1. IsFiniteSet({e}) /\ IsFiniteSet(1 .. limit[e])
    <3>1. limit[e] \in Nat
      OBVIOUS
    <3>2. 1 \in Int /\ limit[e] \in Int
      BY <3>1
    <3> QED
      BY <3>2, FS_Singleton, FS_Interval
  <2> QED
    BY <2>1, FS_Product
<1>4. \A row \in Rows : IsFiniteSet(row)
  BY <1>3
<1> QED
  BY <1>2, <1>4, FS_UNION DEF Places

\* A queue in which no element stands more often than its limit is no longer
\* than there are places: the entry at i, of element e, is the one with as many
\* entries of e up to i.
LEMMA QueueFitsPlaces ==
  ASSUME NEW S, IsFiniteSet(S), NEW limit, NEW list \in Seq(S), KeepsLimits(list, S, limit)
  PROVE  Len(list) <= Cardinality(Places(S, limit))
<1> DEFINE UpTo(i) == {j \in Occurrences(list, list[i]) : j <= i}
           rank == [i \in 1 .. Len(list) |-> Cardinality(UpTo(i))]
           place == [i \in 1 .. Len(list) |-> <<list[i], rank[i]>>]
<1>1. /\ Len(list) \in Nat /\ DOMAIN list = 1 .. Len(list)
      /\ \A i \in 1 .. Len(list) : list[i] \in S
  BY LenProperties
<1>2. ASSUME NEW i \in 1 .. Len(list)
      PROVE  /\ IsFiniteSet(Occurrences(list, list[i]))
             /\ IsFiniteSet(UpTo(i))
             /\ UpTo(i) # {}
             /\ Cardinality(UpTo(i)) <= Cardinality(Occurrences(list, list[i]))
  <2>1. IsFiniteSet(Occurrences(list, list[i]))
    BY OccurrencesFinite
  <2>2. UpTo(i) \in SUBSET Occurrences(list, list[i]) /\ i \in UpTo(i)
    BY <1>1 DEF Occurrences
  <2> HIDE DEF UpTo
  <2> QED
    BY <2>1, <2>2, FS_Subset
<1>3. ASSUME NEW i \in 1 .. Len(list)
      PROVE  rank[i] \in 1 .. limit[list[i]]
  <2>1. /\ Cardinality(UpTo(i)) \in Nat /\ Cardinality(UpTo(i)) # 0
        /\ Cardinality(Occurrences(list, list[i])) \in Nat
    BY <1>2, FS_CardinalityType, FS_EmptySet
  <2>2. list[i] \in S
    BY <1>1
  <2>3. limit[list[i]] \in Nat /\ Cardinality(Occurrences(list, list[i])) <= limit[list[i]]
    BY <2>2 DEF KeepsLimits
  <2>4. rank[i] = Cardinality(UpTo(i))
    OBVIOUS
  <2> HIDE DEF UpTo, rank
  <2> QED
    BY <1>2, <2>1, <2>2, <2>3, <2>4
<1>4. ASSUME NEW i \in 1 .. Len(list), NEW k \in 1 .. Len(list), i < k, list[i] = list[k]
      PROVE  rank[i] # rank[k]
  <2>1. UpTo(i) \in SUBSET UpTo(k) /\ k \in UpTo(k) /\ k \notin UpTo(i)
    BY <1>1, <1>4 DEF Occurrences
  <2>2. IsFiniteSet(UpTo(k))
    BY <1>2
  <2>3. rank[i] = Cardinality(UpTo(i)) /\ rank[k] = Cardinality(UpTo(k))
    OBVIOUS
  <2> HIDE DEF UpTo, rank
  <2> QED
    BY <2>1, <2>2, <2>3, FS_Subset
<1> HIDE DEF rank
<1>5. place \in [1 .. Len(list) -> Places(S, limit)]
  <2>1. ASSUME NEW i \in 1 .. Len(list)
        PROVE  <<list[i], rank[i]>> \in Places(S, limit)
    <3>1. list[i] \in S /\ <<list[i], rank[i]>> \in {list[i]} \X (1 .. limit[list[i]])
      BY <1>1, <1>3
    <3> QED
      BY <3>1 DEF Places
  <2> QED
    BY <2>1
<1>6. ASSUME NEW i \in 1 .. Len(list), NEW k \in 1 .. Len(list), place[i] = place[k]
      PROVE  i = k
  <2>1. list[i] = list[k] /\ rank[i] = rank[k]
    BY <1>6
  <2>2. ~(i < k) /\ ~(k < i)
    BY <2>1, <1>4
  <2> QED
    BY <2>2
<1> HIDE DEF place
<1>7. place \in Injection(1 .. Len(list), Places(S, limit))
  BY <1>5, <1>6, Fun_IsInj
<1>8. IsFiniteSet(Places(S, limit))
  BY PlacesFinite DEF KeepsLimits
<1>9. Cardinality(1 .. Len(list)) <= Cardinality(Places(S, limit))
  BY <1>7, <1>8, FS_Injection
<1>10. Cardinality(1 .. Len(list)) = Len(list)
  <2>1. 1 \in Int /\ Len(list) \in Int
    BY <1>1
  <2>2. Cardinality(1 .. Len(list)) = IF 1 > Len(list) THEN 0 ELSE Len(list) - 1 + 1
    BY <2>1, FS_Interval
  <2> QED
    BY <1>1, <2>2
<1> QED
  BY <1>9, <1>10
=============================================================================
