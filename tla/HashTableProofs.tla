--------------------------- MODULE HashTableProofs ---------------------------
(***************************************************************************)
(* Facts about the probes of HashTable, for every table size, home slot    *)
(* and content.                                                            *)
(***************************************************************************)
EXTENDS HashTable, FiniteSets, FiniteSetTheorems, WellFoundedInduction, TLAPS

\* Every non-empty set of naturals has a least element, so First is one.
LEMMA FirstIsLeast ==
  ASSUME NEW D \in SUBSET Nat, D # {}
  PROVE  /\ First(D) \in D
         /\ \A e \in D : First(D) <= e
<1>1. IsWellFoundedOn(OpToRel(<, Nat), Nat)
  BY NatLessThanWellFounded, Zenon
<1>2. PICK d \in D : \A e \in D : ~(<<e, d>> \in OpToRel(<, Nat))
  BY <1>1, WFMin, Zenon
<1>3. \A e \in D : d <= e
  <2> SUFFICES ASSUME NEW e \in D PROVE d <= e
    OBVIOUS
  <2>1. <<e, d>> \notin OpToRel(<, Nat)
    BY <1>2, Zenon
  <2>2. e < d => <<e, d>> \in OpToRel(<, Nat)
    BY DEF OpToRel
  <2>3. ~(e < d)
    BY <2>1, <2>2, Zenon
  <2>4. e \in Nat /\ d \in Nat
    OBVIOUS
  <2> QED BY <2>3, <2>4
<1> QED BY <1>3, Zenon DEF First

\* A probe stays in the table.
LEMMA WalkInTable ==
  ASSUME NEW n \in Nat, NEW h \in 0 .. n-1, NEW d \in 0 .. n-1
  PROVE  Walk(n, h, d) \in 0 .. n-1
BY DEF Walk

\* A full walk looks at every slot.
LEMMA WalkIsOnto ==
  ASSUME NEW n \in Nat, NEW h \in 0 .. n-1, NEW s \in 0 .. n-1
  PROVE  \E d \in 0 .. n-1 : Walk(n, h, d) = s
<1>1. CASE s >= h
  <2>1. s - h \in 0 .. n-1 /\ Walk(n, h, s - h) = s
    BY <1>1 DEF Walk
  <2> QED BY <2>1
<1>2. CASE s < h
  <2>1. s + n - h \in 0 .. n-1 /\ Walk(n, h, s + n - h) = s
    BY <1>2 DEF Walk
  <2> QED BY <2>1
<1> QED BY <1>1, <1>2

\* Where map_hash puts a key: a slot of the table, on the key's path, that
\* holds no other key.
LEMMA HashSlotProperties ==
  ASSUME NEW n \in Nat, NEW t, NEW h \in 0 .. n-1, NEW k,
         HashSteps(t, n, h, k) # {}
  PROVE  /\ HashSlot(t, n, h, k) \in 0 .. n-1
         /\ OnPath(t, n, h, HashSlot(t, n, h, k))
         /\ IsLive(t[HashSlot(t, n, h, k)]) => t[HashSlot(t, n, h, k)].key = k
<1> DEFINE D == HashSteps(t, n, h, k)
           d == First(D)
<1>1. D \in SUBSET (0 .. n-1) /\ D \in SUBSET Nat
  BY DEF HashSteps
<1>2. d \in D /\ \A e \in D : d <= e
  BY <1>1, FirstIsLeast
<1>3. d \in 0 .. n-1
  BY <1>1, <1>2
<1> HIDE DEF d
<1>4. IsLive(t[Walk(n, h, d)]) => t[Walk(n, h, d)].key = k
  BY <1>2 DEF HashSteps
<1>5. ASSUME NEW c \in 0 .. d-1 PROVE t[Walk(n, h, c)] # Null
  <2>1. c \in 0 .. n-1 /\ c < d
    BY <1>3
  <2>2. c \notin D
    BY <1>2, <1>3, <2>1
  <2> QED BY <2>1, <2>2 DEF HashSteps, IsLive
<1>6. OnPath(t, n, h, Walk(n, h, d))
  BY <1>3, <1>5 DEF OnPath
<1>7. Walk(n, h, d) \in 0 .. n-1
  BY <1>3, WalkInTable, Zenon
<1>8. HashSlot(t, n, h, k) = Walk(n, h, d)
  BY DEF HashSlot, d
<1> QED BY <1>4, <1>6, <1>7, <1>8

\* What map_find returns: a live entry with the key.
LEMMA FindSlotProperties ==
  ASSUME NEW n \in Nat, NEW t, NEW h \in 0 .. n-1, NEW k,
         Found(t, n, h, k)
  PROVE  /\ FindSlot(t, n, h, k) \in 0 .. n-1
         /\ IsLive(t[FindSlot(t, n, h, k)])
         /\ t[FindSlot(t, n, h, k)].key = k
<1> DEFINE D == FindSteps(t, n, h, k)
           d == First(D)
<1>1. D \in SUBSET (0 .. n-1) /\ D \in SUBSET Nat /\ D # {}
  BY DEF FindSteps, Found
<1>2. d \in D
  BY <1>1, FirstIsLeast
<1>3. d \in 0 .. n-1
  BY <1>1, <1>2
<1> HIDE DEF d
<1>4. IsLive(t[Walk(n, h, d)]) /\ t[Walk(n, h, d)].key = k
  BY <1>2 DEF FindSteps
<1>5. Walk(n, h, d) \in 0 .. n-1
  BY <1>3, WalkInTable, Zenon
<1> QED BY <1>4, <1>5 DEF FindSlot, d

\* An entry on the path of its key is enough for map_find to succeed.
LEMMA OnPathIsFound ==
  ASSUME NEW n \in Nat, NEW t, NEW h \in 0 .. n-1, NEW s \in 0 .. n-1,
         IsLive(t[s]), OnPath(t, n, h, s)
  PROVE  Found(t, n, h, t[s].key)
<1>1. PICK d \in 0 .. n-1 : /\ Walk(n, h, d) = s
                            /\ \A c \in 0 .. d-1 : t[Walk(n, h, c)] # Null
  BY DEF OnPath
<1>2. d \in FindSteps(t, n, h, t[s].key)
  BY <1>1 DEF FindSteps
<1> QED BY <1>2 DEF Found

\* Storing anything but Null in a slot breaks no path: neither a put nor the
\* tombstone of a removal does.
LEMMA StoreKeepsPaths ==
  ASSUME NEW n \in Nat, NEW S, NEW t \in [0 .. n-1 -> S],
         NEW s \in 0 .. n-1, NEW e, e # Null,
         NEW u, u = [t EXCEPT ![s] = e],
         NEW h \in 0 .. n-1, NEW r, OnPath(t, n, h, r)
  PROVE  OnPath(u, n, h, r)
<1>1. PICK d \in 0 .. n-1 : /\ Walk(n, h, d) = r
                            /\ \A c \in 0 .. d-1 : t[Walk(n, h, c)] # Null
  BY DEF OnPath
<1>2. ASSUME NEW c \in 0 .. d-1 PROVE u[Walk(n, h, c)] # Null
  <2>1. c \in 0 .. n-1
    OBVIOUS
  <2>2. Walk(n, h, c) \in 0 .. n-1
    BY <2>1, WalkInTable, Zenon
  <2>3. t[Walk(n, h, c)] # Null
    BY <1>1
  <2> QED BY <2>2, <2>3
<1> QED BY <1>1, <1>2 DEF OnPath

\* The number of live entries of a table is a natural number, at most n.
LEMMA LiveIsFinite ==
  ASSUME NEW n \in Nat, NEW S, NEW t \in [0 .. n-1 -> S]
  PROVE  /\ IsFiniteSet(Live(t))
         /\ Cardinality(Live(t)) \in Nat
         /\ Cardinality(Live(t)) <= n
         /\ Cardinality(Live(t)) = n => Live(t) = 0 .. n-1
<1>1. Live(t) \in SUBSET (0 .. n-1)
  BY DEF Live
<1>2. IsFiniteSet(0 .. n-1) /\ Cardinality(0 .. n-1) = n
  BY FS_Interval
<1>3. /\ IsFiniteSet(Live(t))
      /\ Cardinality(Live(t)) <= Cardinality(0 .. n-1)
      /\ Cardinality(0 .. n-1) = Cardinality(Live(t)) => 0 .. n-1 = Live(t)
  BY <1>1, <1>2, FS_Subset
<1>4. Cardinality(Live(t)) \in Nat
  BY <1>3, FS_CardinalityType
<1> QED BY <1>2, <1>3, <1>4

\* A table with a slot to spare has a slot for every key.
LEMMA SpareSlotForKey ==
  ASSUME NEW n \in Nat, NEW S, NEW t \in [0 .. n-1 -> S],
         NEW h \in 0 .. n-1, NEW k, Cardinality(Live(t)) < n
  PROVE  HashSteps(t, n, h, k) # {}
<1>1. Cardinality(Live(t)) \in Nat
  BY LiveIsFinite
<1>2. Live(t) # 0 .. n-1
  <2> SUFFICES ASSUME Live(t) = 0 .. n-1 PROVE FALSE
    OBVIOUS
  <2>1. Cardinality(0 .. n-1) = n
    BY FS_Interval
  <2> QED BY <2>1, <1>1
<1>3. PICK s \in 0 .. n-1 : ~IsLive(t[s])
  BY <1>2 DEF Live
<1>4. PICK d \in 0 .. n-1 : Walk(n, h, d) = s
  BY WalkIsOnto
<1>5. d \in HashSteps(t, n, h, k)
  BY <1>3, <1>4 DEF HashSteps
<1> QED BY <1>5

\* Storing a live entry adds its slot to the live ones.
LEMMA StoreEntryCounts ==
  ASSUME NEW n \in Nat, NEW S, NEW t \in [0 .. n-1 -> S],
         NEW s \in 0 .. n-1, NEW e, IsLive(e),
         NEW u, u = [t EXCEPT ![s] = e]
  PROVE  Cardinality(Live(u)) =
           IF IsLive(t[s]) THEN Cardinality(Live(t))
           ELSE Cardinality(Live(t)) + 1
<1>1. Live(u) = Live(t) \cup {s}
  BY DEF Live
<1>2. IsFiniteSet(Live(t))
  BY LiveIsFinite
<1>3. Cardinality(Live(t) \cup {s}) =
        IF s \in Live(t) THEN Cardinality(Live(t)) ELSE Cardinality(Live(t)) + 1
  BY <1>2, FS_AddElement
<1>4. s \in Live(t) <=> IsLive(t[s])
  BY DEF Live
<1> QED BY <1>1, <1>3, <1>4, Zenon

\* Storing a tombstone in a live slot takes that slot away.
LEMMA TombstoneCounts ==
  ASSUME NEW n \in Nat, NEW S, NEW t \in [0 .. n-1 -> S],
         NEW s \in 0 .. n-1, NEW e, ~IsLive(e), IsLive(t[s]),
         NEW u, u = [t EXCEPT ![s] = e]
  PROVE  /\ Cardinality(Live(u)) = Cardinality(Live(t)) - 1
         /\ Cardinality(Live(t)) > 0
<1>1. Live(u) = Live(t) \ {s} /\ s \in Live(t)
  BY DEF Live
<1>2. IsFiniteSet(Live(t)) /\ Cardinality(Live(t)) \in Nat
  BY LiveIsFinite, Zenon
<1>3. Cardinality(Live(t) \ {s}) = Cardinality(Live(t)) - 1
  BY <1>1, <1>2, FS_RemoveElement, Zenon
<1>4. Cardinality(Live(t)) # 0
  BY <1>1, <1>2, FS_EmptySet
<1>5. Cardinality(Live(u)) = Cardinality(Live(t) \ {s})
  BY <1>1, Zenon
<1> QED BY <1>2, <1>3, <1>4, <1>5
=============================================================================
