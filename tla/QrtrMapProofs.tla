---------------------------- MODULE QrtrMapProofs ----------------------------
(***************************************************************************)
(* The invariants of struct map, for every set of keys and items, every    *)
(* growth step and whatever the callers put (Overwrite or not).            *)
(***************************************************************************)
EXTENDS QrtrMap, HashTableProofs

\* Every live entry lies on the probe path of its key.
AllOnPath ==
  \A s \in Live(data) : OnPath(data, size, Home(data[s].key, size), s)

\* Inside map_rehash, the new table is larger than the old one and at most one
\* entry has been counted for each slot of the old table already visited.
RehashShape ==
  pc = "rehash" => /\ osize < size
                   /\ i <= osize
                   /\ count <= i
                   /\ req \in Entries

IInv == TypeOK /\ CountIsLive /\ AllOnPath /\ RehashShape

\* key % size is a slot.
LEMMA HomeInTable ==
  ASSUME NEW k \in Nat, NEW n \in Nat, n > 0
  PROVE  Home(k, n) \in 0 .. n-1
BY DEF Home

\* An entry is neither Null nor a tombstone; the other slots are.
LEMMA EntriesAreLive ==
  /\ \A e \in Entries : IsLive(e)
  /\ \A e \in Slots : IsLive(e) <=> e \in Entries
  /\ ~IsLive(Null) /\ ~IsLive(Deleted) /\ Deleted # Null
BY MarkersAssumption, Zenon DEF Entries, Slots, IsLive

\* An empty table has no live entry.
LEMMA EmptyHasNone ==
  ASSUME NEW n \in Nat
  PROVE  /\ EmptyTable(n) \in [0 .. n-1 -> Slots]
         /\ Live(EmptyTable(n)) = {}
         /\ Cardinality(Live(EmptyTable(n))) = 0
<1>1. EmptyTable(n) \in [0 .. n-1 -> Slots]
  BY Zenon DEF EmptyTable, Slots
<1>2. Live(EmptyTable(n)) = {}
  BY Zenon DEF EmptyTable, Live, IsLive
<1> QED BY <1>1, <1>2, FS_EmptySet, Zenon

\* What map_hash and the store after it do to the map's own fields.
LEMMA PlaceKeeps ==
  ASSUME TypeOK, CountIsLive, AllOnPath, NEW e \in Entries,
         ~HashFails(e.key), Place(e)
  PROVE  /\ size' \in Nat /\ count' \in Nat /\ data' \in [0 .. size'-1 -> Slots]
         /\ size' = size /\ count' <= count + 1
         /\ CountIsLive' /\ AllOnPath'
         /\ Overwritten(e.key) \in Items \cup {Null}
<1> DEFINE h == Home(e.key, size)
           s == HashSlot(data, size, h, e.key)
<1>1. e.key \in Nat /\ IsLive(e) /\ e # Null
  BY KeysAssumption, EntriesAreLive, Zenon DEF Entries, IsLive
<1>2. size > 0
  <2>1. size = 0 => count = 0
    <3> SUFFICES ASSUME size = 0 PROVE count = 0
      BY Zenon
    <3>1. Cardinality(Live(data)) <= size /\ Cardinality(Live(data)) \in Nat
      BY LiveIsFinite, Zenon DEF TypeOK
    <3> QED BY <3>1 DEF CountIsLive
  <2>2. count # size
    BY Zenon DEF HashFails
  <2> QED BY <2>1, <2>2 DEF TypeOK
<1>3. h \in 0 .. size-1
  BY <1>1, <1>2, HomeInTable, Zenon DEF TypeOK
<1>4. HashSteps(data, size, h, e.key) # {}
  BY Zenon DEF HashFails
<1>5. /\ s \in 0 .. size-1
      /\ OnPath(data, size, h, s)
      /\ IsLive(data[s]) => data[s].key = e.key
  BY <1>3, <1>4, HashSlotProperties DEF TypeOK
<1> HIDE DEF s
<1>6. /\ data' = [data EXCEPT ![s] = e]
      /\ count' = IF IsLive(data[s]) THEN count ELSE count + 1
      /\ size' = size
  BY Zenon DEF Place, s, h
<1>7. data' \in [0 .. size'-1 -> Slots] /\ count' \in Nat /\ count' <= count + 1
  BY <1>5, <1>6 DEF TypeOK, Slots
<1>8. CountIsLive'
  <2>0. size \in Nat /\ data \in [0 .. size-1 -> Slots]
    BY Zenon DEF TypeOK
  <2>1. Cardinality(Live(data')) =
          IF IsLive(data[s]) THEN Cardinality(Live(data))
          ELSE Cardinality(Live(data)) + 1
    BY <1>1, <1>5, <1>6, <2>0, StoreEntryCounts, Zenon
  <2> QED BY <2>1, <1>6, Zenon DEF CountIsLive
<1>9. AllOnPath'
  <2> SUFFICES ASSUME NEW r \in Live(data')
               PROVE  OnPath(data', size, Home(data'[r].key, size), r)
    BY <1>6, Zenon DEF AllOnPath
  <2>0. r \in 0 .. size-1 /\ data \in [0 .. size-1 -> Slots] /\ size \in Nat
    BY <1>6, <1>7, Zenon DEF Live, TypeOK
  <2>1. CASE r = s
    <3>1. data'[r] = e
      BY <2>0, <2>1, <1>6, Zenon
    <3>2. OnPath(data', size, h, s)
      BY <1>1, <1>3, <1>5, <1>6, <2>0, StoreKeepsPaths, Zenon
    <3> QED BY <3>1, <3>2, <2>1, <1>6, Zenon
  <2>2. CASE r # s
    <3>1. data'[r] = data[r] /\ r \in Live(data)
      BY <2>0, <2>2, <1>6, Zenon DEF Live
    <3>2. data[r].key \in Nat
      BY <2>0, <3>1, EntriesAreLive, KeysAssumption DEF Live, Entries
    <3>3. Home(data[r].key, size) \in 0 .. size-1
      BY <3>2, <1>2, <2>0, HomeInTable, Zenon
    <3>4. OnPath(data, size, Home(data[r].key, size), r)
      BY <3>1, Zenon DEF AllOnPath
    <3>5. OnPath(data', size, Home(data[r].key, size), r)
      BY <1>1, <1>5, <1>6, <2>0, <3>3, <3>4, StoreKeepsPaths, Zenon
    <3> QED BY <3>1, <3>5, <1>6, Zenon
  <2> QED BY <2>1, <2>2, Zenon
<1>10. Overwritten(e.key) \in Items \cup {Null}
  <2>1. data[s] \in Slots
    BY <1>5, Zenon DEF TypeOK
  <2> QED BY <2>1, EntriesAreLive, Zenon DEF Overwritten, Entries, s
<1> QED BY <1>6, <1>7, <1>8, <1>9, <1>10, Zenon DEF TypeOK

\* The tombstone of map_remove.
LEMMA RemoveKeeps ==
  ASSUME TypeOK, CountIsLive, AllOnPath, NEW k \in Keys, Remove(k)
  PROVE  /\ count' \in Nat /\ data' \in [0 .. size'-1 -> Slots]
         /\ CountIsLive' /\ AllOnPath'
<1> DEFINE h == Home(k, size)
           s == FindSlot(data, size, h, k)
<1>1. size > 0 /\ size \in Nat /\ k \in Nat /\ data \in [0 .. size-1 -> Slots]
  BY KeysAssumption, Zenon DEF Remove, TypeOK
<1>2. h \in 0 .. size-1
  BY <1>1, HomeInTable, Zenon
<1>3. Found(data, size, h, k)
  BY Zenon DEF Remove
<1>4. s \in 0 .. size-1 /\ IsLive(data[s])
  BY <1>1, <1>2, <1>3, FindSlotProperties, Zenon
<1> HIDE DEF s
<1>5. /\ data' = [data EXCEPT ![s] = Deleted]
      /\ count' = count - 1
      /\ size' = size
  BY Zenon DEF Remove, s, h
<1>6. /\ Cardinality(Live(data')) = Cardinality(Live(data)) - 1
      /\ Cardinality(Live(data)) > 0
  BY <1>1, <1>4, <1>5, TombstoneCounts, EntriesAreLive, Zenon
<1>7. data' \in [0 .. size'-1 -> Slots]
  BY <1>1, <1>5, Zenon DEF Slots
<1>8. count' \in Nat /\ CountIsLive'
  BY <1>5, <1>6 DEF TypeOK, CountIsLive
<1>9. AllOnPath'
  <2> SUFFICES ASSUME NEW r \in Live(data')
               PROVE  OnPath(data', size, Home(data'[r].key, size), r)
    BY <1>5, Zenon DEF AllOnPath
  <2>1. r # s
    BY <1>1, <1>4, <1>5, Zenon DEF Live, IsLive
  <2>2. r \in 0 .. size-1 /\ data'[r] = data[r] /\ r \in Live(data)
    BY <1>1, <1>5, <2>1, Zenon DEF Live
  <2>3. data[r].key \in Nat
    BY <1>1, <2>2, EntriesAreLive, KeysAssumption, Zenon DEF Live, Entries
  <2>4. Home(data[r].key, size) \in 0 .. size-1
    BY <1>1, <2>3, HomeInTable, Zenon
  <2>5. OnPath(data, size, Home(data[r].key, size), r)
    BY <2>2, Zenon DEF AllOnPath
  <2>6. OnPath(data', size, Home(data[r].key, size), r)
    BY <1>1, <1>4, <1>5, <2>4, <2>5, EntriesAreLive, StoreKeepsPaths, Zenon
  <2> QED BY <1>5, <2>2, <2>6, Zenon
<1> QED BY <1>7, <1>8, <1>9, Zenon

-----------------------------------------------------------------------------
\* map_create establishes the inductive invariant.
LEMMA InitIInv == Init => IInv
<1> SUFFICES ASSUME Init PROVE IInv
  BY Zenon
<1>1. /\ EmptyTable(0) \in [0 .. 0-1 -> Slots]
      /\ Live(EmptyTable(0)) = {}
      /\ Cardinality(Live(EmptyTable(0))) = 0
  BY EmptyHasNone, Zenon
<1> QED BY <1>1, Zenon DEF Init, IInv, TypeOK, CountIsLive, AllOnPath, RehashShape

\* Every call, and every slot of a rehash, keeps the inductive invariant.
LEMMA NextIInv == IInv /\ [Next]_vars => IInv'
<1> SUFFICES ASSUME IInv, [Next]_vars PROVE IInv'
  BY Zenon
<1> USE DEF IInv
<1>1. ASSUME NEW k \in Keys, NEW x \in Items, Reput(k, x) PROVE IInv'
  <2> DEFINE e == [key |-> k, item |-> x]
  <2>1. e \in Entries /\ e.key = k
    BY Zenon DEF Entries
  <2>2. ~HashFails(e.key) /\ Place(e)
    BY <1>1, Zenon DEF Reput
  <2>3. /\ size' \in Nat /\ count' \in Nat /\ data' \in [0 .. size'-1 -> Slots]
        /\ CountIsLive' /\ AllOnPath'
        /\ Overwritten(e.key) \in Items \cup {Null}
    BY <2>1, <2>2, PlaceKeeps, Zenon
  <2>4. UNCHANGED rehashVars /\ ret' = [rc |-> 0, item |-> Overwritten(k)] /\ pc = "idle"
    BY <1>1, Zenon DEF Reput, Return
  <2> QED BY <2>1, <2>3, <2>4, Zenon DEF TypeOK, RehashShape, rehashVars
<1>2. ASSUME NEW k \in Keys, NEW x \in Items, RehashStart(k, x) PROVE IInv'
  <2> DEFINE n == size + Grow
  <2>1. n \in Nat /\ size < n /\ size \in Nat
    BY GrowAssumption DEF TypeOK
  <2> HIDE DEF n
  <2>2. /\ EmptyTable(n) \in [0 .. n-1 -> Slots]
        /\ Live(EmptyTable(n)) = {}
        /\ Cardinality(Live(EmptyTable(n))) = 0
    BY <2>1, EmptyHasNone, Zenon
  <2>0. /\ pc' = "rehash" /\ oldt' = data /\ osize' = size /\ i' = 0
        /\ size' = n /\ count' = 0 /\ data' = EmptyTable(n)
        /\ req' = [key |-> k, item |-> x] /\ ret' = ret
    BY <1>2, Zenon DEF RehashStart, n
  <2>3. [key |-> k, item |-> x] \in Entries
    BY Zenon DEF Entries
  <2>4. TypeOK'
    BY <2>0, <2>1, <2>2, <2>3, Zenon DEF TypeOK
  <2>5. CountIsLive' /\ AllOnPath'
    BY <2>0, <2>2, Zenon DEF CountIsLive, AllOnPath
  <2>6. RehashShape'
    BY <2>0, <2>1, <2>3 DEF RehashShape
  <2> QED BY <2>4, <2>5, <2>6, Zenon
<1>3. ASSUME NEW k \in Keys, RehashNoMemory(k) PROVE IInv'
  BY <1>3, Zenon DEF RehashNoMemory, Return, rehashVars, TypeOK, CountIsLive, AllOnPath, RehashShape
<1>4. CASE RehashMove
  <2>1. CASE IsLive(oldt[i])
    <3>1. oldt[i] \in Entries
      BY <1>4, <2>1, EntriesAreLive DEF RehashMove, TypeOK
    <3>2. ~HashFails(oldt[i].key) /\ Place(oldt[i])
      BY <1>4, <2>1, Zenon DEF RehashMove
    <3>3. /\ size' \in Nat /\ count' \in Nat /\ data' \in [0 .. size'-1 -> Slots]
          /\ size' = size /\ count' <= count + 1
          /\ CountIsLive' /\ AllOnPath'
      BY <3>1, <3>2, PlaceKeeps, Zenon
    <3> QED BY <1>4, <3>3 DEF RehashMove, TypeOK, RehashShape
  <2>2. CASE ~IsLive(oldt[i])
    BY <1>4, <2>2 DEF RehashMove, TypeOK, CountIsLive, AllOnPath, RehashShape
  <2> QED BY <2>1, <2>2, Zenon
<1>5. CASE RehashDone
  <2>1. req \in Entries
    BY <1>5, Zenon DEF RehashDone, RehashShape
  <2>2. ~HashFails(req.key) /\ Place(req)
    BY <1>5, Zenon DEF RehashDone
  <2>3. /\ size' \in Nat /\ count' \in Nat /\ data' \in [0 .. size'-1 -> Slots]
        /\ CountIsLive' /\ AllOnPath'
        /\ Overwritten(req.key) \in Items \cup {Null}
    BY <2>1, <2>2, PlaceKeeps, Zenon
  <2>4. EmptyTable(0) \in [0 .. 0-1 -> Slots]
    BY EmptyHasNone, Zenon
  <2> QED BY <1>5, <2>3, <2>4, Zenon DEF RehashDone, Return, TypeOK, RehashShape
<1>6. ASSUME NEW k \in Keys, Remove(k) PROVE IInv'
  <2>1. /\ count' \in Nat /\ data' \in [0 .. size'-1 -> Slots]
        /\ CountIsLive' /\ AllOnPath'
    BY <1>6, RemoveKeeps, Zenon
  <2> QED BY <1>6, <2>1, Zenon DEF Remove, Return, rehashVars, TypeOK, RehashShape
<1>7. ASSUME NEW k \in Keys, RemoveAbsent(k) PROVE IInv'
  BY <1>7, Zenon DEF RemoveAbsent, Return, rehashVars, TypeOK, CountIsLive, AllOnPath, RehashShape
<1>8. CASE Clear
  <2>1. /\ EmptyTable(size) \in [0 .. size - 1 -> Slots]
        /\ Live(EmptyTable(size)) = {}
        /\ Cardinality(Live(EmptyTable(size))) = 0
    BY EmptyHasNone, Zenon DEF TypeOK
  <2> QED BY <1>8, <2>1, Zenon DEF Clear, Return, rehashVars, TypeOK, CountIsLive, AllOnPath, RehashShape
<1>9. CASE UNCHANGED vars
  BY <1>9, Zenon DEF vars, TypeOK, CountIsLive, AllOnPath, RehashShape, HashFails
<1> QED BY <1>1, <1>2, <1>3, <1>4, <1>5, <1>6, <1>7, <1>8, <1>9, Zenon DEF Next

\* The invariant of the map, from map_create on.
THEOREM MapInvariant == Spec => []IInv
BY InitIInv, NextIInv, PTL DEF Spec

-----------------------------------------------------------------------------
\* TypeOK holds of every behaviour of the map.
THEOREM MapTypeOK == Spec => []TypeOK
<1>1. IInv => TypeOK
  BY Zenon DEF IInv
<1> QED BY <1>1, MapInvariant, PTL

\* map->count is exact: CountIsLive for every table size and call sequence.
THEOREM MapCountIsLive == Spec => []CountIsLive
<1>1. IInv => CountIsLive
  BY Zenon DEF IInv
<1> QED BY <1>1, MapInvariant, PTL

\* A map that is not full has a slot for every key, so map_hash never
\* returns -2.
THEOREM MapNotFullHasSlot == Spec => []NotFullHasSlot
<1>1. IInv => NotFullHasSlot
  <2> SUFFICES ASSUME IInv, size > count, NEW k \in Keys
               PROVE  HashSteps(data, size, Home(k, size), k) # {}
    BY Zenon DEF NotFullHasSlot
  <2>1. size \in Nat /\ size > 0 /\ data \in [0 .. size-1 -> Slots] /\ k \in Nat
    BY KeysAssumption DEF IInv, TypeOK
  <2>2. Home(k, size) \in 0 .. size-1
    BY <2>1, HomeInTable, Zenon
  <2>3. Cardinality(Live(data)) < size
    BY Zenon DEF IInv, TypeOK, CountIsLive
  <2> QED BY <2>1, <2>2, <2>3, SpareSlotForKey, Zenon
<1> QED BY <1>1, MapInvariant, PTL

\* map_rehash never rehashes inside its loop and the put that caused it
\* succeeds.
THEOREM MapRehashHasRoom == Spec => []RehashHasRoom
<1>1. IInv => RehashHasRoom
  <2> SUFFICES ASSUME IInv, pc = "rehash", NEW k \in Keys
               PROVE  ~HashFails(k)
    BY Zenon DEF RehashHasRoom
  <2>1. count < size /\ count \in Nat /\ size \in Nat /\ data \in [0 .. size-1 -> Slots]
    BY DEF IInv, TypeOK, RehashShape
  <2>2. k \in Nat /\ size > 0
    BY <2>1, KeysAssumption
  <2>3. Home(k, size) \in 0 .. size-1
    BY <2>1, <2>2, HomeInTable, Zenon
  <2>4. Cardinality(Live(data)) < size
    BY <2>1, Zenon DEF IInv, CountIsLive
  <2>5. HashSteps(data, size, Home(k, size), k) # {}
    BY <2>1, <2>3, <2>4, SpareSlotForKey, Zenon
  <2> QED BY <2>1, <2>5 DEF HashFails
<1> QED BY <1>1, MapInvariant, PTL

\* map_find reaches the key of every entry of the table.
THEOREM MapEveryEntryFound == Spec => []EveryEntryFound
<1>1. IInv => EveryEntryFound
  <2> SUFFICES ASSUME IInv, NEW s \in Live(data)
               PROVE  Found(data, size, Home(data[s].key, size), data[s].key)
    BY Zenon DEF EveryEntryFound
  <2>1. size \in Nat /\ data \in [0 .. size-1 -> Slots]
    BY Zenon DEF IInv, TypeOK
  <2>2. s \in 0 .. size-1 /\ IsLive(data[s]) /\ size > 0
    BY <2>1 DEF Live
  <2>3. data[s].key \in Nat
    BY <2>1, <2>2, EntriesAreLive, KeysAssumption, Zenon DEF Entries
  <2>4. Home(data[s].key, size) \in 0 .. size-1
    BY <2>1, <2>2, <2>3, HomeInTable, Zenon
  <2>5. OnPath(data, size, Home(data[s].key, size), s)
    BY Zenon DEF IInv, AllOnPath
  <2> QED BY <2>1, <2>2, <2>4, <2>5, OnPathIsFound, Zenon
<1> QED BY <1>1, MapInvariant, PTL

-----------------------------------------------------------------------------
(* The map as a dictionary, where callers put only keys map_get does not    *)
(* find: `Overwrite = FALSE'.                                              *)

\* The entries of a table, wherever they lie.
Contents(t) == {t[s] : s \in Live(t)}

\* A table of n slots in which map_find can reach every entry, and no key is
\* held twice.
Sound(t, n) ==
  /\ n \in Nat
  /\ t \in [0 .. n-1 -> Slots]
  /\ \A s \in Live(t) : OnPath(t, n, Home(t[s].key, n), s)
  /\ \A s, r \in Live(t) : t[s].key = t[r].key => s = r

\* Inside map_rehash, the new table holds exactly what the loop has passed of
\* the old one, and the key that is being put is in neither.
Moving ==
  pc = "rehash" =>
    /\ Sound(oldt, osize)
    /\ Contents(data) = {oldt[s] : s \in {r \in Live(oldt) : r < i}}
    /\ \A s \in Live(oldt) : oldt[s].key # req.key

DInv == Sound(data, size) /\ Moving

\* What map_get returns depends only on the entries of a sound table: the item
\* stored with the key, Null if there is none.
LEMMA GetByContents ==
  ASSUME NEW t, NEW n, Sound(t, n), NEW k \in Keys
  PROVE  /\ \A e \in Contents(t) : e.key = k => Get(t, n, k) = e.item
         /\ (\A e \in Contents(t) : e.key # k) => Get(t, n, k) = Null
         /\ Get(t, n, k) = Null => \A e \in Contents(t) : e.key # k
         /\ Contents(t) \subseteq Entries
<1>0. n \in Nat /\ t \in [0 .. n-1 -> Slots] /\ k \in Nat
  BY KeysAssumption, Zenon DEF Sound
<1>1. n > 0 => Home(k, n) \in 0 .. n-1
  BY <1>0, HomeInTable, Zenon
<1>2. Contents(t) \subseteq Entries
  BY <1>0, EntriesAreLive, Zenon DEF Contents, Live
<1>3. ASSUME NEW e \in Contents(t), e.key = k PROVE Get(t, n, k) = e.item
  <2>1. PICK s \in Live(t) : e = t[s]
    BY <1>3, Zenon DEF Contents
  <2>2. s \in 0 .. n-1 /\ IsLive(t[s]) /\ n > 0
    BY <1>0, <2>1 DEF Live
  <2>3. OnPath(t, n, Home(k, n), s)
    BY <1>3, <2>1, Zenon DEF Sound
  <2>4. Found(t, n, Home(k, n), k)
    BY <1>0, <1>1, <1>3, <2>1, <2>2, <2>3, OnPathIsFound, Zenon
  <2> DEFINE f == FindSlot(t, n, Home(k, n), k)
  <2>5. f \in 0 .. n-1 /\ IsLive(t[f]) /\ t[f].key = k
    BY <1>0, <1>1, <2>2, <2>4, FindSlotProperties
  <2>6. Get(t, n, k) = t[f].item
    BY <2>2, <2>4, Zenon DEF Get
  <2> HIDE DEF f
  <2>7. f \in Live(t)
    BY <1>0, <2>5, Zenon DEF Live
  <2>8. f = s
    BY <1>3, <2>1, <2>5, <2>7, Zenon DEF Sound
  <2> QED BY <2>1, <2>6, <2>8, Zenon
<1>4. ASSUME \A e \in Contents(t) : e.key # k PROVE Get(t, n, k) = Null
  <2> SUFFICES ASSUME n > 0, Found(t, n, Home(k, n), k) PROVE FALSE
    BY Zenon DEF Get
  <2> DEFINE f == FindSlot(t, n, Home(k, n), k)
  <2>1. f \in 0 .. n-1 /\ IsLive(t[f]) /\ t[f].key = k
    BY <1>0, <1>1, FindSlotProperties
  <2> HIDE DEF f
  <2>2. t[f] \in Contents(t)
    BY <1>0, <2>1, Zenon DEF Contents, Live
  <2> QED BY <1>4, <2>1, <2>2, Zenon
<1>5. ASSUME Get(t, n, k) = Null, NEW e \in Contents(t), e.key = k PROVE FALSE
  <2>1. e.item \in Items /\ Get(t, n, k) = e.item
    BY <1>2, <1>3, <1>5, Zenon DEF Entries
  <2> QED BY <1>5, <2>1, MarkersAssumption, Zenon
<1> QED BY <1>2, <1>3, <1>4, <1>5, Zenon

\* A put of a key the table does not hold adds that entry to its contents,
\* hands nothing back and keeps the table sound.
LEMMA PlaceAdds ==
  ASSUME IInv, Sound(data, size), NEW e \in Entries, ~HashFails(e.key), Place(e),
         \A c \in Contents(data) : c.key # e.key
  PROVE  /\ Contents(data') = Contents(data) \cup {e}
         /\ Sound(data', size')
         /\ Overwritten(e.key) = Null
<1> DEFINE h == Home(e.key, size)
           s == HashSlot(data, size, h, e.key)
<1>1. /\ size \in Nat /\ data \in [0 .. size-1 -> Slots] /\ e.key \in Nat
      /\ IsLive(e) /\ e \in Slots
  BY KeysAssumption, EntriesAreLive, Zenon DEF Sound, Entries, Slots
<1>2. /\ size' \in Nat /\ data' \in [0 .. size'-1 -> Slots]
      /\ size' = size /\ AllOnPath'
  BY PlaceKeeps, Zenon DEF IInv
<1>3. size > 0
  <2>1. size = 0 => count = 0
    <3> SUFFICES ASSUME size = 0 PROVE count = 0
      BY Zenon
    <3>1. Cardinality(Live(data)) <= size /\ Cardinality(Live(data)) \in Nat
      BY <1>1, LiveIsFinite, Zenon
    <3> QED BY <3>1 DEF IInv, CountIsLive
  <2>2. count # size
    BY Zenon DEF HashFails
  <2> QED BY <1>1, <2>1, <2>2
<1>4. h \in 0 .. size-1
  BY <1>1, <1>3, HomeInTable, Zenon
<1>5. s \in 0 .. size-1 /\ (IsLive(data[s]) => data[s].key = e.key)
  BY <1>1, <1>4, HashSlotProperties, Zenon DEF HashFails
<1>6. data' = [data EXCEPT ![s] = e]
  BY Zenon DEF Place
<1>7. Overwritten(e.key) = IF IsLive(data[s]) THEN data[s].item ELSE Null
  BY Zenon DEF Overwritten
<1> HIDE DEF s
<1>8. ~IsLive(data[s])
  <2>1. IsLive(data[s]) => data[s] \in Contents(data)
    BY <1>1, <1>5, Zenon DEF Contents, Live
  <2> QED BY <1>5, <2>1, Zenon
<1>9. /\ data'[s] = e /\ s \in Live(data') /\ s \notin Live(data)
      /\ \A r \in Live(data) : r \in Live(data') /\ data'[r] = data[r]
      /\ \A r \in Live(data') : r = s \/ (r \in Live(data) /\ data'[r] = data[r])
  BY <1>1, <1>5, <1>6, <1>8, Zenon DEF Live
<1>10. Contents(data') = Contents(data) \cup {e}
  <2>1. \A c \in Contents(data') : c \in Contents(data) \cup {e}
    BY <1>9, Zenon DEF Contents
  <2>2. \A c \in Contents(data) \cup {e} : c \in Contents(data')
    BY <1>9, Zenon DEF Contents
  <2> QED BY <2>1, <2>2, Zenon
<1>11. \A r, q \in Live(data') : data'[r].key = data'[q].key => r = q
  <2>1. \A r \in Live(data) : data[r].key # e.key
    BY Zenon DEF Contents
  <2> QED BY <1>9, <2>1, Zenon DEF Sound
<1>12. Sound(data', size')
  BY <1>2, <1>11, Zenon DEF Sound, AllOnPath
<1> QED BY <1>7, <1>8, <1>10, <1>12, Zenon

\* map_remove takes the entry of the key from the contents.
LEMMA RemoveTakes ==
  ASSUME IInv, Sound(data, size), NEW k \in Keys, Remove(k)
  PROVE  /\ Contents(data') = {e \in Contents(data) : e.key # k}
         /\ Sound(data', size')
<1> DEFINE h == Home(k, size)
           s == FindSlot(data, size, h, k)
<1>1. size > 0 /\ size \in Nat /\ k \in Nat /\ data \in [0 .. size-1 -> Slots]
  BY KeysAssumption, Zenon DEF Remove, Sound
<1>2. h \in 0 .. size-1
  BY <1>1, HomeInTable, Zenon
<1>3. s \in 0 .. size-1 /\ IsLive(data[s]) /\ data[s].key = k
  BY <1>1, <1>2, FindSlotProperties DEF Remove
<1>4. data' = [data EXCEPT ![s] = Deleted] /\ size' = size
  BY Zenon DEF Remove
<1>5. data' \in [0 .. size'-1 -> Slots] /\ AllOnPath'
  BY RemoveKeeps, Zenon DEF IInv
<1> HIDE DEF s
<1>6. /\ s \in Live(data)
      /\ \A r \in Live(data') : r \in Live(data) /\ data'[r] = data[r] /\ r # s
      /\ \A r \in Live(data) : r # s => r \in Live(data') /\ data'[r] = data[r]
  BY <1>1, <1>3, <1>4, EntriesAreLive, Zenon DEF Live
<1>7. \A r \in Live(data) : data[r].key = k => r = s
  BY <1>3, <1>6, Zenon DEF Sound
<1>8. Contents(data') = {e \in Contents(data) : e.key # k}
  <2>1. \A c \in Contents(data') : c \in Contents(data) /\ c.key # k
    BY <1>6, <1>7, Zenon DEF Contents
  <2>2. \A c \in Contents(data) : c.key # k => c \in Contents(data')
    BY <1>3, <1>6, Zenon DEF Contents
  <2> QED BY <2>1, <2>2, Zenon
<1>9. \A r, q \in Live(data') : data'[r].key = data'[q].key => r = q
  BY <1>6, Zenon DEF Sound
<1>10. size' \in Nat
  BY <1>1, <1>4, Zenon
<1>11. Sound(data', size')
  BY <1>5, <1>9, <1>10, Zenon DEF Sound, AllOnPath
<1> QED BY <1>8, <1>11, Zenon

\* An empty table is sound and holds nothing.
LEMMA EmptyIsSound ==
  ASSUME NEW n \in Nat
  PROVE  Sound(EmptyTable(n), n) /\ Contents(EmptyTable(n)) = {}
<1>1. EmptyTable(n) \in [0 .. n-1 -> Slots] /\ Live(EmptyTable(n)) = {}
  BY EmptyHasNone, Zenon
<1> QED BY <1>1, Zenon DEF Sound, Contents

\* Every call, and every slot of a rehash, keeps the tables sound.
LEMMA NextDInv ==
  ASSUME Overwrite = FALSE, IInv, DInv, [Next]_vars
  PROVE  DInv'
<1>0. size \in Nat /\ size + Grow \in Nat
  BY GrowAssumption DEF IInv, TypeOK
<1>1. ASSUME NEW k \in Keys, NEW x \in Items, Reput(k, x) PROVE DInv'
  <2> DEFINE e == [key |-> k, item |-> x]
  <2>1. e \in Entries /\ e.key = k
    BY Zenon DEF Entries
  <2>2. \A c \in Contents(data) : c.key # k
    BY <1>1, GetByContents DEF Reput, CallerMayPut, DInv
  <2>3. ~HashFails(e.key) /\ Place(e) /\ pc' = "idle"
    BY <1>1, Zenon DEF Reput, rehashVars
  <2> HIDE DEF e
  <2>4. Sound(data', size')
    BY <2>1, <2>2, <2>3, PlaceAdds, Zenon DEF DInv
  <2> QED BY <2>3, <2>4, Zenon DEF DInv, Moving
<1>2. ASSUME NEW k \in Keys, NEW x \in Items, RehashStart(k, x) PROVE DInv'
  <2>1. Sound(EmptyTable(size + Grow), size + Grow) /\ Contents(EmptyTable(size + Grow)) = {}
    BY <1>0, EmptyIsSound, Zenon
  <2>2. \A c \in Contents(data) : c.key # k
    BY <1>2, GetByContents DEF RehashStart, CallerMayPut, DInv
  <2>3. /\ oldt' = data /\ osize' = size /\ i' = 0 /\ size' = size + Grow
        /\ data' = EmptyTable(size + Grow) /\ req' = [key |-> k, item |-> x]
    BY <1>2, Zenon DEF RehashStart
  <2>4. Contents(data') = {oldt'[s] : s \in {r \in Live(oldt') : r < i'}}
    <3>1. \A r \in Live(data) : ~(r < 0)
      BY DEF DInv, Sound, Live
    <3> QED BY <2>1, <2>3, <3>1, Zenon
  <2>5. \A s \in Live(oldt') : oldt'[s].key # req'.key
    BY <2>2, <2>3, Zenon DEF Contents
  <2> QED BY <2>1, <2>3, <2>4, <2>5, Zenon DEF DInv, Moving
<1>3. CASE RehashMove
  <2>0. /\ pc = "rehash" /\ i < osize /\ pc' = pc /\ oldt' = oldt /\ osize' = osize
        /\ req' = req /\ i' = i + 1 /\ i \in Nat /\ i \in 0 .. osize-1
        /\ oldt \in [0 .. osize-1 -> Slots] /\ osize \in Nat
    BY <1>3 DEF RehashMove, IInv, TypeOK
  <2>1. /\ Sound(oldt, osize) /\ Sound(data, size)
        /\ Contents(data) = {oldt[s] : s \in {r \in Live(oldt) : r < i}}
        /\ \A s \in Live(oldt) : oldt[s].key # req.key
    BY <2>0, Zenon DEF DInv, Moving
  <2>2. \A r \in Live(oldt) : r \in Nat
    BY <2>0 DEF Live
  <2>3. CASE IsLive(oldt[i])
    <3> DEFINE e == oldt[i]
    <3>1. e \in Entries /\ i \in Live(oldt)
      BY <2>0, <2>3, EntriesAreLive, Zenon DEF Live
    <3>2. ~HashFails(e.key) /\ Place(e)
      BY <1>3, <2>3, Zenon DEF RehashMove
    <3>3. \A c \in Contents(data) : c.key # e.key
      <4> SUFFICES ASSUME NEW s \in Live(oldt), s < i, oldt[s].key = e.key PROVE FALSE
        BY <2>1, Zenon
      <4>1. s = i
        BY <2>1, <3>1, Zenon DEF Sound
      <4> QED BY <2>0, <4>1
    <3> HIDE DEF e
    <3>4. Contents(data') = Contents(data) \cup {e} /\ Sound(data', size')
      BY <2>1, <3>1, <3>2, <3>3, PlaceAdds, Zenon
    <3> USE DEF e
    <3>5. {oldt[s] : s \in {r \in Live(oldt) : r < i + 1}} =
            {oldt[s] : s \in {r \in Live(oldt) : r < i}} \cup {oldt[i]}
      <4>1. \A r \in Live(oldt) : r < i + 1 <=> (r < i \/ r = i)
        BY <2>0, <2>2
      <4> QED BY <3>1, <4>1, Zenon
    <3> QED BY <2>0, <2>1, <3>4, <3>5, Zenon DEF DInv, Moving
  <2>4. CASE ~IsLive(oldt[i])
    <3>1. data' = data /\ size' = size
      BY <1>3, <2>4, Zenon DEF RehashMove
    <3>2. \A r \in Live(oldt) : r < i + 1 <=> r < i
      <4>1. i \notin Live(oldt)
        BY <2>4, Zenon DEF Live
      <4> QED BY <2>0, <2>2, <4>1
    <3>3. {oldt[s] : s \in {r \in Live(oldt) : r < i + 1}} =
            {oldt[s] : s \in {r \in Live(oldt) : r < i}}
      BY <3>2, Zenon
    <3> QED BY <2>0, <2>1, <3>1, <3>3, Zenon DEF DInv, Moving
  <2> QED BY <2>3, <2>4, Zenon
<1>4. CASE RehashDone
  <2>1. /\ pc = "rehash" /\ i = osize /\ pc' = "idle" /\ ~HashFails(req.key) /\ Place(req)
        /\ req \in Entries
    BY <1>4, Zenon DEF RehashDone, IInv, RehashShape
  <2>2. \A c \in Contents(data) : c.key # req.key
    BY <2>1, Zenon DEF DInv, Moving
  <2>3. Sound(data', size')
    BY <2>1, <2>2, PlaceAdds, Zenon DEF DInv
  <2> QED BY <2>1, <2>3, Zenon DEF DInv, Moving
<1>5. ASSUME NEW k \in Keys, Remove(k) PROVE DInv'
  <2>1. Sound(data', size')
    BY <1>5, RemoveTakes, Zenon DEF DInv
  <2> QED BY <1>5, <2>1, Zenon DEF Remove, rehashVars, DInv, Moving
<1>6. CASE Clear
  <2>1. Sound(EmptyTable(size), size)
    BY <1>0, EmptyIsSound, Zenon
  <2> QED BY <1>6, <2>1, Zenon DEF Clear, rehashVars, DInv, Moving
<1>7. CASE UNCHANGED <<size, data, pc, oldt, osize, i, req>>
  BY <1>7 DEF DInv, Moving, Sound
<1> QED BY <1>1, <1>2, <1>3, <1>4, <1>5, <1>6, <1>7, Zenon
        DEF Next, RehashNoMemory, RemoveAbsent, rehashVars, vars

\* Used the way node_get uses it, the map keeps its tables sound through every
\* put, removal and rehash.
THEOREM MapSound == ASSUME Overwrite = FALSE PROVE Spec => []DInv
<1>1. Init => DInv
  BY EmptyIsSound, Zenon DEF Init, DInv, Moving
<1>2. IInv /\ DInv /\ [Next]_vars => DInv'
  BY NextDInv, Zenon
<1> QED BY <1>1, <1>2, MapInvariant, PTL DEF Spec

\* The dictionary of a table with one more entry, of a key that was absent, is
\* the old one with that item.
LEMMA GetAfterPut ==
  ASSUME NEW t, NEW n, NEW u, NEW m, Sound(t, n), Sound(u, m), NEW e \in Entries,
         \A c \in Contents(t) : c.key # e.key, Contents(u) = Contents(t) \cup {e}
  PROVE  \A k \in Keys : Get(u, m, k) = IF k = e.key THEN e.item ELSE Get(t, n, k)
<1> SUFFICES ASSUME NEW k \in Keys
             PROVE  Get(u, m, k) = IF k = e.key THEN e.item ELSE Get(t, n, k)
  BY Zenon
<1>1. CASE k = e.key
  BY <1>1, GetByContents
<1>2. CASE k # e.key
  <2>1. CASE \E c \in Contents(t) : c.key = k
    BY <1>2, <2>1, GetByContents
  <2>2. CASE \A c \in Contents(t) : c.key # k
    BY <1>2, <2>2, GetByContents
  <2> QED BY <1>2, <2>1, <2>2, Zenon
<1> QED BY <1>1, <1>2, Zenon

\* A call that puts e into the tables' contents is a Put of the dictionary.
LEMMA PutIsPut ==
  ASSUME IInv, DInv, NEW e \in Entries, ~HashFails(e.key), Place(e),
         \A c \in Contents(data) : c.key # e.key,
         NEW t, NEW n, Sound(t, n), Contents(t) = Contents(data),
         DictOfMap = [k \in Keys |-> Get(t, n, k)], pc' = "idle",
         Return(0, Overwritten(e.key))
  PROVE  Dict!Put(e.key, e.item)
<1>0. e.key \in Keys /\ e.item \in Items
  BY Zenon DEF Entries
<1>1. /\ Contents(data') = Contents(data) \cup {e} /\ Sound(data', size')
      /\ Overwritten(e.key) = Null
  BY PlaceAdds, Zenon DEF DInv
<1>2. \A k \in Keys : Get(data', size', k) = IF k = e.key THEN e.item ELSE Get(t, n, k)
  BY <1>1, GetAfterPut, SMTT(20)
<1>3. DictOfMap' = [k \in Keys |-> Get(data', size', k)]
  BY Zenon DEF DictOfMap
<1>4. DictOfMap' = [DictOfMap EXCEPT ![e.key] = e.item]
  BY <1>2, <1>3, Zenon
<1>5. DictOfMap[e.key] = Null
  BY <1>0, GetByContents, Zenon
<1> QED BY <1>1, <1>4, <1>5, Zenon DEF Dict!Put, Dict!Return, Return

\* Every step of the map is a step of the dictionary or leaves it as it is.
LEMMA NextIsDictNext ==
  ASSUME Overwrite = FALSE, IInv, DInv, [Next]_vars
  PROVE  [Dict!Next]_(Dict!vars)
<1>0. size \in Nat
  BY Zenon DEF IInv, TypeOK
<1>1. ASSUME NEW k \in Keys, NEW x \in Items, Reput(k, x) PROVE Dict!Put(k, x)
  <2> DEFINE e == [key |-> k, item |-> x]
  <2>1. e \in Entries /\ e.key = k /\ e.item = x
    BY Zenon DEF Entries
  <2>2. \A c \in Contents(data) : c.key # k
    BY <1>1, GetByContents DEF Reput, CallerMayPut, DInv
  <2>3. ~HashFails(k) /\ Place(e) /\ pc = "idle" /\ pc' = "idle" /\ Return(0, Overwritten(k))
    BY <1>1, Zenon DEF Reput, rehashVars
  <2> HIDE DEF e
  <2>4. DictOfMap = [c \in Keys |-> Get(data, size, c)]
    BY <2>3, Zenon DEF DictOfMap
  <2> QED BY <2>1, <2>2, <2>3, <2>4, PutIsPut, Zenon DEF DInv
<1>2. ASSUME NEW k \in Keys, NEW x \in Items, RehashStart(k, x) PROVE UNCHANGED Dict!vars
  <2>1. DictOfMap = [c \in Keys |-> Get(data, size, c)]
    BY <1>2, Zenon DEF RehashStart, DictOfMap
  <2>2. DictOfMap' = [c \in Keys |-> Get(data, size, c)]
    BY <1>2, Zenon DEF RehashStart, DictOfMap
  <2> QED BY <1>2, <2>1, <2>2, Zenon DEF RehashStart, Dict!vars
<1>3. ASSUME NEW k \in Keys, RehashNoMemory(k) PROVE Dict!PutFails
  <2>1. DictOfMap' = DictOfMap
    BY <1>3, Zenon DEF RehashNoMemory, rehashVars, DictOfMap
  <2> QED BY <1>3, <2>1, Zenon DEF RehashNoMemory, Return, Dict!PutFails, Dict!Return
<1>4. CASE RehashMove
  <2>1. DictOfMap' = DictOfMap
    BY <1>4, Zenon DEF RehashMove, DictOfMap
  <2> QED BY <1>4, <2>1, Zenon DEF RehashMove, Dict!vars
<1>5. CASE RehashDone
  <2>1. /\ pc = "rehash" /\ i = osize /\ pc' = "idle" /\ ~HashFails(req.key) /\ Place(req)
        /\ req \in Entries /\ Return(0, Overwritten(req.key))
    BY <1>5, Zenon DEF RehashDone, IInv, RehashShape
  <2>2. /\ Sound(oldt, osize)
        /\ Contents(data) = {oldt[s] : s \in {r \in Live(oldt) : r < i}}
        /\ \A s \in Live(oldt) : oldt[s].key # req.key
    BY <2>1, Zenon DEF DInv, Moving
  <2>3. \A r \in Live(oldt) : r < i
    BY <2>1, <2>2 DEF Sound, Live
  <2>4. Contents(oldt) = Contents(data)
    BY <2>2, <2>3, Zenon DEF Contents
  <2>5. \A c \in Contents(data) : c.key # req.key
    BY <2>2, Zenon
  <2>6. DictOfMap = [k \in Keys |-> Get(oldt, osize, k)]
    BY <2>1, Zenon DEF DictOfMap
  <2>7. Dict!Put(req.key, req.item)
    BY <2>1, <2>2, <2>4, <2>5, <2>6, PutIsPut, Zenon
  <2>8. req.key \in Keys /\ req.item \in Items
    BY <2>1, Zenon DEF Entries
  <2> QED BY <2>7, <2>8, Zenon DEF Dict!Next
<1>6. ASSUME NEW k \in Keys, Remove(k) PROVE Dict!Remove(k)
  <2>1. Contents(data') = {e \in Contents(data) : e.key # k} /\ Sound(data', size')
    BY <1>6, RemoveTakes, Zenon DEF DInv
  <2>2. \A c \in Keys : Get(data', size', c) = IF c = k THEN Null ELSE Get(data, size, c)
    <3> SUFFICES ASSUME NEW c \in Keys
                 PROVE  Get(data', size', c) = IF c = k THEN Null ELSE Get(data, size, c)
      BY Zenon
    <3>1. CASE \E e \in Contents(data') : e.key = c
      BY <2>1, <3>1, GetByContents DEF DInv
    <3>2. CASE \A e \in Contents(data') : e.key # c
      BY <2>1, <3>2, GetByContents DEF DInv
    <3> QED BY <3>1, <3>2, Zenon
  <2>3. pc = "idle" /\ pc' = "idle" /\ ret' = [rc |-> 0, item |-> Null]
    BY <1>6, Zenon DEF Remove, rehashVars, Return
  <2>4. /\ DictOfMap = [c \in Keys |-> Get(data, size, c)]
        /\ DictOfMap' = [c \in Keys |-> Get(data', size', c)]
    BY <2>3, Zenon DEF DictOfMap
  <2>5. DictOfMap' = [DictOfMap EXCEPT ![k] = Null]
    BY <2>2, <2>4, Zenon
  <2>6. DictOfMap[k] # Null
    <3> DEFINE h == Home(k, size)
               s == FindSlot(data, size, h, k)
    <3>1. /\ size > 0 /\ size \in Nat /\ k \in Nat /\ data \in [0 .. size-1 -> Slots]
          /\ Found(data, size, h, k)
      BY <1>6, KeysAssumption, Zenon DEF Remove, DInv, Sound
    <3>2. h \in 0 .. size-1
      BY <3>1, HomeInTable, Zenon
    <3>3. s \in 0 .. size-1 /\ IsLive(data[s]) /\ data[s].key = k
      BY <3>1, <3>2, FindSlotProperties
    <3> HIDE DEF s
    <3>4. data[s] \in Contents(data)
      BY <3>1, <3>3, Zenon DEF Contents, Live
    <3> QED BY <2>4, <3>3, <3>4, GetByContents DEF DInv
  <2> QED BY <2>3, <2>5, <2>6, Zenon DEF Dict!Remove, Dict!Return
<1>7. ASSUME NEW k \in Keys, RemoveAbsent(k) PROVE Dict!Remove(k)
  <2>1. DictOfMap = [c \in Keys |-> Get(data, size, c)] /\ Get(data, size, k) = Null
    BY <1>7, Zenon DEF RemoveAbsent, DictOfMap
  <2>2. DictOfMap' = DictOfMap
    BY <1>7, Zenon DEF RemoveAbsent, rehashVars, DictOfMap
  <2>3. DictOfMap[k] = Null /\ DictOfMap' = [DictOfMap EXCEPT ![k] = Null]
    BY <2>1, <2>2, Zenon
  <2>4. ret' = [rc |-> 1, item |-> Null]
    BY <1>7, Zenon DEF RemoveAbsent, Return
  <2> QED BY <2>3, <2>4, Zenon DEF Dict!Remove, Dict!Return
<1>8. CASE Clear
  <2>1. Sound(EmptyTable(size), size) /\ Contents(EmptyTable(size)) = {}
    BY <1>0, EmptyIsSound, Zenon
  <2>2. \A k \in Keys : Get(EmptyTable(size), size, k) = Null
    BY <2>1, GetByContents, Zenon
  <2>3. DictOfMap' = [k \in Keys |-> Get(EmptyTable(size), size, k)]
    BY <1>8, Zenon DEF Clear, rehashVars, DictOfMap
  <2>4. DictOfMap' = [k \in Keys |-> Null]
    BY <2>2, <2>3, Zenon
  <2>5. Dict!Clear
    BY <1>8, <2>4, Zenon DEF Clear, Return, Dict!Clear, Dict!Return
  <2> QED BY <2>5, Zenon DEF Dict!Next
<1>9. CASE UNCHANGED vars
  BY <1>9, Zenon DEF vars, DictOfMap, Dict!vars
<1> QED BY <1>1, <1>2, <1>3, <1>4, <1>5, <1>6, <1>7, <1>8, <1>9, Zenon DEF Next, Dict!Next

\* Used the way node_get uses it, struct map implements a dictionary: probing,
\* tombstones and rehashing are invisible to its callers, return codes and
\* returned items included, for every set of keys, growth and memory limit.
THEOREM MapIsDictionary == ASSUME Overwrite = FALSE PROVE Spec => IsDictionary
<1>1. Init => Dict!Init
  BY DEF Init, Dict!Init, DictOfMap, Get
<1>2. IInv /\ DInv /\ [Next]_vars => [Dict!Next]_(Dict!vars)
  BY NextIsDictNext, Zenon
<1> QED BY <1>1, <1>2, MapInvariant, MapSound, PTL DEF Spec, IsDictionary, Dict!Spec
=============================================================================
