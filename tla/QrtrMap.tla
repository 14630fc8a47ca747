------------------------------- MODULE QrtrMap -------------------------------
(***************************************************************************)
(* struct map of qrtr/src/map.c: a hash table with linear probing and      *)
(* tombstones that grows by Grow slots (256 in the code) when it is full.  *)
(* The calls of one map are sequential.  map_rehash moves the old table    *)
(* into the new one slot by slot; its loop is modelled one slot per step,  *)
(* so that its intermediate tables are states of the model.                *)
(***************************************************************************)
EXTENDS HashTable, FiniteSets

CONSTANTS
  Keys,       \* the 32-bit keys (hash_u32 values) callers use
  Items,      \* the structures callers store
  Grow,       \* slots added by a rehash
  MaxSize,    \* bound: calloc fails for a table larger than this
  Overwrite   \* TRUE when callers may put a key that is in the map

ASSUME KeysAssumption      == Keys \subseteq Nat
ASSUME GrowAssumption      == Grow \in Nat \ {0}
ASSUME MaxSizeAssumption   == MaxSize \in Nat
ASSUME OverwriteAssumption == Overwrite \in BOOLEAN
ASSUME MarkersAssumption   ==
  /\ Null # Deleted
  /\ {Null, Deleted} \cap [key : Keys, item : Items] = {}
  /\ Null \notin Items

VARIABLES
  size, count, data,   \* the three fields of struct map
  pc,                  \* "idle", or "rehash" inside map_rehash
  oldt, osize, i,      \* map_rehash's locals: old table, its size, cursor
  req,                 \* the entry map_reput is placing when it rehashes
  ret                  \* what the last call returned: rc and the item

vars == <<size, count, data, pc, oldt, osize, i, req, ret>>

Entries == [key : Keys, item : Items]
Slots   == Entries \cup {Null, Deleted}

Home(k, n) == k % n

EmptyTable(n) == [s \in 0 .. n-1 |-> Null]

Return(rc, item) == ret' = [rc |-> rc, item |-> item]

\* The item of key k in a table, as map_get returns it.
Get(t, n, k) ==
  IF n > 0 /\ Found(t, n, Home(k, n), k)
  THEN t[FindSlot(t, n, Home(k, n), k)].item
  ELSE Null

\* map_hash returns -1 (full) or -2 (no slot on the whole walk).
HashFails(k) ==
  \/ count = size
  \/ HashSteps(data, size, Home(k, size), k) = {}

\* map_hash took a slot for e.key and map_reput stored e there: count grows
\* when the slot was empty or a tombstone.
Place(e) ==
  LET s == HashSlot(data, size, Home(e.key, size), e.key)
  IN  /\ data' = [data EXCEPT ![s] = e]
      /\ count' = IF IsLive(data[s]) THEN count ELSE count + 1
      /\ size' = size

\* The item map_reput hands back: what it overwrote, NULL for a tombstone.
Overwritten(k) ==
  LET e == data[HashSlot(data, size, Home(k, size), k)]
  IN  IF IsLive(e) THEN e.item ELSE Null

-----------------------------------------------------------------------------
\* map_create.
Init ==
  /\ size = 0 /\ count = 0 /\ data = EmptyTable(0)
  /\ pc = "idle"
  /\ oldt = EmptyTable(0) /\ osize = 0 /\ i = 0
  /\ req = Null
  /\ ret = [rc |-> 0, item |-> Null]

rehashVars == <<pc, oldt, osize, i, req>>

CallerMayPut(k) == Overwrite \/ Get(data, size, k) = Null

\* map_reput (and map_put, which ignores the item handed back) when map_hash
\* finds a slot at once.
Reput(k, x) ==
  /\ pc = "idle"
  /\ CallerMayPut(k)
  /\ ~HashFails(k)
  /\ Place([key |-> k, item |-> x])
  /\ Return(0, Overwritten(k))
  /\ UNCHANGED rehashVars

\* Fault: the new table is no larger than the old one.
RehashStartSameSize(k, x) ==
  /\ pc = "idle"
  /\ CallerMayPut(k)
  /\ HashFails(k)
  /\ pc' = "rehash"
  /\ oldt' = data /\ osize' = size /\ i' = 0
  /\ size' = size /\ count' = 0 /\ data' = EmptyTable(size)
  /\ req' = [key |-> k, item |-> x]
  /\ UNCHANGED ret

\* map_reput enters map_rehash: calloc succeeds and the new table is empty.
RehashStart(k, x) ==
  /\ pc = "idle"
  /\ CallerMayPut(k)
  /\ HashFails(k)
  /\ size + Grow <= MaxSize
  /\ pc' = "rehash"
  /\ oldt' = data /\ osize' = size /\ i' = 0
  /\ size' = size + Grow /\ count' = 0 /\ data' = EmptyTable(size + Grow)
  /\ req' = [key |-> k, item |-> x]
  /\ UNCHANGED ret

\* calloc fails: map_rehash and map_reput return -1, the map is untouched.
RehashNoMemory(k) ==
  /\ pc = "idle"
  /\ CallerMayPut(k)
  /\ HashFails(k)
  /\ size + Grow > MaxSize
  /\ Return(-1, Null)
  /\ UNCHANGED <<size, count, data, rehashVars>>

\* One iteration of map_rehash's loop.  map_put inside the loop would rehash
\* again if map_hash failed; RehashHasRoom says that it never does.
RehashMove ==
  /\ pc = "rehash"
  /\ i < osize
  /\ IF IsLive(oldt[i])
     THEN ~HashFails(oldt[i].key) /\ Place(oldt[i])
     ELSE UNCHANGED <<size, count, data>>
  /\ i' = i + 1
  /\ UNCHANGED <<pc, oldt, osize, req, ret>>

\* map_rehash frees the old table and map_reput tries map_hash again.
RehashDone ==
  /\ pc = "rehash"
  /\ i = osize
  /\ ~HashFails(req.key)
  /\ Place(req)
  /\ Return(0, Overwritten(req.key))
  /\ pc' = "idle"
  /\ oldt' = EmptyTable(0) /\ osize' = 0 /\ i' = 0 /\ req' = Null

\* Fault: map_remove leaves NULL, not a tombstone.
RemoveToNull(k) ==
  /\ pc = "idle"
  /\ size > 0 /\ Found(data, size, Home(k, size), k)
  /\ data' = [data EXCEPT ![FindSlot(data, size, Home(k, size), k)] = Null]
  /\ count' = count - 1
  /\ Return(0, Null)
  /\ UNCHANGED <<size, rehashVars>>

\* map_remove of a key that is in the map, and of one that is not.
Remove(k) ==
  /\ pc = "idle"
  /\ size > 0 /\ Found(data, size, Home(k, size), k)
  /\ data' = [data EXCEPT ![FindSlot(data, size, Home(k, size), k)] = Deleted]
  /\ count' = count - 1
  /\ Return(0, Null)
  /\ UNCHANGED <<size, rehashVars>>

RemoveAbsent(k) ==
  /\ pc = "idle"
  /\ Get(data, size, k) = Null
  /\ Return(1, Null)
  /\ UNCHANGED <<size, count, data, rehashVars>>

\* map_clear: every item is released and every slot emptied.
Clear ==
  /\ pc = "idle"
  /\ data' = EmptyTable(size)
  /\ count' = 0
  /\ Return(0, Null)
  /\ UNCHANGED <<size, rehashVars>>

Next ==
  \/ \E k \in Keys, x \in Items : Reput(k, x) \/ RehashStart(k, x)
  \/ \E k \in Keys : RehashNoMemory(k) \/ Remove(k) \/ RemoveAbsent(k)
  \/ RehashMove
  \/ RehashDone
  \/ Clear

Spec == Init /\ [][Next]_vars

-----------------------------------------------------------------------------
TypeOK ==
  /\ size \in Nat /\ count \in Nat /\ data \in [0 .. size-1 -> Slots]
  /\ pc \in {"idle", "rehash"}
  /\ osize \in Nat /\ i \in Nat /\ oldt \in [0 .. osize-1 -> Slots]
  /\ req \in Entries \cup {Null}
  /\ ret \in [rc : {-1, 0, 1}, item : Items \cup {Null}]

\* map->count is the number of live entries of the table, through every
\* sequence of puts over tombstones, overwrites, removals and rehashes
\* (map_hash, map_remove, map_rehash: three places that adjust it by hand).
CountIsLive == count = Cardinality(Live(data))

\* map_rehash never needs to rehash again inside its own loop, and the retry
\* of map_reput after it always finds a slot: its `while' runs at most twice.
RehashHasRoom == pc = "rehash" => \A k \in Keys : ~HashFails(k)

\* A map that is not full always has a slot for a put: map_hash's -2 (no slot
\* on the whole walk) is dead code.
NotFullHasSlot ==
  size > count => \A k \in Keys : HashSteps(data, size, Home(k, size), k) # {}

\* No entry is ever lost to a probe: map_find reaches the key of every live
\* entry, although puts fill tombstones and removals leave them (map_remove
\* must not write NULL).
EveryEntryFound ==
  \A s \in Live(data) : Found(data, size, Home(data[s].key, size), data[s].key)

\* The dictionary the map stands for.  Inside map_rehash it is the old table.
DictOfMap ==
  [k \in Keys |-> IF pc = "idle" THEN Get(data, size, k)
                                 ELSE Get(oldt, osize, k)]

Dict == INSTANCE QrtrDict WITH dict <- DictOfMap

\* Used the way node_get uses it (a put only after map_get found nothing),
\* the map is a dictionary: probing, tombstones and rehashing are invisible,
\* return codes and returned items included.
IsDictionary == Dict!Spec
=============================================================================
