------------------------------ MODULE HashTable ------------------------------
(***************************************************************************)
(* The open-addressing table under qrtr's struct map (qrtr/src/map.c).     *)
(*                                                                         *)
(* A table t of n slots is a function on 0 .. n-1.  A slot holds Null, the *)
(* tombstone Deleted, or an entry [key, item]: the map_item's key and the  *)
(* structure the map_item is embedded in.  `home' is the slot a probe      *)
(* starts from (key % size in the code).                                   *)
(***************************************************************************)
EXTENDS Integers

CONSTANTS
  Null,     \* an empty slot
  Deleted   \* the address of map.c's static `deleted' marker

IsLive(e) == e # Null /\ e # Deleted

Live(t) == {s \in DOMAIN t : IsLive(t[s])}

\* The slot that a probe from home looks at after d steps of
\* idx = (idx + 1) % size.
Walk(n, home, d) == IF home + d < n THEN home + d ELSE home + d - n

First(D) == CHOOSE d \in D : \A e \in D : d <= e

-----------------------------------------------------------------------------
(* map_hash: the probe of a put stops at the first slot that is empty, is a *)
(* tombstone or holds the key.                                              *)

HashSteps(t, n, home, k) ==
  {d \in 0 .. n-1 : LET e == t[Walk(n, home, d)]
                    IN  IsLive(e) => e.key = k}

HashSlot(t, n, home, k) == Walk(n, home, First(HashSteps(t, n, home, k)))

(* map_find: the probe of a get or remove passes tombstones, stops at an    *)
(* empty slot and returns the first entry with the key.                     *)

\* Fault: map_find stops at a tombstone.
FindStepsToDeleted(t, n, home, k) ==
  {d \in 0 .. n-1 : /\ IsLive(t[Walk(n, home, d)])
                    /\ t[Walk(n, home, d)].key = k
                    /\ \A c \in 0 .. d-1 : IsLive(t[Walk(n, home, c)])}

FindSteps(t, n, home, k) ==
  {d \in 0 .. n-1 : /\ IsLive(t[Walk(n, home, d)])
                    /\ t[Walk(n, home, d)].key = k
                    /\ \A c \in 0 .. d-1 : t[Walk(n, home, c)] # Null}

Found(t, n, home, k) == FindSteps(t, n, home, k) # {}

\* A probe from home gets to slot s without meeting an empty slot before it.
OnPath(t, n, home, s) ==
  \E d \in 0 .. n-1 : /\ Walk(n, home, d) = s
                      /\ \A c \in 0 .. d-1 : t[Walk(n, home, c)] # Null

FindSlot(t, n, home, k) == Walk(n, home, First(FindSteps(t, n, home, k)))
=============================================================================
