------------------------------ MODULE QrtrDict ------------------------------
(***************************************************************************)
(* What the users of qrtr's struct map rely on: a dictionary.              *)
(***************************************************************************)
EXTENDS Integers

CONSTANTS Keys, Items, Null

VARIABLES
  dict,   \* the item of each key, Null for none
  ret     \* what the last call returned

vars == <<dict, ret>>

Init ==
  /\ dict = [k \in Keys |-> Null]
  /\ ret = [rc |-> 0, item |-> Null]

Return(rc, item) == ret' = [rc |-> rc, item |-> item]

\* A put returns the item it replaced.
Put(k, x) ==
  /\ dict' = [dict EXCEPT ![k] = x]
  /\ Return(0, dict[k])

PutFails ==
  /\ Return(-1, Null)
  /\ UNCHANGED dict

Remove(k) ==
  /\ dict' = [dict EXCEPT ![k] = Null]
  /\ Return(IF dict[k] = Null THEN 1 ELSE 0, Null)

Clear ==
  /\ dict' = [k \in Keys |-> Null]
  /\ Return(0, Null)

Next ==
  \/ \E k \in Keys, x \in Items : Put(k, x)
  \/ \E k \in Keys : Remove(k)
  \/ PutFails
  \/ Clear

Spec == Init /\ [][Next]_vars
=============================================================================
