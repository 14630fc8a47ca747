------------------------------ MODULE MCTqftp -------------------------------
(***************************************************************************)
(* Files of a few units in blocks of two, with a window of two blocks and  *)
(* block numbers that wrap at 4: the longest file has three blocks.  One   *)
(* writer sends a block and a half, where it is alone a block that an      *)
(* empty one follows; the other sends half a block only.                   *)
(***************************************************************************)
EXTENDS Tqftp

CONSTANTS r1, r2, r3, r4, w1, w2, x1, fw, fw2, fnew, fold, none

MCNodeOf == [c \in {r1, r2, r3, r4, w1, w2, x1} |-> IF c = w2 THEN 1 ELSE 5]

MCPathOf ==
  [c \in {r1, r2, r3, r4, w1, w2} |->
     CASE c = r1 -> fw [] c \in {r2, r4} -> fw2 [] c = r3 -> none [] c = w1 -> fnew [] c = w2 -> fold]

MCKind ==
  [p \in {fw, fw2, none, fnew, fold} |->
     IF p \in {fnew, fold} THEN "readwrite" ELSE IF p = none THEN "invalid" ELSE "readonly"]

\* r1 asks for a window and the size, r2 has no options, r4 asks only for the
\* size; r3 asks for a window.
MCOptions ==
  [c \in {r1, r2, r3, r4} |->
     IF c = r2 THEN Null ELSE [wsize |-> IF c = r4 THEN 0 ELSE 2, tsize |-> c # r3]]

\* fw: two full blocks and a short one.  fw2: less than a block.
MCStored ==
  [p \in {fw, fw2, none, fnew, fold} |->
     CASE p = fw -> <<1, 2, 3, 1, 2>> [] p = fw2 -> <<3>> [] p = none -> Null
       [] p = fnew -> Null [] p = fold -> <<3, 3, 3>>]

MCPayload     == [c \in {w1, w2} |-> IF c = w1 THEN <<1, 2, 1>> ELSE <<2>>]
MCPayloadLive == [c \in {w1} |-> <<1, 2>>]
=============================================================================
