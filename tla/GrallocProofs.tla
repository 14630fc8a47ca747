---------------------------- MODULE GrallocProofs ----------------------------
(***************************************************************************)
(* Proofs about Gralloc, for any number of handles and bos, any shapes,    *)
(* regions and usages.                                                     *)
(*                                                                         *)
(* MappedWhileLocked needs the shape of a bo's user data and nothing else, *)
(* so it holds whatever the process does (DataOK).  What a careful process *)
(* is promised needs more (CInv): an entry of the table belongs to a       *)
(* handle the process has, the locks it holds are those its bo counts, and *)
(* the GBM device lives as long as a device is open, a buffer is there or  *)
(* a registration is under way.  SizesInv adds that a buffer's bo has the  *)
(* size its shape converts to.                                             *)
(***************************************************************************)
EXTENDS Gralloc, TLAPS

Marks == Absent # NoBo /\ Absent \notin Bos /\ NoBo \notin Bos

\* The two marks of the table are not bos and differ.
LEMMA Marked == Marks
BY GrallocAssumption, Zenon DEF Marks

-----------------------------------------------------------------------------
(* The user data of a bo.                                                  *)

DataOK(d) ==
  /\ d = [count |-> d.count, for |-> d.for, map |-> d.map, set |-> d.set]
  /\ d.count \in Nat
  /\ (d.map # <<>>) = (d.for \intersect SW # {})
  /\ d.map # <<>> => d.count = 1
  /\ d.count = 0 => d.for = {}
  /\ d.count > 0 => d.set

ObjectOK(o) ==
  /\ o = [live |-> o.live, w |-> o.w, h |-> o.h, data |-> o.data]
  /\ o.live \in BOOLEAN
  /\ DataOK(o.data)

BosOK ==
  /\ bo = [b \in Bos |-> bo[b]]
  /\ \A b \in Bos : ObjectOK(bo[b])

TypeInv ==
  /\ careful \in BOOLEAN
  /\ BosOK
  /\ table \in [Handles -> Bos \union {NoBo, Absent}]

\* The user data of a new bo is good.
LEMMA NoDataOK == ObjectOK(NoObject) /\ DataOK(NoData)
BY DEF ObjectOK, DataOK, NoObject, NoData, SW

\* The user data after a lock for usage u that maps e if it has to map.
LockedData(d, u, e) ==
  [count |-> d.count + 1, for |-> d.for \union u, set |-> TRUE,
   map |-> IF NeedsMap(d, u) THEN e ELSE d.map]

\* A lock that gralloc_gbm_bo_lock grants keeps the user data good: a lock
\* that maps is the first one.
LEMMA LockKeepsData ==
  ASSUME NEW d, DataOK(d), NEW u, NEW e, e # <<>>,
         Compatible(d, u), NeedsMap(d, u) => d.map = <<>>
  PROVE  DataOK(LockedData(d, u, e))
<1> DEFINE n == LockedData(d, u, e)
<1>1. n.count = d.count + 1 /\ n.for = d.for \union u /\ n.set = TRUE
      /\ n.map = IF NeedsMap(d, u) THEN e ELSE d.map
  BY Zenon DEF LockedData
<1>2. n = [count |-> n.count, for |-> n.for, map |-> n.map, set |-> n.set]
  BY Zenon DEF LockedData
<1> HIDE DEF n
<1>3. CASE NeedsMap(d, u)
  <2>1. d.map = <<>> /\ d.for \intersect SW = {} /\ u \intersect SW # {}
    BY <1>3, Zenon DEF NeedsMap, DataOK
  <2>2. d.count = 0
    BY <2>1 DEF Compatible, DataOK
  <2>3. DataOK(n)
    BY <1>1, <1>2, <1>3, <2>1, <2>2 DEF DataOK
  <2> QED BY <2>3, Zenon DEF n
<1>4. CASE ~NeedsMap(d, u)
  <2>1. d.map = <<>> /\ n.for \intersect SW = {}
    BY <1>1, <1>4, Zenon DEF NeedsMap, DataOK
  <2>2. DataOK(n)
    BY <1>1, <1>2, <1>4, <2>1 DEF DataOK
  <2> QED BY <2>2, Zenon DEF n
<1> QED BY <1>3, <1>4, Zenon

\* Attaching the user data keeps it good.
LEMMA AttachKeepsData ==
  ASSUME NEW d, DataOK(d)
  PROVE  DataOK(Attached(d)) /\ Attached(d).count = d.count /\ Attached(d).map = d.map
BY Zenon DEF DataOK, Attached

\* gralloc_gbm_bo_unlock keeps the user data good and takes one lock off.
LEMMA UnlockKeepsData ==
  ASSUME NEW d, DataOK(d)
  PROVE  /\ DataOK(Unlocked(d))
         /\ Unlocked(d).count = IF d.count = 0 THEN 0 ELSE d.count - 1
         /\ Unlocked(d).set = d.set /\ Unlocked(d).map \in {d.map, <<>>}
<1>1. CASE d.count = 0
  BY <1>1, Zenon DEF Unlocked
<1>2. CASE d.count # 0
  <2> DEFINE n == [count |-> d.count - 1, for |-> IF d.count = 1 THEN {} ELSE d.for,
                   map |-> IF d.for \intersect SW # {} THEN <<>> ELSE d.map, set |-> d.set]
  <2>1. Unlocked(d) = n
    BY <1>2, Zenon DEF Unlocked, DataOK
  <2>2. n.count = d.count - 1 /\ n.for = (IF d.count = 1 THEN {} ELSE d.for) /\ n.set = d.set
        /\ n.map = IF d.for \intersect SW # {} THEN <<>> ELSE d.map
    BY Zenon
  <2>3. n = [count |-> n.count, for |-> n.for, map |-> n.map, set |-> n.set]
    BY Zenon
  <2> HIDE DEF n
  <2>4. d.count \in Nat /\ d.count # 0 /\ n.count \in Nat /\ n.map = <<>>
    BY <1>2, <2>2 DEF DataOK
  <2>5. n.for \intersect SW = {} /\ (n.count = 0 => n.for = {}) /\ (n.count > 0 => n.set)
    BY <2>2, <2>4 DEF DataOK
  <2>6. DataOK(n)
    BY <2>3, <2>4, <2>5, Zenon DEF DataOK
  <2> QED BY <1>2, <2>1, <2>2, <2>6, Zenon
<1> QED BY <1>1, <1>2, Zenon

-----------------------------------------------------------------------------
(* What a step does to the bos.                                            *)

\* One bo is replaced.
LEMMA ReplaceBo ==
  ASSUME BosOK, NEW b \in Bos, NEW o, ObjectOK(o), bo' = [bo EXCEPT ![b] = o]
  PROVE  BosOK' /\ bo'[b] = o /\ \A c \in Bos \ {b} : bo'[c] = bo[c]
<1>1. bo'[b] = o /\ (\A c \in Bos \ {b} : bo'[c] = bo[c]) /\ bo' = [c \in Bos |-> bo'[c]]
  BY Zenon DEF BosOK
<1> QED BY <1>1, Zenon DEF BosOK

SameSize(o, p) == o.w = p.w /\ o.h = p.h

\* The user data of one bo is replaced.
LEMMA ReplaceData ==
  ASSUME BosOK, NEW b \in Bos, NEW d, DataOK(d), bo' = [bo EXCEPT ![b].data = d]
  PROVE  /\ BosOK'
         /\ bo'[b].data = d /\ bo'[b].live = bo[b].live /\ SameSize(bo'[b], bo[b])
         /\ \A c \in Bos \ {b} : bo'[c] = bo[c]
<1> DEFINE o == [live |-> bo[b].live, w |-> bo[b].w, h |-> bo[b].h, data |-> d]
<1>1. bo[b] = [live |-> bo[b].live, w |-> bo[b].w, h |-> bo[b].h, data |-> bo[b].data]
      /\ bo[b].live \in BOOLEAN
  BY Zenon DEF BosOK, ObjectOK
<1>2. [bo[b] EXCEPT !.data = d] = o
  BY <1>1
<1>3. bo' = [bo EXCEPT ![b] = o]
  BY <1>2, Zenon
<1>4. o.live = bo[b].live /\ o.data = d /\ o = [live |-> o.live, w |-> o.w, h |-> o.h, data |-> o.data]
      /\ SameSize(o, bo[b])
  BY Zenon DEF SameSize
<1> HIDE DEF o
<1>5. ObjectOK(o)
  BY <1>1, <1>4, Zenon DEF ObjectOK
<1> QED BY <1>3, <1>4, <1>5, ReplaceBo, Zenon

\* gbm_free takes away the bo of a handle, if it has one.
LEMMA FreeStep ==
  ASSUME Marks, TypeInv, NEW h \in Handles, gbm_free(h)
  PROVE  /\ BosOK' /\ table' \in [Handles -> Bos \union {NoBo, Absent}]
         /\ table[h] \in Bos =>
              /\ table' = [table EXCEPT ![h] = Absent]
              /\ bo'[table[h]] = NoObject
              /\ \A c \in Bos \ {table[h]} : bo'[c] = bo[c]
<1>1. table[h] \in Bos \union {NoBo, Absent}
  BY Zenon DEF TypeInv
<1>2. CASE table[h] \in Bos
  <2>1. BoOf(h) = table[h] /\ BoOf(h) # NoBo
    BY <1>2, Zenon DEF BoOf, Marks
  <2>2. table' = [table EXCEPT ![h] = Absent] /\ bo' = [bo EXCEPT ![table[h]] = NoObject]
    BY <2>1, Zenon DEF gbm_free
  <2> QED BY <1>2, <2>2, NoDataOK, ReplaceBo, Zenon DEF TypeInv
<1>3. CASE table[h] \notin Bos
  <2>1. BoOf(h) = NoBo
    BY <1>1, <1>3, Zenon DEF BoOf
  <2>2. bo' = bo /\ table' = [table EXCEPT ![h] = NoBo]
    BY <2>1, Zenon DEF gbm_free, Looked
  <2> QED BY <1>3, <2>2, Zenon DEF TypeInv, BosOK
<1> QED BY <1>2, <1>3, Zenon

Sized(o, s) == o.w = Width(s.format, s.w) /\ o.h = Height(s.format, s.h)

\* GBM makes a bo.
LEMMA NewBoStep ==
  ASSUME BosOK, NEW b \in Bos, NEW s, bo' = NewBo(b, s)
  PROVE  /\ BosOK' /\ bo'[b].live /\ bo'[b].data = NoData /\ Sized(bo'[b], s)
         /\ \A c \in Bos \ {b} : bo'[c] = bo[c]
<1> DEFINE o == [live |-> TRUE, w |-> Width(s.format, s.w), h |-> Height(s.format, s.h), data |-> NoData]
<1>1. o.live = TRUE /\ o.data = NoData /\ Sized(o, s)
      /\ o = [live |-> o.live, w |-> o.w, h |-> o.h, data |-> o.data]
  BY Zenon DEF Sized
<1>2. bo' = [bo EXCEPT ![b] = o]
  BY Zenon DEF NewBo
<1> HIDE DEF o
<1>3. ObjectOK(o)
  BY <1>1, NoDataOK, Zenon DEF ObjectOK
<1> QED BY <1>1, <1>2, <1>3, ReplaceBo, Zenon

\* The two outcomes of gbm_mod_lock: a lock more, or at most new user data.
LEMMA LockStep ==
  ASSUME Marks, TypeInv, NEW h \in Handles, NEW u, NEW r, LockBuffer(h, u, r)
  PROVE  LET b == table[h] IN
         /\ BosOK' /\ table' \in [Handles -> Bos \union {NoBo, Absent}]
         /\ b \notin Bos => bo' = bo /\ held' = held /\ misused' = misused
         /\ b \in Bos =>
              /\ table' = table
              /\ bo'[b].live = bo[b].live /\ SameSize(bo'[b], bo[b])
              /\ bo'[b].data.map \in {bo[b].data.map, MapExtent(handle[h].shape.format, r)}
              /\ \A c \in Bos \ {b} : bo'[c] = bo[c]
              /\ \/ /\ bo'[b].data.count = bo[b].data.count + 1
                    /\ held' = [held EXCEPT ![h] = IF careful THEN @ + 1 ELSE @]
                    /\ misused' \in {misused, Blame("map")}
                 \/ /\ bo'[b].data.count = bo[b].data.count
                    /\ held' = held /\ misused' = misused
<1> DEFINE b == table[h]
<1>1. b \in Bos \union {NoBo, Absent} /\ table' = Looked(h)
  BY Zenon DEF TypeInv, LockBuffer
<1>2. table' \in [Handles -> Bos \union {NoBo, Absent}] /\ (b \in Bos => BoOf(h) = b /\ table' = table)
  BY <1>1, Zenon DEF Looked, BoOf, TypeInv, Marks
<1>3. CASE b \notin Bos
  <2>1. BoOf(h) = NoBo
    BY <1>1, <1>3, Zenon DEF BoOf
  <2>2. bo' = bo /\ held' = held /\ misused' = misused
    BY <2>1, Zenon DEF LockBuffer, LockGrants, LockFails
  <2> QED BY <1>2, <1>3, <2>2, Zenon DEF TypeInv, BosOK
<1>4. CASE b \in Bos
  <2> DEFINE d == bo[b].data
  <2>1. BoOf(h) = b /\ DataOK(d)
    BY <1>2, <1>4, Zenon DEF TypeInv, BosOK, ObjectOK
  <2>2. CASE LockGrants(h, u) /\ LockGets(h, u, r)
    <3> DEFINE e == MapExtent(handle[h].shape.format, r)
               n == LockedData(d, u, e)
    <3>1. e # <<>>
      BY Zenon DEF MapExtent
    <3>2. Compatible(d, u) /\ (NeedsMap(d, u) => d.map = <<>>)
      BY <2>1, <2>2, Zenon DEF LockGrants
    <3>3. bo' = [bo EXCEPT ![b].data = n] /\ n.count = d.count + 1 /\ n.map \in {d.map, e}
      BY <2>1, <2>2, Zenon DEF LockGets, LockedData
    <3>4. held' = [held EXCEPT ![h] = IF careful THEN @ + 1 ELSE @] /\ misused' \in {misused, Blame("map")}
      BY <2>2, Zenon DEF LockGets
    <3>5. DataOK(n)
      <4> HIDE DEF e, d
      <4> QED BY <2>1, <3>1, <3>2, LockKeepsData, Zenon
    <3> HIDE DEF n, e
    <3>6. /\ BosOK' /\ bo'[b].data = n /\ bo'[b].live = bo[b].live /\ SameSize(bo'[b], bo[b])
          /\ \A c \in Bos \ {b} : bo'[c] = bo[c]
      BY <1>4, <3>3, <3>5, ReplaceData, Zenon DEF TypeInv
    <3> QED BY <1>2, <1>4, <3>3, <3>4, <3>6, Zenon DEF e
  <2>3. CASE LockFails(h, u)
    <3>1. CASE bo' = bo
      BY <1>2, <1>4, <2>3, <3>1, Zenon DEF LockFails, TypeInv, BosOK, SameSize
    <3>2. CASE bo' = [bo EXCEPT ![b].data = Attached(@)]
      <4> DEFINE n == Attached(d)
      <4>3. DataOK(n) /\ n.count = d.count /\ n.map = d.map
        <5> HIDE DEF d
        <5> QED BY <2>1, AttachKeepsData, Zenon
      <4>4. bo' = [bo EXCEPT ![b].data = n]
        BY <3>2, Zenon
      <4> HIDE DEF n
      <4> QED BY <1>2, <1>4, <2>3, <4>3, <4>4, ReplaceData, ZenonT(30) DEF LockFails, TypeInv
    <3> QED BY <2>1, <2>3, <3>1, <3>2, Zenon DEF LockFails
  <2> QED BY <2>2, <2>3, Zenon DEF LockBuffer
<1> QED BY <1>3, <1>4, Zenon

\* gbm_mod_unlock takes one lock off a bo that has user data.
LEMMA UnlockStep ==
  ASSUME Marks, TypeInv, NEW h \in Handles, UnlockBuffer(h)
  PROVE  LET b == table[h] IN
         /\ BosOK' /\ table' \in [Handles -> Bos \union {NoBo, Absent}]
         /\ b \in Bos =>
              /\ table' = table
              /\ bo'[b].live = bo[b].live /\ SameSize(bo'[b], bo[b])
              /\ bo'[b].data.map \in {bo[b].data.map, <<>>}
              /\ \A c \in Bos \ {b} : bo'[c] = bo[c]
              /\ bo[b].data.count > 0 =>
                   /\ bo'[b].data.count = bo[b].data.count - 1
                   /\ misused' = misused
              /\ held' = [held EXCEPT ![h] = IF @ > 0 THEN @ - 1 ELSE 0]
<1> DEFINE b == table[h]
           d == bo[b].data
<1>1. b \in Bos \union {NoBo, Absent} /\ table' = Looked(h)
  BY Zenon DEF TypeInv, UnlockBuffer
<1>2. table' \in [Handles -> Bos \union {NoBo, Absent}] /\ (b \in Bos => BoOf(h) = b /\ table' = table)
  BY <1>1, Zenon DEF Looked, BoOf, TypeInv, Marks
<1>3. CASE b \notin Bos
  <2>1. BoOf(h) = NoBo
    BY <1>1, <1>3, Zenon DEF BoOf
  <2>2. bo' = bo
    BY <2>1, Zenon DEF UnlockBuffer
  <2> QED BY <1>2, <1>3, <2>2, Zenon DEF TypeInv, BosOK
<1>4. CASE b \in Bos
  <2>1. BoOf(h) = b /\ b # NoBo /\ DataOK(d)
    BY <1>2, <1>4, Zenon DEF TypeInv, BosOK, ObjectOK, Marks
  <2>2. /\ bo' = IF d.set THEN [bo EXCEPT ![b].data = Unlocked(d)] ELSE bo
        /\ held' = [held EXCEPT ![h] = IF @ > 0 THEN @ - 1 ELSE 0]
        /\ misused' = Note(~d.set \/ (d.for \intersect SW # {} /\ d.map = <<>>), "unlock")
    BY <2>1, Zenon DEF UnlockBuffer
  <2>3. /\ DataOK(Unlocked(d)) /\ Unlocked(d).count = IF d.count = 0 THEN 0 ELSE d.count - 1
        /\ Unlocked(d).map \in {d.map, <<>>}
    <3> HIDE DEF d
    <3> QED BY <2>1, UnlockKeepsData, Zenon
  <2>4. d.count > 0 => d.set /\ misused' = misused
    BY <2>1, <2>2, Zenon DEF DataOK, Note
  <2>5. d.count \in Nat /\ (d.count > 0 => d.count # 0)
    BY <2>1, SMTT(20) DEF DataOK
  <2>6. CASE d.set
    <3>1. bo' = [bo EXCEPT ![b].data = Unlocked(d)]
      BY <2>2, <2>6, Zenon
    <3>2. BosOK' /\ bo'[b].data = Unlocked(d) /\ bo'[b].live = bo[b].live /\ SameSize(bo'[b], bo[b])
          /\ \A c \in Bos \ {b} : bo'[c] = bo[c]
      BY <1>4, <2>3, <3>1, ReplaceData, Zenon DEF TypeInv
    <3> QED BY <1>2, <1>4, <2>2, <2>3, <2>4, <2>5, <3>2, Zenon
  <2>7. CASE ~d.set
    BY <1>2, <1>4, <2>2, <2>4, <2>7, Zenon DEF TypeInv, BosOK, SameSize
  <2> QED BY <2>6, <2>7, Zenon
<1> QED BY <1>3, <1>4, Zenon

-----------------------------------------------------------------------------
(* Mapping and locking, whatever the process does.                         *)

\* The bos and the table keep their types in every step.
LEMMA TypeStep == ASSUME Marks, TypeInv, [GrallocNext]_grallocVars PROVE TypeInv'
<1>1. careful' \in BOOLEAN
  BY Zenon DEF TypeInv, GrallocNext, grallocVars, Open, Close, Alloc, Receive, Free, Drop, RegisterInit, Register, Unregister,
         LockBuffer, UnlockBuffer
<1> DEFINE Good == BosOK /\ table \in [Handles -> Bos \union {NoBo, Absent}]
<1>2. ASSUME bo' = bo, table' = table PROVE Good'
  BY <1>2, Zenon DEF TypeInv, BosOK
<1>3. ASSUME NEW h \in Handles, NEW s \in Shapes, Alloc(h, s) PROVE Good'
  <2>1. PICK b \in Bos : bo' = NewBo(b, s) /\ table' = Emplaced(h, b)
    BY <1>3, Zenon DEF Alloc
  <2>2. table' \in [Handles -> Bos \union {NoBo, Absent}]
    BY <2>1, Zenon DEF Emplaced, TypeInv
  <2> QED BY <2>1, <2>2, NewBoStep, Zenon DEF TypeInv
<1>4. ASSUME NEW h \in Handles, Register(h) PROVE Good'
  <2>1. CASE \E b \in Bos : ~bo[b].live /\ Registers(h, b)
    <3>1. PICK b \in Bos : Registers(h, b)
      BY <2>1, Zenon
    <3>2. bo' = NewBo(b, handle[h].shape) /\ table' = [table EXCEPT ![h] = b]
      BY <3>1, Zenon DEF Registers
    <3>3. BosOK'
      BY <3>2, NewBoStep, Zenon DEF TypeInv
    <3> QED BY <3>2, <3>3, Zenon DEF TypeInv
  <2>2. CASE bo' = bo /\ table' = table
    BY <1>2, <2>2, Zenon
  <2> QED BY <1>4, <2>1, <2>2, Zenon DEF Register
<1>5. ASSUME NEW h \in Handles, Free(h) \/ Unregister(h) PROVE Good'
  BY <1>5, FreeStep, Zenon DEF Free, Unregister
<1>6. ASSUME NEW h \in Handles, NEW u \in LockUsages, NEW r \in Regions, LockBuffer(h, u, r) PROVE Good'
  BY <1>6, LockStep, Zenon
<1>7. ASSUME NEW h \in Handles, UnlockBuffer(h) PROVE Good'
  BY <1>7, UnlockStep, Zenon
<1>8. ASSUME \/ Open \/ Close \/ UNCHANGED grallocVars
             \/ \E h \in Handles : Drop(h) \/ RegisterInit(h) \/ \E s \in Shapes : Receive(h, s)
      PROVE  Good'
  BY <1>2, <1>8, Zenon DEF Open, Close, grallocVars, Drop, RegisterInit, Receive
<1>9. Good'
  BY <1>3, <1>4, <1>5, <1>6, <1>7, <1>8, Zenon DEF GrallocNext
<1> QED BY <1>1, <1>9, Zenon DEF TypeInv

\* Spec keeps the types.
LEMMA TypeInvariant == ASSUME Marks PROVE GrallocSpec => []TypeInv
<1>1. GrallocInit => TypeInv
  BY NoDataOK, Zenon DEF GrallocInit, TypeInv, BosOK
<1>2. TypeInv /\ [GrallocNext]_grallocVars => TypeInv'
  BY TypeStep, Zenon
<1> QED BY <1>1, <1>2, PTL DEF GrallocSpec

\* Whatever a process calls and in whatever order, a bo is mapped exactly
\* while it is locked for the CPU and a lock that maps is alone
\* (gralloc_gbm_bo_lock, gralloc_gbm_bo_unlock).
THEOREM GrallocMappedWhileLocked == GrallocSpec => []MappedWhileLocked
<1>1. TypeInv => MappedWhileLocked
  BY Zenon DEF TypeInv, BosOK, ObjectOK, DataOK, MappedWhileLocked
<1> QED BY <1>1, Marked, TypeInvariant, PTL

-----------------------------------------------------------------------------
(* What a careful process is promised.                                     *)

ProcessTyped ==
  /\ gbm \in {"null", "live", "dangling"}
  /\ opens \in [now : Nat, ever : Nat]
  /\ handle = [h \in Handles |-> handle[h]]
  /\ \A h \in Handles :
       \/ handle[h] = NoHandle
       \/ /\ handle[h] = [by |-> handle[h].by, shape |-> handle[h].shape]
          /\ handle[h].by \in {"alloc", "import", "registered"}
  /\ held \in [Handles -> Nat]

Backed == \A h \in Handles : IF Mine(h) THEN table[h] \in Bos /\ bo[table[h]].live ELSE table[h] = Absent

OwnBo == \A h, k \in Handles : h # k /\ table[h] \in Bos => table[h] # table[k]

NoneLost == \A b \in Bos : bo[b].live => \E h \in Handles : table[h] = b

HeldCounted == \A h \in Handles : held[h] = IF Mine(h) THEN bo[table[h]].data.count ELSE 0

TablesOK == Backed /\ OwnBo /\ NoneLost /\ HeldCounted

DeviceLives ==
  /\ opens.now > 0 => gbm = "live"
  /\ \A h \in Handles : Mine(h) \/ h \in entering => gbm = "live"
  /\ \A h \in entering : h \in Handles /\ handle[h].by = "import"

CInv == careful => ProcessTyped /\ TablesOK /\ DeviceLives /\ misused = {}

\* A handle gets a new bo.
LEMMA Gains ==
  ASSUME Marks, TypeInv, TablesOK, NEW h \in Handles, NEW b \in Bos, NEW s,
         ~Mine(h), ~bo[b].live, bo' = NewBo(b, s), table' = [table EXCEPT ![h] = b],
         held' = held, \A k \in Handles : Mine(k)' = (Mine(k) \/ k = h)
  PROVE  TablesOK'
<1>1. /\ table[h] = Absent /\ held[h] = 0
      /\ \A k \in Handles : Mine(k) => table[k] \in Bos /\ bo[table[k]].live
  BY Zenon DEF TablesOK, Backed, HeldCounted
<1>2. /\ bo'[b].live /\ bo'[b].data = NoData
      /\ \A c \in Bos \ {b} : bo'[c] = bo[c]
  BY NewBoStep, Zenon DEF TypeInv
<1>3. table'[h] = b /\ \A k \in Handles \ {h} : table'[k] = table[k]
  BY Zenon DEF TypeInv
<1>4. \A k \in Handles : table[k] # b
  BY <1>1, Zenon DEF TablesOK, Backed, Marks
<1>5. Backed'
  <2> SUFFICES ASSUME NEW k \in Handles
               PROVE  IF Mine(k)' THEN table'[k] \in Bos /\ bo'[table'[k]].live ELSE table'[k] = Absent
    BY Zenon DEF Backed
  <2>1. CASE k = h
    BY <1>2, <1>3, <2>1, Zenon
  <2>2. CASE k # h /\ Mine(k)
    <3>1. table'[k] = table[k] /\ table[k] \in Bos \ {b} /\ bo[table[k]].live
      BY <1>1, <1>3, <1>4, <2>2, Zenon
    <3> QED BY <1>2, <2>2, <3>1, Zenon
  <2>3. CASE k # h /\ ~Mine(k)
    BY <1>3, <2>3, Zenon DEF TablesOK, Backed
  <2> QED BY <2>1, <2>2, <2>3, Zenon
<1>6. OwnBo'
  BY <1>3, <1>4, Zenon DEF TablesOK, OwnBo
<1>7. NoneLost'
  <2> SUFFICES ASSUME NEW c \in Bos, bo'[c].live PROVE \E k \in Handles : table'[k] = c
    BY Zenon DEF NoneLost
  <2>1. CASE c = b
    BY <1>3, <2>1, Zenon
  <2>2. CASE c # b
    <3>1. PICK k \in Handles : table[k] = c
      BY <1>2, <2>2, Zenon DEF TablesOK, NoneLost
    <3>2. k # h
      BY <1>1, <3>1, Zenon DEF Marks
    <3> QED BY <1>3, <3>1, <3>2, Zenon
  <2> QED BY <2>1, <2>2, Zenon
<1>8. HeldCounted'
  <2> SUFFICES ASSUME NEW k \in Handles
               PROVE  held'[k] = IF Mine(k)' THEN bo'[table'[k]].data.count ELSE 0
    BY Zenon DEF HeldCounted
  <2>1. CASE k = h
    BY <1>1, <1>2, <1>3, <2>1 DEF NoData
  <2>2. CASE k # h /\ Mine(k)
    <3>1. table'[k] = table[k] /\ table[k] \in Bos \ {b}
      BY <1>1, <1>3, <1>4, <2>2, Zenon
    <3> QED BY <1>2, <2>2, <3>1, Zenon DEF TablesOK, HeldCounted
  <2>3. CASE k # h /\ ~Mine(k)
    BY <2>3, Zenon DEF TablesOK, HeldCounted
  <2> QED BY <2>1, <2>2, <2>3, Zenon
<1> QED BY <1>5, <1>6, <1>7, <1>8, Zenon DEF TablesOK

\* A handle loses its bo to gbm_free.
LEMMA Loses ==
  ASSUME Marks, TypeInv, TablesOK, NEW h \in Handles, Mine(h), held \in [Handles -> Nat],
         gbm_free(h), held' = [held EXCEPT ![h] = 0],
         \A k \in Handles : Mine(k)' = (Mine(k) /\ k # h)
  PROVE  TablesOK'
<1>1. table[h] \in Bos
  BY Zenon DEF TablesOK, Backed
<1>2. /\ table'[h] = Absent /\ \A k \in Handles \ {h} : table'[k] = table[k]
      /\ bo'[table[h]] = NoObject /\ \A c \in Bos \ {table[h]} : bo'[c] = bo[c]
  BY <1>1, FreeStep, Zenon DEF TypeInv
<1>3. \A k \in Handles \ {h} : table[k] # table[h]
  BY <1>1, Zenon DEF TablesOK, OwnBo
<1>4. Backed'
  BY <1>2, <1>3, Zenon DEF TablesOK, Backed
<1>5. OwnBo'
  BY <1>2, Zenon DEF TablesOK, OwnBo, Marks
<1>6. NoneLost'
  <2> SUFFICES ASSUME NEW c \in Bos, bo'[c].live PROVE \E k \in Handles : table'[k] = c
    BY Zenon DEF NoneLost
  <2>1. c # table[h]
    BY <1>2 DEF NoObject
  <2>2. PICK k \in Handles : table[k] = c
    BY <1>2, <2>1, Zenon DEF TablesOK, NoneLost
  <2> QED BY <1>2, <2>1, <2>2, Zenon
<1>7. HeldCounted'
  <2> SUFFICES ASSUME NEW k \in Handles
               PROVE  held'[k] = IF Mine(k)' THEN bo'[table'[k]].data.count ELSE 0
    BY Zenon DEF HeldCounted
  <2>1. CASE k = h
    BY <2>1, Zenon
  <2>2. CASE k # h /\ Mine(k)
    <3>1. table'[k] = table[k] /\ table[k] \in Bos \ {table[h]} /\ held'[k] = held[k]
      BY <1>2, <1>3, <2>2, Zenon DEF TablesOK, Backed
    <3> QED BY <1>2, <2>2, <3>1, Zenon DEF TablesOK, HeldCounted
  <2>3. CASE k # h /\ ~Mine(k)
    BY <2>3, Zenon DEF TablesOK, HeldCounted
  <2> QED BY <2>1, <2>2, <2>3, Zenon
<1> QED BY <1>4, <1>5, <1>6, <1>7, Zenon DEF TablesOK

\* The bo of a handle takes n locks, and the process holds as many.
LEMMA Counts ==
  ASSUME Marks, TypeInv, TablesOK, NEW h \in Handles, Mine(h), NEW n, held \in [Handles -> Nat],
         table' = table, handle' = handle,
         bo'[table[h]].live = bo[table[h]].live, bo'[table[h]].data.count = n,
         \A c \in Bos \ {table[h]} : bo'[c] = bo[c], held' = [held EXCEPT ![h] = n]
  PROVE  TablesOK'
<1>1. table[h] \in Bos /\ \A k \in Handles : Mine(k)' = Mine(k)
  BY Zenon DEF TablesOK, Backed, Mine
<1>2. \A k \in Handles \ {h} : table[k] # table[h]
  BY <1>1, Zenon DEF TablesOK, OwnBo
<1>3. \A c \in Bos : bo'[c].live = bo[c].live
  BY Zenon
<1>4. Backed' /\ OwnBo' /\ NoneLost'
  BY <1>1, <1>3, Zenon DEF TablesOK, Backed, OwnBo, NoneLost
<1>5. HeldCounted'
  BY <1>1, <1>2 DEF TablesOK, HeldCounted, Backed
<1> QED BY <1>4, <1>5, Zenon DEF TablesOK

\* A handle's mark is changed.
LEMMA HandleMarked ==
  ASSUME NEW x, NEW m, x = [by |-> x.by, shape |-> x.shape]
  PROVE  [x EXCEPT !.by = m] = [by |-> m, shape |-> x.shape]
OBVIOUS

\* The careful process's promises survive every step.
LEMMA CarefulStep == ASSUME Marks, TypeInv, CInv, [GrallocNext]_grallocVars PROVE CInv'
<1> SUFFICES ASSUME careful'
             PROVE  ProcessTyped' /\ TablesOK' /\ DeviceLives' /\ misused' = {}
  BY Zenon DEF CInv
<1>1. careful' = careful
  BY Zenon DEF GrallocNext, grallocVars, Open, Close, Alloc, Receive, Free, Drop, RegisterInit, Register, Unregister, LockBuffer, UnlockBuffer
<1>2. careful /\ ProcessTyped /\ TablesOK /\ DeviceLives /\ misused = {}
  BY <1>1, Zenon DEF CInv
<1> DEFINE Done == ProcessTyped' /\ TablesOK' /\ DeviceLives' /\ misused' = {}
<1>3. ASSUME bo' = bo, table' = table, held' = held, \A h \in Handles : Mine(h)' = Mine(h)
      PROVE  TablesOK'
  <2>1. Backed' /\ OwnBo' /\ NoneLost' /\ HeldCounted'
    BY <1>2, <1>3, Zenon DEF TablesOK, Backed, OwnBo, NoneLost, HeldCounted
  <2> QED BY <2>1, Zenon DEF TablesOK
<1>4. CASE Open
  <2>1. gbm # "dangling" /\ gbm \in {"null", "live"}
    BY <1>2, <1>4, Zenon DEF Open, ProcessTyped
  <2>2. handle' = handle /\ held' = held /\ bo' = bo /\ table' = table /\ entering' = entering /\ misused' = misused
    BY <1>4, Zenon DEF Open
  <2>3. \/ gbm' = "live" /\ opens' = [now |-> opens.now + 1, ever |-> opens.ever + 1]
        \/ gbm' = gbm /\ opens' = opens
    BY <1>4, <2>1, Zenon DEF Open, gbm_init
  <2>4. ProcessTyped'
    BY <1>2, <2>1, <2>2, <2>3 DEF ProcessTyped
  <2>5. \A h \in Handles : Mine(h)' = Mine(h)
    BY <2>2, Zenon DEF Mine
  <2>6. DeviceLives'
    BY <1>2, <2>2, <2>3, <2>5, Zenon DEF DeviceLives
  <2> QED BY <1>2, <1>3, <2>2, <2>4, <2>5, <2>6, Zenon
<1>5. CASE Close
  <2>1. opens.now = 1 /\ gbm = "live" /\ \A h \in Handles : ~Has(h) /\ h \notin entering
    BY <1>2, <1>5, Zenon DEF Close, DeviceLives
  <2>2. handle' = handle /\ held' = held /\ bo' = bo /\ table' = table /\ entering' = entering
        /\ gbm' = "dangling" /\ opens' = [opens EXCEPT !.now = @ - 1] /\ misused' = Blame("destroy")
    BY <1>5, Zenon DEF Close
  <2>3. \A h \in Handles : Mine(h)' = Mine(h) /\ ~Mine(h)
    BY <2>1, <2>2, Zenon DEF Mine, Has
  <2>4. ProcessTyped' /\ opens'.now = 0
    BY <1>2, <2>1, <2>2 DEF ProcessTyped
  <2>5. DeviceLives'
    BY <1>2, <2>1, <2>2, <2>3, <2>4 DEF DeviceLives
  <2>6. misused' = {}
    BY <1>2, <2>1, <2>2, Zenon DEF Blame, Note
  <2> QED BY <1>3, <2>2, <2>3, <2>4, <2>5, <2>6, Zenon
<1>6. ASSUME NEW h \in Handles, NEW s \in Shapes, Alloc(h, s) PROVE Done
  <2>1. PICK b \in Bos : ~bo[b].live /\ bo' = NewBo(b, s) /\ table' = Emplaced(h, b)
    BY <1>6, Zenon DEF Alloc
  <2>2. handle' = [handle EXCEPT ![h] = [by |-> "alloc", shape |-> s]] /\ held' = held /\ entering' = entering
        /\ gbm' = gbm /\ opens' = opens /\ misused' = Blame("alloc") /\ opens.now > 0 /\ ~Has(h)
    BY <1>6, Zenon DEF Alloc
  <2>3. ~Mine(h) /\ gbm = "live" /\ handle[h].by = "none"
    BY <1>2, <2>2, Zenon DEF Has, Mine, DeviceLives
  <2>4. \A k \in Handles : Mine(k)' = (Mine(k) \/ k = h)
    BY <1>2, <2>2, <2>3 DEF Mine, ProcessTyped
  <2>5. table' = [table EXCEPT ![h] = b]
    BY <1>2, <2>1, <2>3, Zenon DEF TablesOK, Backed, Emplaced
  <2>6. TablesOK'
    BY <1>2, <2>1, <2>2, <2>3, <2>4, <2>5, Gains, Zenon
  <2>7. ProcessTyped'
    BY <1>2, <2>2, Zenon DEF ProcessTyped
  <2>8. DeviceLives'
    BY <1>2, <2>2, <2>3, Zenon DEF DeviceLives, ProcessTyped
  <2>9. misused' = {}
    BY <1>2, <2>2, <2>3, Zenon DEF Blame, Note
  <2> QED BY <2>6, <2>7, <2>8, <2>9, Zenon
<1>7. ASSUME NEW h \in Handles, Free(h) PROVE Done
  <2>1. gbm_free(h) /\ handle' = [handle EXCEPT ![h] = NoHandle] /\ held' = [held EXCEPT ![h] = 0]
        /\ entering' = entering /\ gbm' = gbm /\ opens' = opens /\ misused' \in {misused, Blame("free")}
        /\ handle[h].by = "alloc" /\ h \notin entering /\ opens.now > 0
    BY <1>2, <1>7, Zenon DEF Free
  <2>2. Mine(h) /\ gbm = "live"
    BY <1>2, <2>1, Zenon DEF Mine, DeviceLives
  <2>3. \A k \in Handles : Mine(k)' = (Mine(k) /\ k # h)
    BY <1>2, <2>1 DEF Mine, ProcessTyped, NoHandle
  <2>4. TablesOK'
    BY <1>2, <2>1, <2>2, <2>3, Loses, Zenon DEF ProcessTyped
  <2>5. ProcessTyped'
    BY <1>2, <2>1, Zenon DEF ProcessTyped
  <2>6. DeviceLives'
    BY <1>2, <2>1, <2>2, Zenon DEF DeviceLives, ProcessTyped
  <2>7. misused' = {}
    BY <1>2, <2>1, <2>2, Zenon DEF Blame, Note
  <2> QED BY <2>4, <2>5, <2>6, <2>7, Zenon
<1>8. ASSUME NEW h \in Handles, NEW s \in Shapes, Receive(h, s) PROVE Done
  <2>1. handle' = [handle EXCEPT ![h] = [by |-> "import", shape |-> s]] /\ held' = held /\ bo' = bo
        /\ table' = table /\ entering' = entering /\ gbm' = gbm /\ opens' = opens /\ misused' = misused
        /\ handle[h].by = "none"
    BY <1>8, Zenon DEF Receive, Has
  <2>2. \A k \in Handles : Mine(k)' = Mine(k)
    BY <1>2, <2>1 DEF Mine, ProcessTyped
  <2>3. ProcessTyped'
    BY <1>2, <2>1, Zenon DEF ProcessTyped
  <2>4. DeviceLives'
    BY <1>2, <2>1, <2>2, Zenon DEF DeviceLives, ProcessTyped
  <2> QED BY <1>2, <1>3, <2>1, <2>2, <2>3, <2>4, Zenon
<1>9. ASSUME NEW h \in Handles, Drop(h) PROVE Done
  <2>1. handle' = [handle EXCEPT ![h] = NoHandle] /\ held' = [held EXCEPT ![h] = 0] /\ bo' = bo
        /\ table' = table /\ entering' = entering /\ gbm' = gbm /\ opens' = opens /\ misused' = misused
        /\ ~Mine(h) /\ h \notin entering
    BY <1>2, <1>9, Zenon DEF Drop
  <2>2. \A k \in Handles : Mine(k)' = Mine(k)
    BY <1>2, <2>1 DEF Mine, ProcessTyped, NoHandle
  <2>3. held' = held
    BY <1>2, <2>1, Zenon DEF TablesOK, HeldCounted, ProcessTyped
  <2>4. ProcessTyped'
    BY <1>2, <2>1, Zenon DEF ProcessTyped
  <2>5. DeviceLives'
    BY <1>2, <2>1, <2>2, Zenon DEF DeviceLives, ProcessTyped
  <2> QED BY <1>2, <1>3, <2>1, <2>2, <2>3, <2>4, <2>5, Zenon
<1>10. ASSUME NEW h \in Handles, RegisterInit(h) PROVE Done
  <2>1. handle' = handle /\ held' = held /\ bo' = bo /\ table' = table /\ opens' = opens /\ misused' = misused
        /\ entering' = entering \union {h} /\ handle[h].by = "import" /\ gbm # "dangling"
    BY <1>2, <1>10, Zenon DEF RegisterInit
  <2>2. gbm' = "live"
    BY <1>2, <1>10, <2>1, Zenon DEF RegisterInit, gbm_init, ProcessTyped
  <2>3. \A k \in Handles : Mine(k)' = Mine(k)
    BY <2>1, Zenon DEF Mine
  <2>4. ProcessTyped' /\ DeviceLives'
    BY <1>2, <2>1, <2>2, Zenon DEF ProcessTyped, DeviceLives
  <2> QED BY <1>2, <1>3, <2>1, <2>3, <2>4, Zenon
<1>11. ASSUME NEW h \in Handles, Register(h) PROVE Done
  <2>1. h \in entering /\ entering' = entering \ {h} /\ gbm' = gbm /\ opens' = opens /\ held' = held
        /\ handle[h].by = "import" /\ gbm = "live"
    BY <1>2, <1>11, Zenon DEF Register, DeviceLives
  <2>2. CASE \E b \in Bos : ~bo[b].live /\ Registers(h, b)
    <3>1. PICK b \in Bos : ~bo[b].live /\ Registers(h, b)
      BY <2>2, Zenon
    <3>2. bo' = NewBo(b, handle[h].shape) /\ table' = [table EXCEPT ![h] = b]
          /\ handle' = [handle EXCEPT ![h].by = "registered"] /\ misused' = Blame("import")
      BY <2>1, <3>1, Zenon DEF Registers, Imported
    <3>3. handle[h] = [by |-> handle[h].by, shape |-> handle[h].shape]
      BY <1>2, <2>1 DEF ProcessTyped, NoHandle
    <3>4. handle' = [handle EXCEPT ![h] = [by |-> "registered", shape |-> handle[h].shape]]
      BY <3>2, <3>3, HandleMarked, Zenon
    <3>5. ~Mine(h) /\ \A k \in Handles : Mine(k)' = (Mine(k) \/ k = h)
      BY <1>2, <2>1, <3>4 DEF Mine, ProcessTyped
    <3>6. TablesOK'
      BY <1>2, <2>1, <3>1, <3>2, <3>5, Gains, Zenon
    <3>7. ProcessTyped'
      BY <1>2, <2>1, <3>4, Zenon DEF ProcessTyped
    <3>8. DeviceLives'
      BY <1>2, <2>1, <3>4, Zenon DEF DeviceLives, ProcessTyped
    <3>9. misused' = {}
      BY <1>2, <2>1, <3>2, Zenon DEF Blame, Note
    <3> QED BY <3>6, <3>7, <3>8, <3>9, Zenon
  <2>3. CASE bo' = bo /\ table' = table /\ handle' = handle /\ misused' = misused
    <3>1. \A k \in Handles : Mine(k)' = Mine(k)
      BY <2>3, Zenon DEF Mine
    <3>2. ProcessTyped' /\ DeviceLives'
      BY <1>2, <2>1, <2>3, Zenon DEF ProcessTyped, DeviceLives
    <3> QED BY <1>2, <1>3, <2>1, <2>3, <3>1, <3>2, Zenon
  <2> QED BY <1>11, <2>2, <2>3, Zenon DEF Register
<1>12. ASSUME NEW h \in Handles, Unregister(h) PROVE Done
  <2>1. gbm_free(h) /\ held' = [held EXCEPT ![h] = 0]
        /\ entering' = entering /\ gbm' = gbm /\ opens' = opens /\ misused' \in {misused, Blame("free")}
        /\ handle[h].by = "registered" /\ h \notin entering
    BY <1>2, <1>12, Zenon DEF Unregister
  <2>2. handle' = [handle EXCEPT ![h].by = "import"]
    BY <1>12, <2>1, Zenon DEF Unregister, Imported
  <2>3. handle[h] = [by |-> handle[h].by, shape |-> handle[h].shape]
    BY <1>2, <2>1 DEF ProcessTyped, NoHandle
  <2>4. handle' = [handle EXCEPT ![h] = [by |-> "import", shape |-> handle[h].shape]]
    BY <2>2, <2>3, HandleMarked, Zenon
  <2>5. Mine(h) /\ gbm = "live"
    BY <1>2, <2>1, Zenon DEF Mine, DeviceLives
  <2>6. \A k \in Handles : Mine(k)' = (Mine(k) /\ k # h)
    BY <1>2, <2>1, <2>4 DEF Mine, ProcessTyped
  <2>7. TablesOK'
    BY <1>2, <2>1, <2>5, <2>6, Loses, Zenon DEF ProcessTyped
  <2>8. ProcessTyped'
    BY <1>2, <2>1, <2>4, Zenon DEF ProcessTyped
  <2>9. DeviceLives'
    BY <1>2, <2>1, <2>4, <2>5, Zenon DEF DeviceLives, ProcessTyped
  <2>10. misused' = {}
    BY <1>2, <2>1, <2>5, Zenon DEF Blame, Note
  <2> QED BY <2>7, <2>8, <2>9, <2>10, Zenon
<1>13. ASSUME NEW h \in Handles, NEW u \in LockUsages, NEW r \in Regions, LockBuffer(h, u, r) PROVE Done
  <2> DEFINE b == table[h]
  <2>1. Mine(h) /\ handle' = handle /\ entering' = entering /\ gbm' = gbm /\ opens' = opens
    BY <1>2, <1>13, Zenon DEF LockBuffer
  <2>2. b \in Bos /\ gbm = "live" /\ held[h] = bo[b].data.count /\ held[h] \in Nat
    BY <1>2, <2>1, Zenon DEF TablesOK, Backed, HeldCounted, DeviceLives, ProcessTyped
  <2>3. /\ table' = table /\ bo'[b].live = bo[b].live
        /\ \A c \in Bos \ {b} : bo'[c] = bo[c]
        /\ \/ /\ bo'[b].data.count = bo[b].data.count + 1
              /\ held' = [held EXCEPT ![h] = IF careful THEN @ + 1 ELSE @]
              /\ misused' \in {misused, Blame("map")}
           \/ /\ bo'[b].data.count = bo[b].data.count
              /\ held' = held /\ misused' = misused
    BY <1>13, <2>2, LockStep, Zenon
  <2>4. PICK n \in Nat : bo'[b].data.count = n /\ held' = [held EXCEPT ![h] = n]
    BY <1>2, <2>2, <2>3 DEF ProcessTyped
  <2>5. TablesOK'
    BY <1>2, <2>1, <2>3, <2>4, Counts, Zenon DEF ProcessTyped
  <2>6. misused' = {}
    BY <1>2, <2>2, <2>3, Zenon DEF Blame, Note
  <2>7. ProcessTyped'
    BY <1>2, <2>1, <2>4, Zenon DEF ProcessTyped
  <2>8. DeviceLives'
    BY <1>2, <2>1, Zenon DEF DeviceLives, Mine
  <2> QED BY <2>5, <2>6, <2>7, <2>8, Zenon
<1>14. ASSUME NEW h \in Handles, UnlockBuffer(h) PROVE Done
  <2> DEFINE b == table[h]
  <2>1. held[h] > 0 /\ handle' = handle /\ entering' = entering /\ gbm' = gbm /\ opens' = opens
    BY <1>2, <1>14, Zenon DEF UnlockBuffer
  <2>2. Mine(h)
    BY <1>2, <2>1 DEF TablesOK, HeldCounted
  <2>3. b \in Bos /\ held[h] = bo[b].data.count /\ held[h] \in Nat
    BY <1>2, <2>2, Zenon DEF TablesOK, Backed, HeldCounted, ProcessTyped
  <2>4. /\ table' = table /\ bo'[b].live = bo[b].live
        /\ \A c \in Bos \ {b} : bo'[c] = bo[c]
        /\ bo'[b].data.count = bo[b].data.count - 1
        /\ misused' = misused
        /\ held' = [held EXCEPT ![h] = IF @ > 0 THEN @ - 1 ELSE 0]
    BY <1>14, <2>1, <2>3, UnlockStep, Zenon
  <2>5. PICK n \in Nat : bo'[b].data.count = n /\ held' = [held EXCEPT ![h] = n]
    <3>1. held[h] - 1 \in Nat /\ bo'[b].data.count = held[h] - 1
      BY <2>1, <2>3, <2>4
    <3>2. held' = [held EXCEPT ![h] = held[h] - 1]
      BY <2>1, <2>4, Zenon
    <3> HIDE DEF b
    <3> QED BY <3>1, <3>2, Zenon
  <2>6. TablesOK'
    <3>1. held \in [Handles -> Nat] /\ table' = table
      BY <1>2, <2>4, Zenon DEF ProcessTyped
    <3>2. bo'[table[h]].live = bo[table[h]].live /\ bo'[table[h]].data.count = n
      BY <2>4, <2>5, Zenon
    <3>3. \A c \in Bos \ {table[h]} : bo'[c] = bo[c]
      BY <2>4, Zenon
    <3> QED BY <1>2, <2>1, <2>2, <2>5, <3>1, <3>2, <3>3, Counts, ZenonT(30)
  <2>7. ProcessTyped'
    BY <1>2, <2>1, <2>5, Zenon DEF ProcessTyped
  <2>8. DeviceLives'
    BY <1>2, <2>1, Zenon DEF DeviceLives, Mine
  <2> QED BY <1>2, <2>4, <2>6, <2>7, <2>8, Zenon
<1>15. CASE UNCHANGED grallocVars
  <2>1. \A k \in Handles : Mine(k)' = Mine(k)
    BY <1>15, Zenon DEF grallocVars, Mine
  <2>2. ProcessTyped' /\ DeviceLives'
    BY <1>2, <1>15, Zenon DEF grallocVars, ProcessTyped, DeviceLives, Mine
  <2> QED BY <1>2, <1>3, <1>15, <2>1, <2>2, Zenon DEF grallocVars
<1> QED
  BY <1>4, <1>5, <1>6, <1>7, <1>8, <1>9, <1>10, <1>11, <1>12, <1>13, <1>14, <1>15, Zenon DEF GrallocNext

\* The careful process's promises hold at all times.
LEMMA CarefulInvariant == ASSUME Marks PROVE GrallocSpec => [](TypeInv /\ CInv)
<1>1. GrallocInit => CInv
  <2> SUFFICES ASSUME GrallocInit PROVE ProcessTyped /\ TablesOK /\ DeviceLives /\ misused = {}
    BY Zenon DEF CInv
  <2>1. \A h \in Handles : ~Mine(h)
    BY Zenon DEF GrallocInit, NoHandle, Mine
  <2>2. ProcessTyped
    BY Zenon DEF GrallocInit, ProcessTyped
  <2>3. TablesOK
    BY <2>1, Zenon DEF GrallocInit, TablesOK, Backed, OwnBo, NoneLost, HeldCounted, Marks, NoObject
  <2>4. DeviceLives
    BY <2>1 DEF GrallocInit, DeviceLives
  <2> QED BY <2>2, <2>3, <2>4, Zenon DEF GrallocInit
<1>2. TypeInv /\ CInv /\ [GrallocNext]_grallocVars => CInv'
  BY CarefulStep, Zenon
<1> QED BY <1>1, <1>2, TypeInvariant, PTL DEF GrallocSpec

\* A careful process always finds its buffers backed, each by a bo of its own,
\* and loses none: the table and the handles agree at every step, the one
\* between the two critical sections of gbm_mod_register_buffer included.
THEOREM GrallocBuffersBacked == GrallocSpec => []BuffersBacked
<1>1. CInv => BuffersBacked
  BY Zenon DEF CInv, TablesOK, Backed, OwnBo, NoneLost, BuffersBacked
<1> QED BY <1>1, Marked, CarefulInvariant, PTL

\* A careful process never makes the module use a GBM device that has been
\* destroyed, unlock a bo without user data or unmap what is not mapped.
THEOREM GrallocNoMisuse == GrallocSpec => []NoMisuse
<1>1. CInv => NoMisuse
  BY Zenon DEF CInv, NoMisuse
<1> QED BY <1>1, Marked, CarefulInvariant, PTL

-----------------------------------------------------------------------------
(* What is mapped lies inside the bo.                                      *)

Fits(o, f) ==
  o.data.map # <<>> => /\ o.data.map[1] <= o.w + Overhang(f, o.data.map[3])
                       /\ o.data.map[2] <= o.h

SizeOK(h) ==
  /\ Has(h) => handle[h].shape \in Shapes
  /\ Mine(h) => Sized(bo[table[h]], handle[h].shape) /\ Fits(bo[table[h]], handle[h].shape.format)

SizesInv == careful => \A h \in Handles : SizeOK(h)

\* The size is converted the same way and in step: a region inside the buffer
\* is mapped inside the bo, but for half its offset.
LEMMA ExtentFits ==
  ASSUME NEW s \in Shapes, NEW r \in Regions, Inside(r, s), NEW o, Sized(o, s),
         o.data.map = MapExtent(s.format, r)
  PROVE  Fits(o, s.format)
<1>1. /\ s.w \in Nat /\ s.h \in Nat
      /\ r.x \in Nat /\ r.y \in Nat /\ r.w \in Nat /\ r.h \in Nat
  BY GrallocAssumption, Zenon
<1>2. /\ o.data.map[1] = r.x + Width(s.format, r.w) /\ o.data.map[2] = r.y + Height(s.format, r.h)
      /\ o.data.map[3] = r.x
  BY DEF MapExtent
<1>3. r.x + Width(s.format, r.w) <= Width(s.format, s.w) + Overhang(s.format, r.x)
  BY <1>1 DEF Inside, Width, Overhang
<1>4. r.y + Height(s.format, r.h) <= Height(s.format, s.h)
  BY <1>1 DEF Inside, Height
<1> QED BY <1>2, <1>3, <1>4, Zenon DEF Fits, Sized

\* A handle and its bo are left alone.
LEMMA SizeKept ==
  ASSUME NEW k, SizeOK(k), handle'[k] = handle[k], table'[k] = table[k],
         Mine(k) => bo'[table[k]] = bo[table[k]]
  PROVE  SizeOK(k)'
BY Zenon DEF SizeOK, Has, Mine

\* Every step keeps the sizes of a careful process's buffers.
LEMMA SizesStep ==
  ASSUME Marks, TypeInv, CInv, SizesInv, [GrallocNext]_grallocVars
  PROVE  SizesInv'
<1> SUFFICES ASSUME careful', NEW k \in Handles PROVE SizeOK(k)'
  BY Zenon DEF SizesInv
<1>1. careful' = careful
  BY ZenonT(30) DEF GrallocNext, grallocVars, Open, Close, Alloc, Receive, Free, Drop, RegisterInit, Register, Unregister, LockBuffer, UnlockBuffer
<1>2. careful /\ ProcessTyped /\ TablesOK /\ SizeOK(k)
  BY <1>1, Zenon DEF CInv, SizesInv
<1>3. Mine(k) => table[k] \in Bos /\ bo[table[k]].live
  BY <1>2, Zenon DEF TablesOK, Backed
<1>4. ASSUME handle' = handle, table' = table, bo' = bo PROVE SizeOK(k)'
  BY <1>2, <1>4, SizeKept, Zenon
<1>5. ASSUME NEW h \in Handles, NEW s \in Shapes, Alloc(h, s) PROVE SizeOK(k)'
  <2>1. PICK b \in Bos : ~bo[b].live /\ bo' = NewBo(b, s) /\ table' = Emplaced(h, b)
    BY <1>5, Zenon DEF Alloc
  <2>2. handle' = [handle EXCEPT ![h] = [by |-> "alloc", shape |-> s]] /\ ~Mine(h)
    BY <1>5, Zenon DEF Alloc, Has, Mine
  <2>3. table' = [table EXCEPT ![h] = b]
    BY <1>2, <2>1, <2>2, Zenon DEF TablesOK, Backed, Emplaced
  <2>4. bo'[b].data = NoData /\ Sized(bo'[b], s) /\ \A c \in Bos \ {b} : bo'[c] = bo[c]
    BY <2>1, NewBoStep, Zenon DEF TypeInv
  <2>5. CASE k = h
    <3>1. table'[k] = b /\ handle'[k].shape = s
      BY <1>2, <2>2, <2>3, <2>5, Zenon DEF TypeInv, ProcessTyped
    <3>2. Fits(bo'[b], s.format)
      BY <2>4 DEF Fits, NoData
    <3> QED BY <2>4, <3>1, <3>2, Zenon DEF SizeOK
  <2>6. CASE k # h
    <3>1. handle'[k] = handle[k] /\ table'[k] = table[k]
      BY <1>2, <2>2, <2>3, <2>6, Zenon DEF TypeInv, ProcessTyped
    <3>2. Mine(k) => bo'[table[k]] = bo[table[k]]
      BY <1>3, <2>1, <2>4, Zenon
    <3> QED BY <1>2, <3>1, <3>2, SizeKept, Zenon
  <2> QED BY <2>5, <2>6, Zenon
<1>6. ASSUME NEW h \in Handles, Register(h) PROVE SizeOK(k)'
  <2>1. CASE \E b \in Bos : ~bo[b].live /\ Registers(h, b)
    <3>1. PICK b \in Bos : ~bo[b].live /\ Registers(h, b)
      BY <2>1, Zenon
    <3>0. handle[h].by = "import"
      BY <1>2, <1>6, Zenon DEF Register, CInv, DeviceLives
    <3>2. bo' = NewBo(b, handle[h].shape) /\ table' = [table EXCEPT ![h] = b]
          /\ handle' = [handle EXCEPT ![h].by = "registered"]
      BY <3>0, <3>1, Zenon DEF Registers, Imported
    <3>3. handle[h] = [by |-> handle[h].by, shape |-> handle[h].shape]
      BY <1>2, <3>0 DEF ProcessTyped, NoHandle
    <3>4. handle' = [handle EXCEPT ![h] = [by |-> "registered", shape |-> handle[h].shape]]
      BY <3>2, <3>3, HandleMarked, Zenon
    <3>5. bo'[b].data = NoData /\ Sized(bo'[b], handle[h].shape) /\ \A c \in Bos \ {b} : bo'[c] = bo[c]
      BY <3>2, NewBoStep, Zenon DEF TypeInv
    <3>6. CASE k = h
      <4>1. table'[k] = b /\ handle'[k].shape = handle[k].shape /\ handle[k].shape \in Shapes
        <5>1. table'[k] = b
          BY <3>2, <3>6, Zenon DEF TypeInv
        <5>2. handle'[k].shape = handle[k].shape
          BY <1>2, <3>4, <3>6, Zenon DEF ProcessTyped
        <5>3. handle[k].shape \in Shapes
          BY <1>2, <3>0, <3>6, Zenon DEF SizeOK, Has
        <5> QED BY <5>1, <5>2, <5>3, Zenon
      <4>2. Fits(bo'[b], handle[h].shape.format)
        BY <3>5 DEF Fits, NoData
      <4> QED BY <3>5, <3>6, <4>1, <4>2, Zenon DEF SizeOK
    <3>7. CASE k # h
      <4>1. handle'[k] = handle[k] /\ table'[k] = table[k]
        BY <1>2, <3>2, <3>4, <3>7, Zenon DEF TypeInv, ProcessTyped
      <4>2. Mine(k) => bo'[table[k]] = bo[table[k]]
        BY <1>3, <3>1, <3>5, Zenon
      <4> QED BY <1>2, <4>1, <4>2, SizeKept, Zenon
    <3> QED BY <3>6, <3>7, Zenon
  <2>2. CASE UNCHANGED <<bo, table, handle>>
    BY <1>4, <2>2, Zenon
  <2> QED BY <1>6, <2>1, <2>2, Zenon DEF Register
<1>7. ASSUME NEW h \in Handles, Free(h) \/ Unregister(h) PROVE SizeOK(k)'
  <2>1. gbm_free(h) /\ Mine(h)
    BY <1>2, <1>7, Zenon DEF Free, Unregister, Mine
  <2>2. table[h] \in Bos
    BY <1>2, <2>1, Zenon DEF TablesOK, Backed
  <2>3. /\ table' = [table EXCEPT ![h] = Absent]
        /\ \A c \in Bos \ {table[h]} : bo'[c] = bo[c]
    BY <2>1, <2>2, FreeStep, Zenon
  <2>4. \A j \in Handles \ {h} : handle'[j] = handle[j]
    BY <1>2, <1>7, Zenon DEF Free, Unregister, ProcessTyped
  <2>5. CASE k # h
    <3>1. handle'[k] = handle[k] /\ table'[k] = table[k]
      BY <2>3, <2>4, <2>5, Zenon DEF TypeInv
    <3>2. Mine(k) => table[k] # table[h]
      BY <1>2, <1>3, <2>5, Zenon DEF TablesOK, OwnBo
    <3> QED BY <1>2, <1>3, <2>3, <3>1, <3>2, SizeKept, Zenon
  <2>6. CASE k = h /\ Free(h)
    <3>1. handle'[k] = NoHandle
      BY <1>2, <2>6, Zenon DEF Free, ProcessTyped
    <3> QED BY <3>1 DEF SizeOK, Has, Mine, NoHandle
  <2>7. CASE k = h /\ Unregister(h)
    <3>1. handle[h].by = "registered" /\ handle' = [handle EXCEPT ![h].by = "import"]
      BY <1>2, <2>7, Zenon DEF Unregister, Imported
    <3>2. handle[h] = [by |-> handle[h].by, shape |-> handle[h].shape]
      BY <1>2, <3>1 DEF ProcessTyped, NoHandle
    <3>3. handle' = [handle EXCEPT ![h] = [by |-> "import", shape |-> handle[h].shape]]
      BY <3>1, <3>2, HandleMarked, Zenon
    <3>4. handle'[k].by = "import" /\ handle'[k].shape = handle[k].shape
      BY <1>2, <2>7, <3>3, Zenon DEF ProcessTyped
    <3> QED BY <1>2, <2>7, <3>1, <3>4, Zenon DEF SizeOK, Has, Mine
  <2> QED BY <1>7, <2>5, <2>6, <2>7, Zenon
<1>8. ASSUME NEW h \in Handles, \/ Drop(h) \/ \E s \in Shapes : Receive(h, s)
      PROVE  SizeOK(k)'
  <2>1. /\ UNCHANGED <<bo, table>>
        /\ \A j \in Handles \ {h} : handle'[j] = handle[j]
        /\ \/ handle'[h] = NoHandle
           \/ \E s \in Shapes : handle'[h] = [by |-> "import", shape |-> s]
    BY <1>2, <1>8, Zenon DEF Drop, Receive, ProcessTyped
  <2>2. CASE k # h
    BY <1>2, <2>1, <2>2, SizeKept, Zenon
  <2>3. CASE k = h
    <3>1. CASE handle'[h] = NoHandle
      BY <2>3, <3>1 DEF SizeOK, Has, Mine, NoHandle
    <3>2. ASSUME NEW s \in Shapes, handle'[h] = [by |-> "import", shape |-> s] PROVE SizeOK(k)'
      <4>1. handle'[k].by = "import" /\ handle'[k].shape = s
        BY <2>3, <3>2
      <4> QED BY <4>1, Zenon DEF SizeOK, Mine
    <3> QED BY <2>1, <3>1, <3>2, Zenon
  <2> QED BY <2>2, <2>3, Zenon
<1>9. ASSUME NEW h \in Handles, Mine(h), handle' = handle, table' = table,
             SameSize(bo'[table[h]], bo[table[h]]),
             bo'[table[h]].data.map \in {bo[table[h]].data.map, <<>>}
               \/ Fits(bo'[table[h]], handle[h].shape.format),
             \A c \in Bos \ {table[h]} : bo'[c] = bo[c]
      PROVE  SizeOK(k)'
  <2>1. CASE k # h
    <3>1. Mine(k) => table[k] # table[h]
      BY <1>2, <1>3, <2>1, Zenon DEF TablesOK, OwnBo
    <3> QED BY <1>2, <1>3, <1>9, <3>1, SizeKept, Zenon
  <2>2. CASE k = h
    <3>1. Sized(bo'[table[k]], handle[k].shape)
      BY <1>2, <1>9, <2>2, Zenon DEF SizeOK, Sized, SameSize
    <3>2. Fits(bo'[table[k]], handle[k].shape.format)
      BY <1>2, <1>9, <2>2, Zenon DEF SizeOK, Fits, SameSize
    <3> QED BY <1>2, <1>9, <2>2, <3>1, <3>2, Zenon DEF SizeOK, Has, Mine
  <2> QED BY <2>1, <2>2, Zenon
<1>10. ASSUME NEW h \in Handles, NEW u \in LockUsages, NEW r \in Regions, LockBuffer(h, u, r)
       PROVE  SizeOK(k)'
  <2> DEFINE b == table[h]
             s == handle[h].shape
  <2>1. Mine(h) /\ handle' = handle /\ Inside(r, s)
    BY <1>2, <1>10, Zenon DEF LockBuffer
  <2>2. b \in Bos /\ s \in Shapes /\ Sized(bo[b], s)
    <3>1. SizeOK(h)
      BY <1>2, Zenon DEF SizesInv
    <3> QED BY <1>2, <2>1, <3>1, Zenon DEF TablesOK, Backed, SizeOK, Has, Mine
  <2>3. /\ table' = table /\ SameSize(bo'[b], bo[b])
        /\ bo'[b].data.map \in {bo[b].data.map, MapExtent(s.format, r)}
        /\ \A c \in Bos \ {b} : bo'[c] = bo[c]
    BY <1>10, <2>2, LockStep, Zenon
  <2>4. Sized(bo'[b], s)
    BY <2>2, <2>3, Zenon DEF Sized, SameSize
  <2>5. bo'[b].data.map = bo[b].data.map \/ Fits(bo'[b], s.format)
    BY <2>1, <2>2, <2>3, <2>4, ExtentFits, ZenonT(30)
  <2> QED BY <1>9, <2>1, <2>3, <2>5, Zenon
<1>11. ASSUME NEW h \in Handles, UnlockBuffer(h) PROVE SizeOK(k)'
  <2> DEFINE b == table[h]
  <2>1. held[h] > 0 /\ handle' = handle
    BY <1>2, <1>11, Zenon DEF UnlockBuffer
  <2>2. Mine(h) /\ b \in Bos
    BY <1>2, <2>1 DEF TablesOK, HeldCounted, Backed
  <2>3. /\ table' = table /\ SameSize(bo'[b], bo[b])
        /\ bo'[b].data.map \in {bo[b].data.map, <<>>}
        /\ \A c \in Bos \ {b} : bo'[c] = bo[c]
    BY <1>11, <2>2, UnlockStep, Zenon
  <2> QED BY <1>9, <2>1, <2>2, <2>3, Zenon
<1>12. CASE Open \/ Close \/ UNCHANGED grallocVars \/ \E h \in Handles : RegisterInit(h)
  BY <1>4, <1>12, Zenon DEF Open, Close, grallocVars, RegisterInit
<1> QED
  BY <1>5, <1>6, <1>7, <1>8, <1>10, <1>11, <1>12, Zenon DEF GrallocNext

\* What a careful process maps lies inside the bo, whatever the shapes of its
\* buffers and the regions of its locks: gralloc_gbm_bo_create, the import and
\* gbm_map convert the size of a YV12 buffer alike.  Of a YV12 buffer gbm_map
\* does not convert the offset, and half of it may lie beyond the bo.
THEOREM GrallocMapInside == GrallocSpec => []MapInside
<1>1. GrallocInit => SizesInv
  BY DEF GrallocInit, SizesInv, SizeOK, Has, Mine, NoHandle
<1>2. Marks /\ TypeInv /\ CInv /\ SizesInv /\ [GrallocNext]_grallocVars => SizesInv'
  BY SizesStep, Zenon
<1>3. SizesInv => MapInside
  BY Zenon DEF SizesInv, SizeOK, Fits, MapInside
<1> QED BY <1>1, <1>2, <1>3, Marked, CarefulInvariant, PTL DEF GrallocSpec
=============================================================================
