------------------------------- MODULE Gralloc -------------------------------
(***************************************************************************)
(* The graphics allocator: gralloc/gralloc.cpp, the module and the "gpu0"  *)
(* device a process opens, over gralloc/gralloc_gbm.cpp, the table from    *)
(* buffer handles to the GBM buffer objects (bos) behind them.             *)
(*                                                                         *)
(* Every operation but the device's close runs under dmod->mutex, so it is *)
(* one step; registration takes the mutex twice and is two.  A handle is   *)
(* an address: once its memory is released another buffer may have it.     *)
(*                                                                         *)
(* GBM and the processes that use the module are external.  A careful      *)
(* process follows the gralloc protocol: it locks, unlocks and releases    *)
(* only buffers it has, locks a region inside the buffer, unlocks as often *)
(* as it locks, unregisters what it registered, frees what it allocated,   *)
(* and closes the device for good.                                         *)
(* Any other process may also call every operation out of turn.            *)
(***************************************************************************)
EXTENDS Integers, FiniteSets

CONSTANTS
  Handles,     \* addresses of buffer handles
  Bos,         \* bos GBM can hand out
  Absent, NoBo,  \* not bos
  Shapes,      \* [format, w, h, usage] a buffer can have, usage a set of flags
  LockUsages,  \* the usages of a lock
  Regions,     \* [x, y, w, h] of a lock
  MaxOpens,    \* devices opened
  MaxLocks     \* locks held on one buffer

ASSUME GrallocAssumption ==
  /\ Absent # NoBo /\ Absent \notin Bos /\ NoBo \notin Bos
  /\ \A s \in Shapes : s.w \in Nat /\ s.h \in Nat
  /\ \A r \in Regions : r.x \in Nat /\ r.y \in Nat /\ r.w \in Nat /\ r.h \in Nat

VARIABLES
  careful,     \* whether the process follows the protocol
  gbm,         \* dmod->gbm: "null", "live", or "dangling" once destroyed
  opens,       \* [now, ever]: gpu0 devices open and opened
  handle,      \* the memory of each handle and who made it
  bo,          \* the bo of each identity
  table,       \* gbm_bo_handle_map: a bo, NoBo for a null entry, or Absent
  entering,    \* handles between the two critical sections of a registration
  held,        \* locks a careful process has got and not given back, by handle
  misused      \* undefined behaviour a careful process has met

grallocVars == <<careful, gbm, opens, handle, bo, table, entering, held, misused>>

SW == {"sw_read", "sw_write"}

NoHandle == [by |-> "none"]
NoData   == [count |-> 0, for |-> {}, map |-> <<>>, set |-> FALSE]
NoObject == [live |-> FALSE, w |-> 0, h |-> 0, data |-> NoData]

-----------------------------------------------------------------------------
(* Formats and sizes.                                                      *)

\* get_gbm_format: the formats GBM is asked for; none for the others.
get_gbm_format(format) ==
  CASE format = "YV12" -> "GR88"
    [] format \in {"RGBA", "RGBX", "RGB", "RGB565", "BGRA"} -> format
    [] OTHER -> "none"

\* The size of the bo of a YV12 buffer: 16 bits a pixel, so half as wide, and
\* half as high again for the chroma planes.
Width(format, w)  == IF format = "YV12" THEN w \div 2 ELSE w
Height(format, h) == IF format = "YV12" THEN h + h \div 2 ELSE h

\* Fault: the region mapped is not converted.
MapExtentPlain(format, r) == <<r.x + r.w, r.y + r.h, r.x>>

\* What gbm_map maps of a region: from the origin to its far corner, here with
\* the region's offset.  An offset is not converted: of a planar buffer gbm_map
\* logs that it cannot map with one, and maps.
MapExtent(format, r) == <<r.x + Width(format, r.w), r.y + Height(format, r.h), r.x>>

-----------------------------------------------------------------------------
(* The table.                                                              *)

\* gralloc_gbm_bo_from_handle: operator[] leaves a null entry for an unknown
\* handle.
BoOf(h) == IF table[h] = Absent THEN NoBo ELSE table[h]
Looked(h) == [table EXCEPT ![h] = BoOf(h)]

\* emplace keeps an entry that is there.
Emplaced(h, b) == IF table[h] = Absent THEN [table EXCEPT ![h] = b] ELSE table

\* Fault: the entry outlives the bo.
gbm_free_keeps(h) ==
  IF BoOf(h) = NoBo THEN table' = Looked(h) /\ UNCHANGED bo
  ELSE /\ bo' = [bo EXCEPT ![BoOf(h)] = NoObject]
       /\ UNCHANGED table

\* gbm_free: a null entry stays; a bo goes with its entry, its user data and
\* whatever mapping it has.
gbm_free(h) ==
  IF BoOf(h) = NoBo THEN table' = Looked(h) /\ UNCHANGED bo
  ELSE /\ table' = [table EXCEPT ![h] = Absent]
       /\ bo' = [bo EXCEPT ![BoOf(h)] = NoObject]

\* GBM makes a bo of a shape.
NewBo(b, s) ==
  [bo EXCEPT ![b] = [live |-> TRUE, w |-> Width(s.format, s.w), h |-> Height(s.format, s.h),
                     data |-> NoData]]

\* Undefined behaviour is noted of a careful process, the others ask for it.
Note(bad, what) == IF careful /\ bad THEN misused \union {what} ELSE misused

\* An operation on GBM when its device has been destroyed.
Blame(what) == Note(gbm # "live", what)

Has(h)      == handle[h].by # "none"
Imported(h) == handle[h].by \in {"import", "registered"}
Mine(h)     == handle[h].by \in {"alloc", "registered"}

-----------------------------------------------------------------------------
(* The module and its device.                                              *)

\* gbm_init: dmod->gbm stays set once it has been.
gbm_init(ok) == gbm' = IF gbm = "null" /\ ok THEN "live" ELSE gbm

\* gbm_mod_open_gpu0.
Open ==
  /\ opens.ever < MaxOpens
  /\ careful => gbm # "dangling"
  /\ \/ gbm_init(TRUE) /\ opens' = [now |-> opens.now + 1, ever |-> opens.ever + 1]
     \/ gbm = "null" /\ gbm_init(FALSE) /\ UNCHANGED opens
  /\ UNCHANGED <<careful, handle, bo, table, entering, held, misused>>

\* gbm_mod_close_gpu0: the GBM device goes, without the mutex, and dmod->gbm
\* is left as it was.
Close ==
  /\ opens.now > 0
  /\ careful => opens.now = 1 /\ \A h \in Handles : ~Has(h) /\ h \notin entering
  /\ gbm' = "dangling"
  /\ misused' = Blame("destroy")
  /\ opens' = [opens EXCEPT !.now = @ - 1]
  /\ UNCHANGED <<careful, handle, bo, table, entering, held>>

\* gbm_mod_alloc_gpu0, gralloc_gbm_bo_create, gbm_alloc: a format GBM does not
\* know, or GBM itself, fails it.
Alloc(h, s) ==
  /\ opens.now > 0 /\ ~Has(h)
  /\ get_gbm_format(s.format) # "none"
  /\ \E b \in Bos :
       /\ ~bo[b].live
       /\ bo' = NewBo(b, s)
       /\ table' = Emplaced(h, b)
  /\ handle' = [handle EXCEPT ![h] = [by |-> "alloc", shape |-> s]]
  /\ misused' = Blame("alloc")
  /\ UNCHANGED <<careful, gbm, opens, entering, held>>

\* gbm_mod_free_gpu0: the handle's memory goes too.
Free(h) ==
  /\ opens.now > 0 /\ Has(h)
  /\ careful => handle[h].by = "alloc" /\ held[h] = 0
  /\ h \notin entering
  /\ gbm_free(h)
  /\ misused' = IF BoOf(h) # NoBo THEN Blame("free") ELSE misused
  /\ handle' = [handle EXCEPT ![h] = NoHandle]
  /\ held' = [held EXCEPT ![h] = 0]
  /\ UNCHANGED <<careful, gbm, opens, entering>>

-----------------------------------------------------------------------------
(* Buffers of other processes.                                             *)

\* The process is given a handle, and drops it.
Receive(h, s) ==
  /\ ~Has(h) /\ get_gbm_format(s.format) # "none"
  /\ handle' = [handle EXCEPT ![h] = [by |-> "import", shape |-> s]]
  /\ UNCHANGED <<careful, gbm, opens, bo, table, entering, held, misused>>

Drop(h) ==
  /\ Imported(h) /\ h \notin entering
  /\ careful => ~Mine(h)
  /\ handle' = [handle EXCEPT ![h] = NoHandle]
  /\ held' = [held EXCEPT ![h] = 0]
  /\ UNCHANGED <<careful, gbm, opens, bo, table, entering, misused>>

\* gbm_mod_register_buffer: gbm_init, then the registration.
RegisterInit(h) ==
  /\ Has(h) /\ h \notin entering
  /\ careful => handle[h].by = "import" /\ gbm # "dangling"
  /\ gbm_init(TRUE)
  /\ entering' = entering \union {h}
  /\ UNCHANGED <<careful, opens, handle, bo, table, held, misused>>

Registers(h, b) ==
  /\ bo' = NewBo(b, handle[h].shape)
  /\ table' = [table EXCEPT ![h] = b]
  /\ handle' = IF Imported(h) THEN [handle EXCEPT ![h].by = "registered"] ELSE handle
  /\ misused' = Blame("import")

\* gralloc_gbm_handle_register: a handle with any entry is refused.
Register(h) ==
  /\ h \in entering
  /\ \/ table[h] = Absent /\ \E b \in Bos : ~bo[b].live /\ Registers(h, b)
     \/ UNCHANGED <<bo, table, handle, misused>>
  /\ entering' = entering \ {h}
  /\ UNCHANGED <<careful, gbm, opens, held>>

\* gbm_mod_unregister_buffer: gbm_free, whoever made the handle.
Unregister(h) ==
  /\ Has(h) /\ h \notin entering
  /\ careful => handle[h].by = "registered" /\ held[h] = 0
  /\ gbm_free(h)
  /\ misused' = IF BoOf(h) # NoBo THEN Blame("free") ELSE misused
  /\ handle' = IF Imported(h) THEN [handle EXCEPT ![h].by = "import"] ELSE handle
  /\ held' = [held EXCEPT ![h] = 0]
  /\ UNCHANGED <<careful, gbm, opens, entering>>

-----------------------------------------------------------------------------
(* Locking.                                                                *)

\* The usage must be one the buffer was made for, unless it was made for the
\* CPU to read, for the framebuffer or for texturing.
UsageAllowed(h, u) ==
  LET made == handle[h].shape.usage IN
  u \subseteq made \/ made \intersect {"sw_read", "hw_fb", "hw_texture"} # {}

\* A locked buffer takes another lock only for usages it is locked for.
Compatible(d, u) == d.count > 0 => u \subseteq d.for

\* A lock for the CPU, or of a buffer locked for it, maps the bo, once.
NeedsMap(d, u) == (u \union d.for) \intersect SW # {}

\* Fault: a buffer that is mapped may be mapped again.
LockGrantsAgain(h, u) ==
  LET d == bo[BoOf(h)].data IN
  /\ BoOf(h) # NoBo /\ UsageAllowed(h, u) /\ Compatible(d, u)

LockGrants(h, u) ==
  LET d == bo[BoOf(h)].data IN
  /\ BoOf(h) # NoBo /\ UsageAllowed(h, u) /\ Compatible(d, u)
  /\ NeedsMap(d, u) => d.map = <<>>

\* gralloc_gbm_bo_lock succeeds.
LockGets(h, u, r) ==
  LET d == bo[BoOf(h)].data IN
  /\ bo' = [bo EXCEPT ![BoOf(h)].data =
              [count |-> d.count + 1, for |-> d.for \union u, set |-> TRUE,
               map |-> IF NeedsMap(d, u) THEN MapExtent(handle[h].shape.format, r) ELSE d.map]]
  /\ held' = [held EXCEPT ![h] = IF careful THEN @ + 1 ELSE @]
  /\ misused' = IF NeedsMap(d, u) THEN Blame("map") ELSE misused

\* The user data, once a lock has attached it to the bo.
Attached(d) == [count |-> d.count, for |-> d.for, map |-> d.map, set |-> TRUE]

\* It fails; the user data may have been attached by then.
LockFails(h, u) ==
  /\ bo' = IF BoOf(h) # NoBo /\ UsageAllowed(h, u)
           THEN [bo EXCEPT ![BoOf(h)].data = Attached(@)] ELSE bo
  /\ UNCHANGED <<held, misused>>

\* A region inside a buffer.
Inside(r, s) == r.x + r.w <= s.w /\ r.y + r.h <= s.h

\* gbm_mod_lock.  GBM may fail to map.
LockBuffer(h, u, r) ==
  /\ Has(h) /\ h \notin entering
  /\ careful => Mine(h) /\ Inside(r, handle[h].shape)
  /\ BoOf(h) # NoBo => bo[BoOf(h)].data.count < MaxLocks
  /\ \/ LockGrants(h, u) /\ LockGets(h, u, r)
     \/ /\ LockGrants(h, u) => NeedsMap(bo[BoOf(h)].data, u)
        /\ LockFails(h, u)
  /\ table' = Looked(h)
  /\ UNCHANGED <<careful, gbm, opens, handle, entering>>

\* Fault: what the buffer was locked for is not reset.
UnlockedKeepsFor(d) ==
  IF d.count = 0 THEN d
  ELSE [d EXCEPT !.count = @ - 1, !.map = IF d.for \intersect SW # {} THEN <<>> ELSE @]

\* The user data after gralloc_gbm_bo_unlock: every unlock of a buffer locked
\* for the CPU unmaps it.
Unlocked(d) ==
  IF d.count = 0 THEN d
  ELSE [d EXCEPT !.count = @ - 1,
                 !.for = IF d.count = 1 THEN {} ELSE @,
                 !.map = IF d.for \intersect SW # {} THEN <<>> ELSE @]

\* gbm_mod_unlock: a bo that was never locked has no user data to read.
UnlockBuffer(h) ==
  LET d == bo[BoOf(h)].data IN
  /\ Has(h) /\ h \notin entering
  /\ careful => held[h] > 0
  /\ table' = Looked(h)
  /\ IF BoOf(h) = NoBo THEN UNCHANGED <<bo, held, misused>>
     ELSE /\ bo' = IF d.set THEN [bo EXCEPT ![BoOf(h)].data = Unlocked(d)] ELSE bo
          /\ held' = [held EXCEPT ![h] = IF @ > 0 THEN @ - 1 ELSE 0]
          /\ misused' = Note(~d.set \/ (d.for \intersect SW # {} /\ d.map = <<>>), "unlock")
  /\ UNCHANGED <<careful, gbm, opens, handle, entering>>

-----------------------------------------------------------------------------
GrallocInit ==
  /\ careful \in BOOLEAN
  /\ gbm = "null" /\ opens = [now |-> 0, ever |-> 0]
  /\ handle = [h \in Handles |-> NoHandle]
  /\ bo = [b \in Bos |-> NoObject]
  /\ table = [h \in Handles |-> Absent]
  /\ entering = {} /\ held = [h \in Handles |-> 0]
  /\ misused = {}

GrallocNext ==
  \/ Open \/ Close
  \/ \E h \in Handles :
       \/ \E s \in Shapes : Alloc(h, s) \/ Receive(h, s)
       \/ Free(h) \/ Drop(h)
       \/ RegisterInit(h) \/ Register(h) \/ Unregister(h)
       \/ \E u \in LockUsages, r \in Regions : LockBuffer(h, u, r)
       \/ UnlockBuffer(h)

GrallocSpec == GrallocInit /\ [][GrallocNext]_grallocVars

-----------------------------------------------------------------------------
(* Properties.                                                             *)

\* To a careful process every buffer is backed and nothing is lost: a handle
\* it allocated or registered has a bo of its own, no other handle has an
\* entry, and there is no bo behind no handle.
BuffersBacked ==
  careful =>
    /\ \A h \in Handles :
         IF Mine(h) THEN table[h] \in Bos /\ bo[table[h]].live ELSE table[h] = Absent
    /\ \A h, k \in Handles : h # k /\ table[h] \in Bos => table[h] # table[k]
    /\ \A b \in Bos : bo[b].live => \E h \in Handles : table[h] = b

\* No call of a careful process meets undefined behaviour: no use of the GBM
\* device after its destruction, no unlock without user data, no unmap of
\* what is not mapped.
NoMisuse == careful => misused = {}

\* A bo is mapped exactly while it is locked for the CPU, and such a lock is
\* alone: no unlock leaves another holder without its mapping, whatever order
\* locks and unlocks come in.
MappedWhileLocked ==
  \A b \in Bos : LET d == bo[b].data IN
    /\ (d.map # <<>>) = (d.for \intersect SW # {})
    /\ d.map # <<>> => d.count = 1
    /\ d.count = 0 => d.for = {}

\* The columns by which what is mapped of a planar buffer with an offset x may
\* go beyond the bo.
Overhang(format, x) == IF format = "YV12" THEN (x + 1) \div 2 ELSE 0

\* What a careful process maps by a lock of any region inside the buffer lies
\* inside the bo, allocation, import and mapping converting the size alike; but
\* for a region of a planar buffer that does not start at its left edge, of
\* which half the offset may lie beyond the bo's width (never its height).
MapInside ==
  careful => \A h \in Handles : Mine(h) =>
    LET b == bo[table[h]] IN
    b.data.map # <<>> =>
      /\ b.data.map[1] <= b.w + Overhang(handle[h].shape.format, b.data.map[3])
      /\ b.data.map[2] <= b.h
==============================================================================
