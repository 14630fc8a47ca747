---------------------------- MODULE RmtfsStorage ----------------------------
(***************************************************************************)
(* The remote file system service of the modem, qcom/rmtfs: the request    *)
(* handlers of rmtfs.c, the handles and their contents in storage.c and    *)
(* the memory shared with the modem in sharedmem.c.                        *)
(*                                                                         *)
(* A file, a shadow buffer and the shared memory are sequences of sectors; *)
(* a sector is one value.  The daemon handles one request at a time.  Each *)
(* handler is one action, except rmtfs_iovec, whose loops are one action   *)
(* per sector: any sector may fail, and the ones before it stay moved.     *)
(* The files are partitions of a fixed size (option -P).                   *)
(***************************************************************************)
EXTENDS Integers, Sequences

CONSTANTS
  Nodes,        \* the nodes that send requests
  Partitions,   \* the paths of partition_table
  Paths,        \* the paths requests name
  MaxCallers,   \* MAX_CALLERS
  FileSize,     \* the length of a partition
  MaxSize,      \* STORAGE_MAX_SIZE
  MemSize,      \* the length of the shared memory
  Wrap,         \* the sectors of 2^32 bytes (2^23)
  Values, Zero, \* contents of a sector, and the cleared one
  Iovecs,       \* the iovec arrays requests carry
  Null

Ids == 0 .. MaxCallers-1

\* An iovec entry: sector_addr, phys_offset (in sectors) and num_sector.
Entries == [sector : Nat, phys : Nat, num : Nat]

ASSUME PartitionsAssumption == Partitions \subseteq Paths /\ Null \notin Partitions
ASSUME BoundsAssumption ==
  /\ MaxCallers \in Nat /\ FileSize \in Nat /\ MaxSize \in Nat /\ MemSize \in Nat
  /\ Wrap \in Nat \ {0}
ASSUME ValuesAssumption == Zero \in Values /\ Null \notin Seq(Values)
ASSUME IovecsAssumption == Iovecs \subseteq Seq(Entries)

\* A call of rmtfs_iovec under way: its request and the two loops' cursors.
Requests ==
  [node : Nodes, id : Ids, write : BOOLEAN, iovec : Iovecs, i : Nat \ {0}, j : Nat]

ASSUME RequestsAssumption == Null \notin Requests

VARIABLES
  storage_read_only,   \* option -r
  verbose,      \* option -v
  disciplined,  \* whether requests only name handles their node has open and read
                \* only what the file has, and files do not fail
  rmtfds,   \* the handles
  disk,     \* the contents of the partitions
  mem,      \* the memory shared with the modem
  io,       \* the loops of rmtfs_iovec, or Null
  resp,     \* the last response
  up        \* whether the daemon runs, with its memory intact

vars == <<storage_read_only, verbose, disciplined, rmtfds, disk, mem, io, resp, up>>

\* Whether file operations may fail.
Faults == ~disciplined

InUse(r) == r.fd # Null \/ r.shadow_buf # Null

Free == {i \in Ids : ~InUse(rmtfds[i])}

\* Fault: any node may use any handle.
GetsAny(n, id) == id \in Ids

\* storage_get: a handle is the caller's by its node alone.  Ids from MAX_CALLERS
\* on are refused; one from 2^31 on is a negative int here (see GetOutside).
Gets(n, id) == id \in Ids /\ rmtfds[id].node = n

\* A node's open handle of a partition.
Holds(n, id) == Gets(n, id) /\ InUse(rmtfds[id])

MayUse(n, id) == disciplined => Holds(n, id)

\* The sectors of an open file.  The last one may be partly there.
Extent(r) ==
  IF ~storage_read_only THEN FileSize ELSE IF r.shadow_buf = Null THEN 0 ELSE Len(r.shadow_buf)

\* The first sector of an entry: sector_addr * SECTOR_SIZE has 32 bits.
SectorBase(e) == e.sector % Wrap

MayRead(id, iovec) ==
  disciplined => \A k \in 1 .. Len(iovec) :
                   SectorBase(iovec[k]) + iovec[k].num <= Extent(rmtfds[id]) + 1

Respond(n, op, id, ok) == resp' = [node |-> n, op |-> op, id |-> id, ok |-> ok]

-----------------------------------------------------------------------------
(* storage_open and rmtfs_open.                                            *)

\* Fault: storage_open does not look for an open handle.
OpenedNever(n, path) == {}

Opened(n, path) ==
  {i \in Ids : /\ InUse(rmtfds[i])
               /\ rmtfds[i].node = n
               /\ rmtfds[i].partition = path}

First(S) == CHOOSE i \in S : \A j \in S : i <= j

\* The handle once the partition's file is open, or copied to the shadow.
OpenHandle(n, path) ==
  [node |-> n, partition |-> path,
   fd |-> IF storage_read_only THEN Null ELSE path,
   shadow_buf |-> IF storage_read_only THEN disk[path] ELSE Null]

\* An unknown path, no free handle, or a file that does not open.
OpenRefused(n, path) ==
  /\ \/ path \notin Partitions
     \/ Opened(n, path) = {} /\ (Free = {} \/ Faults)
  /\ Respond(n, "open", Null, FALSE)
  /\ UNCHANGED <<rmtfds, disk, mem, io, up>>

OpenAgain(n, path) ==
  /\ path \in Partitions
  /\ Opened(n, path) # {}
  /\ Respond(n, "open", First(Opened(n, path)), TRUE)
  /\ UNCHANGED <<rmtfds, disk, mem, io, up>>

OpenNew(n, path) ==
  /\ path \in Partitions
  /\ Opened(n, path) = {}
  /\ Free # {}
  /\ rmtfds' = [rmtfds EXCEPT ![First(Free)] = OpenHandle(n, path)]
  /\ Respond(n, "open", First(Free), TRUE)
  /\ UNCHANGED <<disk, mem, io, up>>

Open(n, path) == OpenRefused(n, path) \/ OpenAgain(n, path) \/ OpenNew(n, path)

-----------------------------------------------------------------------------
(* The requests without data.                                              *)

\* Fault: storage_close leaves the shadow.
ClosedKeepsShadow(r) == [r EXCEPT !.fd = Null, !.partition = Null]

\* storage_close: the handle keeps its node.
Closed(r) == [r EXCEPT !.fd = Null, !.shadow_buf = Null, !.partition = Null]

\* The end of rmtfs_close.  Its debug output takes the id for a string.
CloseResponds(n, id, ok) ==
  \/ Respond(n, "close", id, ok) /\ up' = up
  \/ verbose /\ id # 0 /\ up' = FALSE /\ resp' = resp

Close(n, id) ==
  /\ MayUse(n, id)
  /\ IF Gets(n, id)
     THEN rmtfds' = [rmtfds EXCEPT ![id] = Closed(@)] /\ CloseResponds(n, id, TRUE)
     ELSE rmtfds' = rmtfds /\ CloseResponds(n, id, FALSE)
  /\ UNCHANGED <<disk, mem, io>>

\* What lies before rmtfds is taken for a handle.  Its node may not be the
\* caller's, and the request is refused; otherwise a file or memory that is no
\* handle's is closed, freed or written, and the model does not go on.
GetOutside(n, id) ==
  /\ id < 0 /\ ~disciplined
  /\ up' = FALSE
  /\ UNCHANGED <<rmtfds, disk, mem, io, resp>>

\* rmtfs_alloc_buf and rmtfs_mem_alloc: every request that fits gets the
\* start of the shared memory.
AllocBuf(n, size) ==
  /\ Respond(n, "alloc_buf", 0, size <= MemSize)
  /\ UNCHANGED <<rmtfds, disk, mem, io, up>>

\* rmtfs_get_dev_error: an error for a handle storage_get finds, and
\* storage_get_error(NULL) for one it does not.
GetDevError(n, id) ==
  /\ MayUse(n, id)
  /\ \/ (Gets(n, id) \/ id < 0) /\ Respond(n, "dev_error", id, FALSE) /\ up' = up
     \/ ~Gets(n, id) /\ resp' = resp /\ up' = FALSE
  /\ UNCHANGED <<rmtfds, disk, mem, io>>

\* A request that does not decode.
Malformed(n, op) ==
  /\ Respond(n, op, Null, FALSE)
  /\ UNCHANGED <<rmtfds, disk, mem, io, up>>

-----------------------------------------------------------------------------
(* rmtfs_iovec.                                                            *)

IovecStart(n, id, write, iovec) ==
  /\ MayUse(n, id)
  /\ ~write /\ Gets(n, id) => MayRead(id, iovec)
  /\ IF Gets(n, id)
     THEN /\ io' = [node |-> n, id |-> id, write |-> write, iovec |-> iovec,
                    i |-> 1, j |-> 0]
          /\ resp' = resp
     ELSE io' = io /\ Respond(n, "iovec", id, FALSE)
  /\ UNCHANGED <<rmtfds, disk, mem, up>>

InMem(a) == a < MemSize

\* storage_pread: the values it may leave in the buffer.  A failed pread (or
\* one on a closed handle) returns -1, which as size_t is not below nbyte: the
\* buffer keeps what it held.  Past the end of the shadow, shadow_len - offset
\* wraps and whatever lies there is copied.
Pread(r, s) ==
  IF ~storage_read_only
  THEN IF r.fd = Null \/ Faults THEN Values
       ELSE {IF s < FileSize THEN disk[r.fd][s + 1] ELSE Zero}
  ELSE IF s < Extent(r) THEN {r.shadow_buf[s + 1]}
       ELSE IF s = Extent(r) THEN {Zero} ELSE Values

\* Fault: a read at the end of the shadow is outside it.
PreadWildEarly(r, s) == storage_read_only /\ s >= Extent(r)

\* The copy reads outside the shadow: it may fault, and does so when there is
\* no shadow at all.
PreadWild(r, s)   == storage_read_only /\ s > Extent(r)
PreadFaults(r, s) == PreadWild(r, s) /\ r.shadow_buf = Null

\* storage_pwrite of one sector to the shadow.  realloc does not clear what
\* lies between the old end and the sector.
Grown(buf, s, v) ==
  LET old == IF buf = Null THEN <<>> ELSE buf
  IN  {new \in [1 .. (IF s < Len(old) THEN Len(old) ELSE s + 1) -> Values] :
         /\ new[s + 1] = v
         /\ \A k \in 1 .. Len(old) : k # s + 1 => new[k] = old[k]}

PwriteFits(r, s) ==
  IF storage_read_only THEN s + 1 < MaxSize ELSE r.fd # Null /\ s < FileSize

Pwrite(id, s, v) ==
  IF storage_read_only
  THEN /\ \E new \in Grown(rmtfds[id].shadow_buf, s, v) :
            rmtfds' = [rmtfds EXCEPT ![id].shadow_buf = new]
       /\ disk' = disk
  ELSE /\ disk' = [disk EXCEPT ![rmtfds[id].fd] = [@ EXCEPT ![s + 1] = v]]
       /\ rmtfds' = rmtfds

\* The sector the loops are at, and whether its turn has come.
Entry  == io.iovec[io.i]
Sector == SectorBase(Entry) + io.j
Phys   == Entry.phys + io.j
AtSector == io # Null /\ io.i <= Len(io.iovec) /\ io.j < Entry.num

IovecWrite ==
  /\ AtSector /\ io.write
  /\ InMem(Phys) /\ PwriteFits(rmtfds[io.id], Sector)
  /\ Pwrite(io.id, Sector, mem[Phys + 1])
  /\ io' = [io EXCEPT !.j = @ + 1]
  /\ UNCHANGED <<mem, resp, up>>

IovecRead ==
  /\ AtSector /\ ~io.write
  /\ InMem(Phys)
  /\ ~PreadFaults(rmtfds[io.id], Sector)
  /\ \E v \in Pread(rmtfds[io.id], Sector) : mem' = [mem EXCEPT ![Phys + 1] = v]
  /\ io' = [io EXCEPT !.j = @ + 1]
  /\ UNCHANGED <<rmtfds, disk, resp, up>>

\* The daemon dies of the wild read.
IovecCrash ==
  /\ AtSector /\ ~io.write
  /\ PreadWild(rmtfds[io.id], Sector)
  /\ up' = FALSE
  /\ UNCHANGED <<rmtfds, disk, mem, io, resp>>

\* Fault: a request with a write that failed half-way is answered with success.
IovecFailsQuietly ==
  /\ AtSector
  /\ \/ ~InMem(Phys) /\ (io.write \/ ~PreadFaults(rmtfds[io.id], Sector))
     \/ io.write /\ (~PwriteFits(rmtfds[io.id], Sector) \/ Faults)
  /\ Respond(io.node, "iovec", io.id, InMem(Phys) /\ InUse(rmtfds[io.id]))
  /\ io' = Null
  /\ UNCHANGED <<rmtfds, disk, mem, up>>

\* A sector outside the shared memory or the file, or one that fails: the
\* rest of the request is left undone.
IovecFails ==
  /\ AtSector
  /\ \/ ~InMem(Phys) /\ (io.write \/ ~PreadFaults(rmtfds[io.id], Sector))
     \/ io.write /\ (~PwriteFits(rmtfds[io.id], Sector) \/ Faults)
  /\ Respond(io.node, "iovec", io.id, FALSE)
  /\ io' = Null
  /\ UNCHANGED <<rmtfds, disk, mem, up>>

IovecNextEntry ==
  /\ io # Null /\ io.i <= Len(io.iovec) /\ io.j >= Entry.num
  /\ io' = [io EXCEPT !.i = @ + 1, !.j = 0]
  /\ UNCHANGED <<rmtfds, disk, mem, resp, up>>

IovecDone ==
  /\ io # Null /\ io.i > Len(io.iovec)
  /\ Respond(io.node, "iovec", io.id, TRUE)
  /\ io' = Null
  /\ UNCHANGED <<rmtfds, disk, mem, up>>

Iovec == IovecWrite \/ IovecRead \/ IovecCrash \/ IovecFails \/ IovecNextEntry \/ IovecDone

-----------------------------------------------------------------------------
\* The modem fills the shared memory, while none of its requests is served.
ModemStore(a, v) ==
  /\ io = Null
  /\ mem' = [mem EXCEPT ![a] = v]
  /\ UNCHANGED <<rmtfds, disk, io, resp, up>>

Init ==
  /\ storage_read_only \in BOOLEAN /\ verbose \in BOOLEAN /\ disciplined \in BOOLEAN
  /\ rmtfds = [i \in Ids |-> [node |-> 0, fd |-> Null, partition |-> Null,
                              shadow_buf |-> Null]]
  /\ disk \in [Partitions -> {[s \in 1 .. FileSize |-> v] : v \in Values \ {Zero}}]
  /\ mem = [a \in 1 .. MemSize |-> Zero]
  /\ io = Null
  /\ resp = Null
  /\ up = TRUE

\* The ids requests carry, as storage_get's ints.
RequestIds == -1 .. MaxCallers

\* handle_rmtfs: BYE and DEL_CLIENT (rmtfs_bye, rmtfs_del_client) and unknown
\* requests change nothing.
Request(n) ==
  \/ \E path \in Paths : Open(n, path)
  \/ \E id \in RequestIds : Close(n, id) \/ GetDevError(n, id) \/ GetOutside(n, id)
  \/ \E size \in {0, MemSize, MemSize + 1} : AllocBuf(n, size)
  \/ \E op \in {"open", "close", "iovec", "alloc_buf", "dev_error"} : Malformed(n, op)
  \/ \E id \in RequestIds, write \in BOOLEAN, iovec \in Iovecs :
       IovecStart(n, id, write, iovec)

Next ==
  /\ \/ up /\ io = Null /\ \E n \in Nodes : Request(n)
     \/ up /\ Iovec
     \/ \E a \in 1 .. MemSize, v \in Values : ModemStore(a, v)
  /\ UNCHANGED <<storage_read_only, verbose, disciplined>>

Spec == Init /\ [][Next]_vars

-----------------------------------------------------------------------------
\* A node has a partition open at most once ("Check if this node already has
\* the requested path open"): its shadow has no second, diverging copy.
OneHandlePerPartition ==
  \A i, j \in Ids :
    (/\ InUse(rmtfds[i]) /\ InUse(rmtfds[j])
     /\ rmtfds[i].partition # Null
     /\ rmtfds[i].node = rmtfds[j].node
     /\ rmtfds[i].partition = rmtfds[j].partition) => i = j

\* Whatever clients do, a handle with a partition is in use and its file is the
\* partition's.  A handle in use without a partition, which no open finds and
\* only one more close gives back, is the shadow storage_pwrite makes for a
\* closed handle: it takes option -r and a client that writes after its close.
HandlesConsistent ==
  \A i \in Ids :
    LET r == rmtfds[i]
    IN  /\ r.partition # Null => InUse(r)
        /\ r.fd # Null => r.fd = r.partition /\ ~storage_read_only
        /\ InUse(r) /\ r.partition = Null => storage_read_only /\ ~disciplined

\* The daemon survives every sequence of requests on handles that are open, if
\* its debug output is off: with option -v closing a handle other than 0 may
\* bring it down.
StaysUp == disciplined /\ ~verbose => up

\* A handle in use changes only for its own node, and stays the handle of its
\* partition until that node closes it, as long as the daemon is up: not after
\* a request with an id from 2^31 on was not refused.
HandleOwned ==
  [][up' => \A i \in Ids : InUse(rmtfds[i]) /\ rmtfds'[i] # rmtfds[i] =>
       /\ rmtfds[i].node = (IF io # Null THEN io.node ELSE resp'.node)
       /\ \/ InUse(rmtfds'[i]) /\ rmtfds'[i].node = rmtfds[i].node
                               /\ rmtfds'[i].partition = rmtfds[i].partition
          \/ io = Null /\ resp'.op = "close" /\ resp'.id = i]_vars

Content(r, s) ==
  IF s >= Extent(r) THEN Zero
  ELSE IF storage_read_only THEN r.shadow_buf[s + 1] ELSE disk[r.fd][s + 1]

\* The transfers of a request, and those no later one of it overwrites.
Transfers(iovec) ==
  UNION {{k} \X (0 .. iovec[k].num - 1) : k \in 1 .. Len(iovec)}

Later(x, y) == y[1] > x[1] \/ (y[1] = x[1] /\ y[2] > x[2])

File(iovec, x) == SectorBase(iovec[x[1]]) + x[2]
Buf(iovec, x)  == iovec[x[1]].phys + x[2]

Final(iovec, write, x) ==
  \A y \in Transfers(iovec) : Later(x, y) =>
     IF write THEN File(iovec, x) # File(iovec, y) ELSE Buf(iovec, x) # Buf(iovec, y)

\* A request answered with success has moved every sector: the file and the
\* shared memory agree on each sector it names last.  A write says so also when
\* files fail, and on a closed handle; a read may not, for a failed pread and one
\* past the end of a shadow leave what was in the buffer.  The sector an address
\* names is the one modulo 2^23: a transfer beyond is made, and said to be, on
\* the sector the product wraps to.
IovecComplete ==
  [][io # Null /\ (disciplined \/ io.write) /\ io' = Null /\ resp'.ok =>
       \A x \in Transfers(io.iovec) : Final(io.iovec, io.write, x) =>
         mem[Buf(io.iovec, x) + 1] = Content(rmtfds[io.id], File(io.iovec, x))]_vars
=============================================================================
