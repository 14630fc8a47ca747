----------------------------- MODULE RmtfsProofs -----------------------------
(***************************************************************************)
(* The rmtfs daemon: its handles and requests (RmtfsStorage), for every    *)
(* set of partitions, every size and every iovec, and its life (RmtfsRun), *)
(* for every number of signals, restarts and requests.                     *)
(***************************************************************************)
EXTENDS RmtfsStorage, RmtfsRun, WellFoundedInduction, SequenceTheorems, TLAPS

-----------------------------------------------------------------------------
(* The daemon's life.                                                      *)

RunTyped ==
  /\ pc \in {"run", "check", "gap", "select", "pipe", "socket", "done"}
  /\ starts \in Nat /\ pipe \in Nat /\ resets \in Nat
  /\ stops \in [state : Nat, pipe : Nat]
  /\ handled \in BOOLEAN /\ stopped \in BOOLEAN /\ inOrder \in BOOLEAN

\* A byte in the pipe, or about to be written there, is one of a "stop" that
\* has returned or failed; main ends for it only after it has read one.
PipeMeansStopped ==
  /\ pipe > 0 \/ stops.pipe > 0 => stopped \/ "write" \in failed
  /\ pc = "pipe" => pipe > 0
  /\ cause = "stopped" => stopped \/ "write" \in failed

\* As long as starts and stops are in order, no "stop" is under way before
\* run_rmtfs has asked for it, and none is behind it; from then on there is no
\* "start" to come, so that the modem stays off once a stop has returned.
InOrderInv ==
  inOrder =>
    /\ ~handled => /\ stops.state = 0 /\ stops.pipe = 0 /\ pipe = 0
                   /\ ~stopped /\ "write" \notin failed
    /\ handled => starts = 0 /\ (stopped => modem = "off")

RunInv == RunTyped /\ PipeMeansStopped /\ InOrderInv

\* main starts with empty hands.
LEMMA RunInitInv == RunInit => RunInv
<1> SUFFICES ASSUME RunInit PROVE RunInv
  BY Zenon
<1>1. ~handled /\ ~stopped /\ handled \in BOOLEAN /\ stopped \in BOOLEAN
      /\ inOrder \in BOOLEAN
  BY Zenon DEF RunInit
<1>2. /\ pc = "run" /\ cause = "none" /\ starts = 0 /\ pipe = 0 /\ resets = 0
      /\ stops = [state |-> 0, pipe |-> 0] /\ failed = {}
  BY ZenonT(30) DEF RunInit
<1> QED BY <1>1, <1>2 DEF RunInv, RunTyped, PipeMeansStopped, InOrderInv

\* Every step of main, of the threads and of the world keeps the invariant.
LEMMA RunNextInv == RunInv /\ [RunNext]_runVars => RunInv'
<1> SUFFICES ASSUME RunInv, [RunNext]_runVars PROVE RunInv'
  BY Zenon
<1> USE DEF RunInv, RunTyped, PipeMeansStopped, InOrderInv,
            mainvars, procs, others
<1>1. CASE RunStarts
  <2>1. ~handled' /\ handled' \in BOOLEAN /\ inOrder' \in BOOLEAN
        /\ (inOrder' => inOrder /\ ~handled)
    BY <1>1, Zenon DEF RunStarts
  <2>2. /\ pc = "run" /\ pc' = "check" /\ starts' \in {starts, starts + 1}
        /\ UNCHANGED <<stops, pipe, cause, resets, stopped, failed>>
    BY <1>1, Zenon DEF RunStarts
  <2>3. starts' \in Nat
    BY <2>2
  <2> QED BY <2>1, <2>2, <2>3, Zenon
<1>2. CASE RunFails
  BY <1>2, Zenon DEF RunFails
<1>3. CASE CheckStop
  <2>1. /\ handled' = TRUE /\ ~handled /\ inOrder' \in BOOLEAN
        /\ (inOrder' => inOrder /\ starts = 0)
    BY <1>3, Zenon DEF CheckStop
  <2>2. pc' = "gap" /\ UNCHANGED <<starts, pipe, cause, modem, resets, stopped>>
    BY <1>3, Zenon DEF CheckStop
  <2>3. stops' \in [state : Nat, pipe : Nat] /\ stops'.pipe = stops.pipe
    <3>1. stops' = stops \/ stops' = [stops EXCEPT !.state = @ + 1]
      BY <1>3, Zenon DEF CheckStop
    <3> QED BY <3>1
  <2>4. "write" \in failed <=> "write" \in failed'
    BY <1>3 DEF CheckStop
  <2> QED BY <2>1, <2>2, <2>3, <2>4, Zenon
<1>4. CASE CheckLeave
  BY <1>4, Zenon DEF CheckLeave, Leave
<1>5. CASE CheckNothing
  BY <1>5, Zenon DEF CheckNothing
<1>6. CASE Select
  BY <1>6, Zenon DEF Select
<1>7. CASE SelectReturns
  BY <1>7, Zenon DEF SelectReturns, PipeReady, SockReady
<1>8. CASE ReadPipe
  BY <1>8 DEF ReadPipe, Leave
<1>9. CASE HandleRequest
  BY <1>9, Zenon DEF HandleRequest
<1>10. CASE HandleReset
  BY <1>10, Zenon DEF HandleReset, Leave
<1>11. CASE StartWrites
  BY <1>11 DEF StartWrites, Running
<1>12. CASE StopBegins
  BY <1>12, Zenon DEF StopBegins, Running
<1>13. CASE StopReturns
  BY <1>13 DEF StopReturns, Running
<1>14. CASE StopSignals
  BY <1>14 DEF StopSignals, Running
<1>21. CASE StopFails
  <2>1. /\ stops' = [state |-> stops.state - 1, pipe |-> stops.pipe + 1] /\ stops.state > 0
        /\ failed' = failed \cup {"write"}
        /\ UNCHANGED <<pc, handled, cause, starts, pipe, modem, resets, stopped, inOrder>>
    BY <1>21, Zenon DEF StopFails
  <2>2. stops' \in [state : Nat, pipe : Nat] /\ "write" \in failed'
    BY <2>1
  <2>3. inOrder => handled
    BY <2>1
  <2> QED BY <2>1, <2>2, <2>3, Zenon
<1>22. CASE StopExits
  <2>1. /\ stops' = [stops EXCEPT !.pipe = @ - 1] /\ stops.pipe > 0
        /\ pc' = "done" /\ cause' = "exit"
        /\ UNCHANGED <<handled, starts, pipe, modem, resets, stopped, failed, inOrder>>
    BY <1>22, Zenon DEF StopExits
  <2>2. /\ stops' \in [state : Nat, pipe : Nat] /\ stops'.state = stops.state
        /\ (stopped \/ "write" \in failed)
    BY <2>1
  <2>3. inOrder => handled
    BY <2>1
  <2> QED BY <2>1, <2>2, <2>3, Zenon
<1>15. CASE Signal
  BY <1>15, Zenon DEF Signal, Running
<1>16. CASE ModemRequests
  BY <1>16, Zenon DEF ModemRequests
<1>17. CASE ModemDown
  BY <1>17, Zenon DEF ModemDown
<1>18. CASE NsDies
  BY <1>18 DEF NsDies
<1>19. CASE NsStarts
  BY <1>19, Zenon DEF NsStarts
<1>20. CASE UNCHANGED runVars
  BY <1>20, Zenon DEF runVars
<1> QED
  BY <1>1, <1>2, <1>3, <1>4, <1>5, <1>6, <1>7, <1>8, <1>9, <1>10, <1>11, Zenon,
     <1>12, <1>13, <1>14, <1>15, <1>16, <1>17, <1>18, <1>19, <1>20, <1>21, <1>22
     DEF RunNext, Main

\* A daemon that ends by the byte in the pipe ends after a "stop" returned or
\* failed, and leaves the modem off unless one failed, a "start" was still to be
\* written or run_rmtfs started again: EndsAfterStop for every number of
\* signals, name server restarts and requests of the modem.
THEOREM RunEndsAfterStop == RunSpec => []EndsAfterStop
<1>1. RunInv => EndsAfterStop
  BY Zenon DEF RunInv, RunTyped, PipeMeansStopped, InOrderInv, EndsAfterStop
<1> QED BY <1>1, RunInitInv, RunNextInv, PTL DEF RunSpec

-----------------------------------------------------------------------------
(* The handles.                                                            *)

Buffers == UNION {[1 .. n -> Values] : n \in Nat}

Handles ==
  [node : Nodes \cup {0}, fd : Partitions \cup {Null},
   partition : Partitions \cup {Null}, shadow_buf : Buffers \cup {Null}]

StorageTyped ==
  /\ storage_read_only \in BOOLEAN /\ verbose \in BOOLEAN
  /\ disciplined \in BOOLEAN /\ up \in BOOLEAN
  /\ rmtfds \in [Ids -> Handles]
  /\ disk \in [Partitions -> [1 .. FileSize -> Values]]
  /\ mem \in [1 .. MemSize -> Values]
  /\ io \in Requests \cup {Null}

\* A handle with a partition is in use, its file is its partition's, and it has
\* a file or a shadow according to option -r.  With disciplined requests a
\* handle in use has a partition.
HandleOK(r) ==
  /\ r.partition # Null => InUse(r)
  /\ r.fd # Null => r.fd = r.partition
  /\ IF storage_read_only THEN r.fd = Null ELSE r.shadow_buf = Null
  /\ disciplined /\ InUse(r) => r.partition # Null

HandlesOK == \A i \in Ids : HandleOK(rmtfds[i])

\* The handle a request under way works on stays its node's and, with
\* disciplined requests, open and large enough for what is left to read.
RequestOK ==
  io # Null =>
    /\ rmtfds[io.id].node = io.node
    /\ disciplined => InUse(rmtfds[io.id])
    /\ ~io.write => MayRead(io.id, io.iovec)

StorageInv ==
  StorageTyped /\ HandlesOK /\ OneHandlePerPartition /\ RequestOK /\ StaysUp

\* What a file or a shadow holds is not the null pointer, and its length is the
\* size of its domain.
LEMMA BuffersAreSequences ==
  ASSUME NEW b \in Buffers
  PROVE  b # Null /\ Len(b) \in Nat /\ b \in [1 .. Len(b) -> Values]
<1>1. b \in Seq(Values)
  BY DEF Buffers
<1> QED BY <1>1, ValuesAssumption, LenProperties, Zenon

\* The scan of storage_open takes a handle that is free.
LEMMA FirstInSet ==
  ASSUME NEW S \in SUBSET Nat, S # {}
  PROVE  First(S) \in S
<1>1. IsWellFoundedOn(OpToRel(<, Nat), Nat)
  BY NatLessThanWellFounded, Zenon
<1>2. PICK d \in S : \A e \in S : ~(<<e, d>> \in OpToRel(<, Nat))
  BY <1>1, WFMin, Zenon
<1>3. \A e \in S : d <= e
  <2> SUFFICES ASSUME NEW e \in S PROVE d <= e
    BY Zenon
  <2>1. e < d => <<e, d>> \in OpToRel(<, Nat)
    BY Zenon DEF OpToRel
  <2>2. ~(e < d)
    BY <1>2, <2>1, Zenon
  <2> QED BY <2>2
<1> QED BY <1>3, Zenon DEF First

\* The daemon starts with every handle closed.
LEMMA StorageInitInv == Init => StorageInv
<1> SUFFICES ASSUME Init PROVE StorageInv
  BY Zenon
<1> USE DEF Init
<1>1. \A i \in Ids : rmtfds[i] = [node |-> 0, fd |-> Null, partition |-> Null,
                                  shadow_buf |-> Null]
  BY Zenon
<1>2. StorageTyped
  <2>1. rmtfds \in [Ids -> Handles]
    BY Zenon DEF Handles
  <2>2. disk \in [Partitions -> [1 .. FileSize -> Values]]
    OBVIOUS
  <2>3. mem \in [1 .. MemSize -> Values]
    BY ValuesAssumption, Zenon
  <2> QED BY <2>1, <2>2, <2>3, Zenon DEF StorageTyped
<1>3. HandlesOK
  BY <1>1, <1>2, Zenon DEF HandlesOK, HandleOK, InUse, StorageTyped
<1>4. OneHandlePerPartition
  BY <1>1, Zenon DEF OneHandlePerPartition
<1> QED BY <1>2, <1>3, <1>4, Zenon DEF StorageInv, RequestOK, StaysUp

settings == <<storage_read_only, verbose, disciplined>>

\* One handle changes: the others keep what they have, and no second handle of
\* its node has its partition.
LEMMA SetHandle ==
  ASSUME StorageInv, NEW id \in Ids, NEW r \in Handles, HandleOK(r),
         rmtfds' = [rmtfds EXCEPT ![id] = r], UNCHANGED settings,
         \A j \in Ids \ {id} :
           ~(/\ InUse(rmtfds[j]) /\ r.partition # Null
             /\ r.node = rmtfds[j].node /\ r.partition = rmtfds[j].partition)
  PROVE  rmtfds' \in [Ids -> Handles] /\ HandlesOK' /\ OneHandlePerPartition'
<1> USE DEF settings
<1>1. rmtfds \in [Ids -> Handles]
  BY Zenon DEF StorageInv, StorageTyped
<1>2. rmtfds' \in [Ids -> Handles]
  BY <1>1, Zenon
<1>3. rmtfds'[id] = r /\ \A j \in Ids \ {id} : rmtfds'[j] = rmtfds[j]
  BY <1>1, Zenon
<1>4. HandlesOK'
  <2> SUFFICES ASSUME NEW j \in Ids PROVE HandleOK(rmtfds[j])'
    BY Zenon DEF HandlesOK
  <2>1. CASE j = id
    BY <1>3, <2>1, Zenon DEF HandleOK, InUse
  <2>2. CASE j # id
    <3>1. HandleOK(rmtfds[j])
      BY Zenon DEF StorageInv, HandlesOK
    <3> QED BY <1>3, <2>2, <3>1, Zenon DEF HandleOK, InUse
  <2> QED BY <2>1, <2>2, Zenon
<1>5. OneHandlePerPartition'
  <2> SUFFICES ASSUME NEW i \in Ids, NEW j \in Ids,
                      InUse(rmtfds'[i]), InUse(rmtfds'[j]),
                      rmtfds'[i].partition # Null,
                      rmtfds'[i].node = rmtfds'[j].node,
                      rmtfds'[i].partition = rmtfds'[j].partition
               PROVE  i = j
    BY Zenon DEF OneHandlePerPartition, InUse
  <2>1. CASE i = id
    BY <1>3, <2>1, Zenon
  <2>2. CASE j = id
    BY <1>3, <2>2, Zenon
  <2>3. CASE i # id /\ j # id
    BY <1>3, <2>3, Zenon DEF StorageInv, OneHandlePerPartition
  <2> QED BY <2>1, <2>2, <2>3, Zenon
<1> QED BY <1>2, <1>4, <1>5, Zenon

\* Steps that touch no handle.
LEMMA KeepHandles ==
  ASSUME StorageInv, UNCHANGED <<rmtfds, settings>>
  PROVE  rmtfds' \in [Ids -> Handles] /\ HandlesOK' /\ OneHandlePerPartition'
BY Zenon DEF StorageInv, StorageTyped, settings, HandlesOK, HandleOK, InUse,
       OneHandlePerPartition

\* storage_open takes a free handle for a partition the node has not open.
LEMMA OpenNewInv ==
  ASSUME StorageInv, NEW n \in Nodes, NEW path \in Paths, OpenNew(n, path),
         UNCHANGED settings, io = Null
  PROVE  StorageInv'
<1> DEFINE id == First(Free)
           r  == OpenHandle(n, path)
<1>1. id \in Ids /\ ~InUse(rmtfds[id])
  <2>1. Free \in SUBSET Nat /\ Free # {}
    BY BoundsAssumption DEF OpenNew, Free, Ids
  <2>2. First(Free) \in Free
    BY <2>1, FirstInSet, Zenon
  <2> QED BY <2>2, Zenon DEF Free
<1>2. /\ path \in Partitions /\ path # Null
      /\ disk[path] \in Buffers /\ disk[path] # Null
  <2>1. path \in Partitions /\ path # Null
    BY PartitionsAssumption, Zenon DEF OpenNew
  <2>2. disk[path] \in Buffers
    BY <2>1, BoundsAssumption, Zenon DEF StorageInv, StorageTyped, Buffers
  <2> QED BY <2>1, <2>2, BuffersAreSequences, Zenon
<1>3. r \in Handles /\ HandleOK(r) /\ r.node = n /\ r.partition = path
  BY <1>2, Zenon DEF OpenHandle, Handles, HandleOK, InUse, StorageInv, StorageTyped
<1>4. \A j \in Ids \ {id} :
        ~(/\ InUse(rmtfds[j]) /\ r.partition # Null
          /\ r.node = rmtfds[j].node /\ r.partition = rmtfds[j].partition)
  <2>1. Opened(n, path) = {}
    BY Zenon DEF OpenNew
  <2> QED BY <2>1, <1>3, Zenon DEF Opened
<1>5. rmtfds' = [rmtfds EXCEPT ![id] = r] /\ UNCHANGED <<disk, mem, io, up>>
  BY Zenon DEF OpenNew
<1> HIDE DEF id, r
<1>6. rmtfds' \in [Ids -> Handles] /\ HandlesOK' /\ OneHandlePerPartition'
  BY <1>1, <1>3, <1>4, <1>5, SetHandle, Zenon
<1> QED BY <1>5, <1>6, Zenon DEF StorageInv, StorageTyped, RequestOK, StaysUp, settings

\* storage_close lets the handle go whole.
LEMMA CloseInv ==
  ASSUME StorageInv, NEW n \in Nodes, NEW id, Close(n, id),
         UNCHANGED settings, io = Null
  PROVE  StorageInv'
<1>0. /\ UNCHANGED <<disk, mem, io>>
      /\ up' = up \/ (verbose /\ up' = FALSE)
  BY Zenon DEF Close, CloseResponds
<1>1. rmtfds' \in [Ids -> Handles] /\ HandlesOK' /\ OneHandlePerPartition'
  <2>1. CASE Gets(n, id)
    <3> DEFINE r == Closed(rmtfds[id])
    <3>1. id \in Ids /\ rmtfds[id] \in Handles
      BY <2>1, Zenon DEF Gets, StorageInv, StorageTyped
    <3>2. /\ r \in Handles /\ r.fd = Null /\ r.shadow_buf = Null
          /\ r.partition = Null
      BY <3>1, Zenon DEF Closed, Handles
    <3>3. HandleOK(r)
      BY <3>2, Zenon DEF HandleOK, InUse
    <3>4. rmtfds' = [rmtfds EXCEPT ![id] = r]
      BY <2>1, Zenon DEF Close
    <3> HIDE DEF r
    <3> QED BY <3>1, <3>2, <3>3, <3>4, SetHandle, Zenon
  <2>2. CASE ~Gets(n, id)
    BY <2>2, KeepHandles, Zenon DEF Close
  <2> QED BY <2>1, <2>2, Zenon
<1>2. up' \in BOOLEAN /\ StaysUp'
  <2>1. CASE up' = up
    BY <2>1, Zenon DEF StorageInv, StorageTyped, StaysUp, settings
  <2>2. CASE verbose /\ up' = FALSE
    BY <2>2, Zenon DEF StaysUp, settings
  <2> QED BY <1>0, <2>1, <2>2, Zenon
<1> QED BY <1>0, <1>1, <1>2, Zenon DEF StorageInv, StorageTyped, RequestOK, settings

\* rmtfs_iovec begins on a handle that is its caller's.
LEMMA IovecStartInv ==
  ASSUME StorageInv, NEW n \in Nodes, NEW id, NEW write \in BOOLEAN,
         NEW iovec \in Iovecs, IovecStart(n, id, write, iovec),
         UNCHANGED settings, io = Null
  PROVE  StorageInv'
<1>0. UNCHANGED <<rmtfds, disk, mem, up>>
  BY Zenon DEF IovecStart
<1>1. rmtfds' \in [Ids -> Handles] /\ HandlesOK' /\ OneHandlePerPartition'
  BY <1>0, KeepHandles, Zenon
<1>2. CASE Gets(n, id)
  <2> DEFINE q == [node |-> n, id |-> id, write |-> write, iovec |-> iovec,
                   i |-> 1, j |-> 0]
  <2>1. io' = q /\ id \in Ids
    BY <1>2, Zenon DEF IovecStart, Gets
  <2>2. q \in Requests
    BY <2>1 DEF Requests
  <2>3. RequestOK'
    <3>1. rmtfds[id].node = n /\ (disciplined => InUse(rmtfds[id]))
      BY <1>2, Zenon DEF Gets, IovecStart, MayUse, Holds
    <3>2. ~write => MayRead(id, iovec)
      BY <1>2, Zenon DEF IovecStart
    <3>3. rmtfds'[id].node = n /\ (disciplined' => InUse(rmtfds'[id]))
      BY <1>0, <3>1, Zenon DEF settings
    <3>4. ~write => MayRead(id, iovec)'
      BY <1>0, <3>2, Zenon DEF settings, MayRead, Extent
    <3>5. io'.id = id /\ io'.node = n /\ io'.write = write /\ io'.iovec = iovec
      BY <2>1, Zenon
    <3> QED BY <3>3, <3>4, <3>5, Zenon DEF RequestOK, InUse, MayRead, Extent
  <2> QED BY <1>0, <1>1, <2>1, <2>2, <2>3, Zenon DEF StorageInv, StorageTyped, StaysUp, settings
<1>3. CASE ~Gets(n, id)
  <2>1. io' = io
    BY <1>3, Zenon DEF IovecStart
  <2> QED BY <1>0, <1>1, <2>1, Zenon DEF StorageInv, StorageTyped, RequestOK, StaysUp, settings
<1> QED BY <1>2, <1>3, Zenon

\* The loops' cursor moves and the request stays the same.
LEMMA RequestMoves ==
  ASSUME StorageInv, io # Null, NEW k \in Nat \ {0}, NEW m \in Nat,
         io' = [io EXCEPT !.i = k, !.j = m]
  PROVE  /\ io \in Requests /\ io' \in Requests
         /\ io'.id = io.id /\ io'.node = io.node /\ io'.write = io.write
         /\ io'.iovec = io.iovec /\ io'.i = k /\ io'.j = m
BY Zenon DEF StorageInv, StorageTyped, Requests

\* A shadow that holds v in its sector s and is otherwise no shorter than, and
\* the same as, the one it replaces.
HoldsSector(new, b, s, v) ==
  /\ new \in Buffers /\ new # Null
  /\ Len(new) > s /\ new[s + 1] = v
  /\ b # Null => /\ Len(new) >= Len(b)
                 /\ \A k \in 1 .. Len(b) : k # s + 1 => new[k] = b[k]

\* A sector is written to the shadow.
LEMMA GrownBuffer ==
  ASSUME NEW b \in Buffers \cup {Null}, NEW s \in Nat, NEW v,
         NEW new \in Grown(b, s, v)
  PROVE  HoldsSector(new, b, s, v)
<1> DEFINE old == IF b = Null THEN <<>> ELSE b
           m   == IF s < Len(old) THEN Len(old) ELSE s + 1
<1>1. Len(old) \in Nat /\ (b # Null => old = b)
  BY BuffersAreSequences, Zenon
<1>2. m \in Nat /\ m >= Len(old) /\ m > s
  BY <1>1
<1>3. /\ new \in [1 .. m -> Values] /\ new[s + 1] = v
      /\ \A k \in 1 .. Len(old) : k # s + 1 => new[k] = old[k]
  BY Zenon DEF Grown
<1> HIDE DEF old, m
<1>4. new \in Buffers
  BY <1>2, <1>3, Zenon DEF Buffers
<1>5. new # Null /\ Len(new) \in Nat /\ new \in [1 .. Len(new) -> Values]
  BY <1>4, BuffersAreSequences, Zenon
<1>6. Len(new) = m
  BY <1>2, <1>3, <1>5
<1> QED BY <1>1, <1>2, <1>3, <1>4, <1>5, <1>6, Zenon DEF HoldsSector

\* An entry's first sector is a sector, wrapped or not.
LEMMA SectorBaseTyped ==
  ASSUME NEW e \in Entries
  PROVE  SectorBase(e) \in Nat
<1>1. e.sector \in Nat
  BY Zenon DEF Entries
<1> QED BY <1>1, BoundsAssumption DEF SectorBase

\* The sector the loops are at.
LEMMA AtSectorTyped ==
  ASSUME StorageInv, AtSector
  PROVE  /\ io \in Requests /\ io # Null /\ io.id \in Ids
         /\ rmtfds[io.id] \in Handles
         /\ io.i \in 1 .. Len(io.iovec) /\ io.iovec \in Seq(Entries)
         /\ Entry \in Entries /\ io.j \in 0 .. Entry.num - 1
         /\ Sector \in Nat /\ Phys \in Nat
<1>1. io \in Requests /\ io # Null
  BY Zenon DEF StorageInv, StorageTyped, AtSector
<1>2. io.id \in Ids /\ io.i \in Nat \ {0} /\ io.j \in Nat /\ io.iovec \in Seq(Entries)
  BY <1>1, IovecsAssumption, Zenon DEF Requests
<1>3. rmtfds[io.id] \in Handles
  BY <1>2, Zenon DEF StorageInv, StorageTyped
<1>4. io.i \in 1 .. Len(io.iovec)
  BY <1>2, LenProperties DEF AtSector
<1>5. Entry \in Entries
  BY <1>2, <1>4, ElementOfSeq, Zenon DEF Entry
<1>6. io.j \in 0 .. Entry.num - 1
  BY <1>2, <1>5 DEF AtSector, Entries
<1>7. SectorBase(Entry) \in Nat
  BY <1>5, SectorBaseTyped, Zenon
<1>8. Sector \in Nat /\ Phys \in Nat
  BY <1>2, <1>5, <1>7 DEF Sector, Phys, Entries
<1> QED BY <1>1, <1>2, <1>3, <1>4, <1>5, <1>6, <1>8, Zenon

\* One sector of a write to the shadow: the handle stays open and keeps all
\* but its contents.
LEMMA ShadowWrite ==
  ASSUME StorageInv, IovecWrite, storage_read_only, UNCHANGED settings
  PROVE  \E new \in Grown(rmtfds[io.id].shadow_buf, Sector, mem[Phys + 1]) :
           /\ rmtfds' = [rmtfds EXCEPT ![io.id] = [@ EXCEPT !.shadow_buf = new]]
           /\ rmtfds'[io.id] = [rmtfds[io.id] EXCEPT !.shadow_buf = new]
           /\ InUse(rmtfds'[io.id]) /\ rmtfds'[io.id].node = rmtfds[io.id].node
           /\ rmtfds'[io.id].partition = rmtfds[io.id].partition
           /\ rmtfds' \in [Ids -> Handles] /\ HandlesOK' /\ OneHandlePerPartition'
<1> DEFINE id == io.id
           old == rmtfds[id]
<1>1. AtSector /\ Pwrite(id, Sector, mem[Phys + 1])
  BY Zenon DEF IovecWrite
<1>2. id \in Ids /\ old \in Handles /\ Sector \in Nat /\ io # Null
  BY <1>1, AtSectorTyped, Zenon
<1>3. PICK new \in Grown(old.shadow_buf, Sector, mem[Phys + 1]) :
        rmtfds' = [rmtfds EXCEPT ![id] = [@ EXCEPT !.shadow_buf = new]]
  BY <1>1, Zenon DEF Pwrite
<1> DEFINE r == [old EXCEPT !.shadow_buf = new]
<1>4. old.shadow_buf \in Buffers \cup {Null}
  BY <1>2, Zenon DEF Handles
<1>5. new \in Buffers /\ new # Null
  <2>1. HoldsSector(new, old.shadow_buf, Sector, mem[Phys + 1])
    BY <1>2, <1>4, GrownBuffer, Zenon
  <2> QED BY <2>1, Zenon DEF HoldsSector
<1>6. /\ r \in Handles /\ r.shadow_buf = new /\ r.fd = old.fd
      /\ r.node = old.node /\ r.partition = old.partition
  BY <1>2, <1>5, Zenon DEF Handles
<1>7. HandleOK(old) /\ (disciplined => InUse(old))
  BY <1>2, Zenon DEF StorageInv, HandlesOK, RequestOK
<1>8. InUse(r)
  BY <1>5, <1>6, Zenon DEF InUse
<1>9. rmtfds \in [Ids -> Handles]
  BY Zenon DEF StorageInv, StorageTyped
<1>10. rmtfds' = [rmtfds EXCEPT ![id] = r] /\ rmtfds'[id] = r
  BY <1>2, <1>3, <1>9, Zenon
<1> HIDE DEF r
<1>11. HandleOK(r)
  BY <1>6, <1>7, <1>8, Zenon DEF HandleOK
<1>12. \A j \in Ids \ {id} :
         ~(/\ InUse(rmtfds[j]) /\ r.partition # Null
           /\ r.node = rmtfds[j].node /\ r.partition = rmtfds[j].partition)
  <2>1. r.partition # Null => InUse(old)
    BY <1>6, <1>7, Zenon DEF HandleOK
  <2> QED BY <1>2, <1>6, <2>1, Zenon DEF StorageInv, OneHandlePerPartition
<1>13. rmtfds' \in [Ids -> Handles] /\ HandlesOK' /\ OneHandlePerPartition'
  BY <1>2, <1>6, <1>10, <1>11, <1>12, SetHandle, Zenon
<1>14. rmtfds'[id] = [rmtfds[id] EXCEPT !.shadow_buf = new]
  BY <1>10, Zenon DEF r
<1> QED BY <1>3, <1>6, <1>8, <1>10, <1>13, <1>14, Zenon

\* A sector of a write, to the shadow or to the file.
LEMMA IovecWriteInv ==
  ASSUME StorageInv, IovecWrite, UNCHANGED settings
  PROVE  StorageInv'
<1>1. AtSector /\ io.write /\ UNCHANGED <<mem, resp, up>>
  BY Zenon DEF IovecWrite
<1>2. /\ io \in Requests /\ io # Null /\ io.id \in Ids
      /\ rmtfds[io.id] \in Handles /\ Sector \in Nat /\ Phys \in Nat
      /\ io.i \in Nat \ {0} /\ io.j \in Nat
  BY <1>1, AtSectorTyped, Zenon DEF Requests
<1>3. /\ io' \in Requests /\ io'.id = io.id /\ io'.node = io.node
      /\ io'.write = io.write
  <2>1. io' = [io EXCEPT !.j = io.j + 1]
    BY Zenon DEF IovecWrite
  <2> QED BY <1>2, <2>1 DEF Requests
<1>4. CASE storage_read_only
  <2>1. disk' = disk
    BY <1>4, Zenon DEF IovecWrite, Pwrite
  <2>2. /\ InUse(rmtfds'[io.id]) /\ rmtfds'[io.id].node = rmtfds[io.id].node
        /\ rmtfds' \in [Ids -> Handles] /\ HandlesOK' /\ OneHandlePerPartition'
    BY <1>4, ShadowWrite, Zenon
  <2>3. RequestOK'
    BY <1>1, <1>2, <1>3, <2>2, Zenon DEF RequestOK, StorageInv, InUse
  <2> QED BY <1>1, <1>3, <2>1, <2>2, <2>3, Zenon
          DEF StorageInv, StorageTyped, StaysUp, settings
<1>5. CASE ~storage_read_only
  <2> DEFINE fd == rmtfds[io.id].fd
  <2>1. /\ disk' = [disk EXCEPT ![fd] = [@ EXCEPT ![Sector + 1] = mem[Phys + 1]]]
        /\ rmtfds' = rmtfds /\ InMem(Phys)
    BY <1>5, Zenon DEF IovecWrite, Pwrite
  <2>2. mem[Phys + 1] \in Values
    BY <1>2, <2>1, BoundsAssumption DEF InMem, StorageInv, StorageTyped
  <2>3. disk' \in [Partitions -> [1 .. FileSize -> Values]]
    BY <2>1, <2>2, Zenon DEF StorageInv, StorageTyped
  <2>4. rmtfds' \in [Ids -> Handles] /\ HandlesOK' /\ OneHandlePerPartition'
    BY <2>1, KeepHandles, Zenon
  <2>5. RequestOK'
    BY <1>1, <1>2, <1>3, <2>1, Zenon DEF RequestOK, StorageInv, InUse, settings
  <2> QED BY <1>1, <1>3, <2>3, <2>4, <2>5, Zenon
          DEF StorageInv, StorageTyped, StaysUp, settings
<1> QED BY <1>4, <1>5, Zenon

\* A sector of a read: what it puts in the shared memory is a sector.
LEMMA IovecReadInv ==
  ASSUME StorageInv, IovecRead, UNCHANGED settings
  PROVE  StorageInv'
<1>1. AtSector /\ UNCHANGED <<rmtfds, disk, resp, up>>
  BY Zenon DEF IovecRead
<1>2. /\ io \in Requests /\ io # Null /\ io.id \in Ids
      /\ rmtfds[io.id] \in Handles /\ Sector \in Nat /\ Phys \in Nat
      /\ io.i \in Nat \ {0} /\ io.j \in Nat
  BY <1>1, AtSectorTyped, Zenon DEF Requests
<1>3. /\ io' \in Requests /\ io'.id = io.id /\ io'.node = io.node
      /\ io'.write = io.write /\ io'.iovec = io.iovec
  <2>1. io' = [io EXCEPT !.j = io.j + 1]
    BY Zenon DEF IovecRead
  <2> QED BY <1>2, <2>1 DEF Requests
<1>4. PICK v \in Pread(rmtfds[io.id], Sector) : mem' = [mem EXCEPT ![Phys + 1] = v]
  BY Zenon DEF IovecRead
<1>5. v \in Values
  <2> DEFINE r == rmtfds[io.id]
  <2>1. CASE ~storage_read_only
    <3>1. r.fd # Null => r.fd \in Partitions
      BY <1>2, Zenon DEF Handles
    <3>2. Sector < FileSize => Sector + 1 \in 1 .. FileSize
      BY <1>2, BoundsAssumption
    <3>3. r.fd # Null /\ Sector < FileSize => disk[r.fd][Sector + 1] \in Values
      BY <3>1, <3>2, Zenon DEF StorageInv, StorageTyped
    <3>4. CASE r.fd = Null \/ Faults
      BY <1>4, <2>1, <3>4, Zenon DEF Pread
    <3>5. CASE ~(r.fd = Null \/ Faults)
      <4>1. v = IF Sector < FileSize THEN disk[r.fd][Sector + 1] ELSE Zero
        BY <1>4, <2>1, <3>5, Zenon DEF Pread
      <4> QED BY <4>1, <3>3, <3>5, ValuesAssumption, Zenon
    <3> QED BY <3>4, <3>5, Zenon
  <2>2. CASE storage_read_only
    <3>1. r.shadow_buf = Null \/ r.shadow_buf \in Buffers
      BY <1>2, Zenon DEF Handles
    <3>2. r.shadow_buf # Null => /\ Len(r.shadow_buf) \in Nat
                                 /\ r.shadow_buf \in [1 .. Len(r.shadow_buf) -> Values]
      BY <3>1, BuffersAreSequences, Zenon
    <3>3. Sector < Extent(r) => r.shadow_buf[Sector + 1] \in Values
      BY <1>2, <2>2, <3>2, SMTT(20) DEF Extent
    <3> QED BY <1>4, <2>2, <3>3, ValuesAssumption, Zenon DEF Pread
  <2> QED BY <2>1, <2>2, Zenon
<1>6. mem' \in [1 .. MemSize -> Values]
  BY <1>4, <1>5, Zenon DEF StorageInv, StorageTyped
<1>7. rmtfds' \in [Ids -> Handles] /\ HandlesOK' /\ OneHandlePerPartition'
  BY <1>1, KeepHandles, Zenon
<1>8. RequestOK'
  BY <1>1, <1>2, <1>3, Zenon DEF RequestOK, StorageInv, InUse, settings, MayRead, Extent
<1> QED BY <1>1, <1>3, <1>6, <1>7, <1>8, Zenon
        DEF StorageInv, StorageTyped, StaysUp, settings

\* A wild read is one past the end: disciplined requests have none.
LEMMA IovecCrashInv ==
  ASSUME StorageInv, IovecCrash, UNCHANGED settings
  PROVE  StorageInv'
<1>1. AtSector /\ ~io.write /\ UNCHANGED <<rmtfds, disk, mem, io>> /\ up' = FALSE
  BY Zenon DEF IovecCrash
<1>2. ~disciplined
  <2> SUFFICES ASSUME disciplined PROVE FALSE
    BY Zenon
  <2>1. MayRead(io.id, io.iovec)
    BY <1>1, Zenon DEF AtSector, StorageInv, RequestOK
  <2>2. io.i \in 1 .. Len(io.iovec) /\ Entry \in Entries
        /\ io.j \in 0 .. Entry.num - 1 /\ rmtfds[io.id] \in Handles
    BY <1>1, AtSectorTyped, Zenon
  <2>3. SectorBase(Entry) + Entry.num <= Extent(rmtfds[io.id]) + 1 /\ SectorBase(Entry) \in Nat
    BY <2>1, <2>2, SectorBaseTyped, Zenon DEF MayRead, Entry
  <2>4. Extent(rmtfds[io.id]) \in Nat
    <3>1. rmtfds[io.id].shadow_buf \in Buffers \cup {Null}
      BY <2>2, Zenon DEF Handles
    <3> QED BY <3>1, BoundsAssumption, BuffersAreSequences, Zenon DEF Extent
  <2>5. Sector > Extent(rmtfds[io.id])
    BY Zenon DEF IovecCrash, PreadWild
  <2> QED BY <2>2, <2>3, <2>4, <2>5, SMTT(20) DEF Sector, Entries
<1>3. rmtfds' \in [Ids -> Handles] /\ HandlesOK' /\ OneHandlePerPartition'
  BY <1>1, KeepHandles, Zenon
<1>4. RequestOK' /\ StorageTyped'
  BY <1>1, <1>3, Zenon DEF StorageInv, StorageTyped, RequestOK, InUse, settings, MayRead, Extent
<1>5. StaysUp'
  BY <1>2, Zenon DEF StaysUp, settings
<1> QED BY <1>3, <1>4, <1>5, Zenon DEF StorageInv

\* Every request, every sector and every store of the modem keeps the
\* invariant of the handles.
LEMMA StorageNextInv == StorageInv /\ [Next]_vars => StorageInv'
<1> SUFFICES ASSUME StorageInv, [Next]_vars PROVE StorageInv'
  BY Zenon
<1>1. CASE UNCHANGED vars
  <2>1. rmtfds' \in [Ids -> Handles] /\ HandlesOK' /\ OneHandlePerPartition'
    BY <1>1, KeepHandles, Zenon DEF vars, settings
  <2> QED BY <1>1, <2>1, Zenon
          DEF vars, StorageInv, StorageTyped, RequestOK, StaysUp, InUse, MayRead, Extent
<1>2. CASE Next
  <2>0. UNCHANGED settings
    BY <1>2, Zenon DEF Next, settings
  <2>1. ASSUME UNCHANGED <<rmtfds, disk, mem, io, up>> PROVE StorageInv'
    <3>1. rmtfds' \in [Ids -> Handles] /\ HandlesOK' /\ OneHandlePerPartition'
      BY <2>0, <2>1, KeepHandles, Zenon
    <3> QED BY <2>0, <2>1, <3>1, Zenon DEF StorageInv, StorageTyped, RequestOK, StaysUp,
                                    InUse, MayRead, Extent, settings
  <2>2. ASSUME NEW n \in Nodes, io = Null, Request(n) PROVE StorageInv'
    <3>1. ASSUME NEW path \in Paths, Open(n, path) PROVE StorageInv'
      <4>1. CASE OpenNew(n, path)
        BY <2>0, <2>2, <4>1, OpenNewInv, Zenon
      <4>2. CASE OpenRefused(n, path) \/ OpenAgain(n, path)
        BY <2>1, <4>2, Zenon DEF OpenRefused, OpenAgain
      <4> QED BY <3>1, <4>1, <4>2, Zenon DEF Open
    <3>2. ASSUME NEW id \in RequestIds, Close(n, id) PROVE StorageInv'
      BY <2>0, <2>2, <3>2, CloseInv, Zenon
    <3>7. ASSUME ~disciplined, UNCHANGED <<rmtfds, disk, mem, io>>, up' = FALSE PROVE StorageInv'
      <4>1. rmtfds' \in [Ids -> Handles] /\ HandlesOK' /\ OneHandlePerPartition'
        BY <2>0, <3>7, KeepHandles, Zenon
      <4> QED BY <2>0, <2>2, <3>7, <4>1, Zenon
              DEF StorageInv, StorageTyped, RequestOK, StaysUp, settings
    <3>3. ASSUME NEW id \in RequestIds, GetDevError(n, id) PROVE StorageInv'
      <4>1. CASE Respond(n, "dev_error", id, FALSE) /\ up' = up
        BY <2>1, <3>3, <4>1, Zenon DEF GetDevError
      <4>2. CASE ~Gets(n, id) /\ up' = FALSE
        BY <3>3, <3>7, <4>2, Zenon DEF GetDevError, MayUse, Holds
      <4> QED BY <3>3, <4>1, <4>2, Zenon DEF GetDevError
    <3>8. ASSUME NEW id \in RequestIds, GetOutside(n, id) PROVE StorageInv'
      BY <3>7, <3>8, Zenon DEF GetOutside
    <3>4. ASSUME NEW size, AllocBuf(n, size) PROVE StorageInv'
      BY <2>1, <3>4, Zenon DEF AllocBuf
    <3>5. ASSUME NEW op, Malformed(n, op) PROVE StorageInv'
      BY <2>1, <3>5, Zenon DEF Malformed
    <3>6. ASSUME NEW id \in RequestIds, NEW write \in BOOLEAN, NEW iovec \in Iovecs,
                 IovecStart(n, id, write, iovec)
          PROVE  StorageInv'
      BY <2>0, <2>2, <3>6, IovecStartInv, Zenon
    <3> QED BY <2>2, <3>1, <3>2, <3>3, <3>4, <3>5, <3>6, <3>8, Zenon DEF Request
  <2>3. CASE Iovec
    <3>1. CASE IovecWrite
      BY <2>0, <3>1, IovecWriteInv, Zenon
    <3>2. CASE IovecRead
      BY <2>0, <3>2, IovecReadInv, Zenon
    <3>3. CASE IovecCrash
      BY <2>0, <3>3, IovecCrashInv, Zenon
    <3>4. CASE IovecFails \/ IovecDone
      <4>1. UNCHANGED <<rmtfds, disk, mem, up>> /\ io' = Null
        BY <3>4, Zenon DEF IovecFails, IovecDone
      <4>2. rmtfds' \in [Ids -> Handles] /\ HandlesOK' /\ OneHandlePerPartition'
        BY <2>0, <4>1, KeepHandles, Zenon
      <4> QED BY <2>0, <4>1, <4>2, Zenon DEF StorageInv, StorageTyped, RequestOK, StaysUp, settings
    <3>5. CASE IovecNextEntry
      <4>1. UNCHANGED <<rmtfds, disk, mem, up>> /\ io # Null
            /\ io' = [io EXCEPT !.i = io.i + 1, !.j = 0]
        BY <3>5, Zenon DEF IovecNextEntry
      <4>2. io.i + 1 \in Nat \ {0} /\ 0 \in Nat
        BY <4>1 DEF StorageInv, StorageTyped, Requests
      <4>3. /\ io' \in Requests
            /\ io'.id = io.id /\ io'.node = io.node /\ io'.write = io.write
            /\ io'.iovec = io.iovec
        BY <4>1, <4>2, RequestMoves, Zenon
      <4>4. rmtfds' \in [Ids -> Handles] /\ HandlesOK' /\ OneHandlePerPartition'
        BY <2>0, <4>1, KeepHandles, Zenon
      <4>5. RequestOK'
        BY <2>0, <4>1, <4>3, Zenon DEF StorageInv, RequestOK, InUse, settings, MayRead, Extent
      <4> QED BY <2>0, <4>1, <4>3, <4>4, <4>5, Zenon DEF StorageInv, StorageTyped, StaysUp, settings
    <3> QED BY <2>3, <3>1, <3>2, <3>3, <3>4, <3>5, Zenon DEF Iovec
  <2>4. ASSUME NEW a \in 1 .. MemSize, NEW v \in Values, ModemStore(a, v)
        PROVE  StorageInv'
    <3>1. /\ UNCHANGED <<rmtfds, disk, io, up>> /\ io = Null
          /\ mem' = [mem EXCEPT ![a] = v]
      BY <2>4, Zenon DEF ModemStore
    <3>2. rmtfds' \in [Ids -> Handles] /\ HandlesOK' /\ OneHandlePerPartition'
      BY <2>0, <3>1, KeepHandles, Zenon
    <3> QED BY <2>0, <3>1, <3>2, Zenon DEF StorageInv, StorageTyped, RequestOK, StaysUp, settings
  <2> QED BY <1>2, <2>2, <2>3, <2>4, Zenon DEF Next
<1> QED BY <1>1, <1>2, Zenon

\* The invariant of the handles and of the request under way.
THEOREM StorageInvariant == Spec => []StorageInv
BY StorageInitInv, StorageNextInv, PTL DEF Spec

\* No node has a partition open twice: OneHandlePerPartition for every table of
\* partitions, also when nodes use handles that are not theirs or closed.
THEOREM StorageOneHandle == Spec => []OneHandlePerPartition
<1>1. StorageInv => OneHandlePerPartition
  BY Zenon DEF StorageInv
<1> QED BY <1>1, StorageInvariant, PTL

\* Whatever the requests, a handle with a partition is in use and its file is
\* the partition's; only writes to closed handles, with option -r, leave one in
\* use that has no partition: HandlesConsistent.
THEOREM StorageHandlesConsistent == Spec => []HandlesConsistent
<1>1. StorageInv => HandlesConsistent
  <2> SUFFICES ASSUME StorageInv, NEW i \in Ids
               PROVE  LET r == rmtfds[i]
                      IN  /\ r.partition # Null => InUse(r)
                          /\ r.fd # Null => r.fd = r.partition /\ ~storage_read_only
                          /\ InUse(r) /\ r.partition = Null => storage_read_only /\ ~disciplined
    BY Zenon DEF HandlesConsistent
  <2>1. HandleOK(rmtfds[i])
    BY Zenon DEF StorageInv, HandlesOK
  <2> QED BY <2>1, Zenon DEF HandleOK, InUse
<1> QED BY <1>1, StorageInvariant, PTL

\* Disciplined requests, whatever they read and write, never bring the daemon
\* down without option -v: no read past the end of a shadow, no error asked of a
\* NULL handle.
THEOREM StorageStaysUp == Spec => []StaysUp
<1>1. StorageInv => StaysUp
  BY Zenon DEF StorageInv
<1> QED BY <1>1, StorageInvariant, PTL

\* The steps that change a handle.
LEMMA HandleChanges ==
  ASSUME [Next]_vars, rmtfds' # rmtfds
  PROVE  /\ UNCHANGED settings
         /\ \/ io = Null /\ \E n \in Nodes, path \in Paths : OpenNew(n, path)
            \/ io = Null /\ \E n \in Nodes : \E id : Close(n, id)
            \/ IovecWrite
<1>1. Next /\ UNCHANGED settings
  BY Zenon DEF vars, Next, settings
<1>2. ASSUME NEW n \in Nodes, io = Null, Request(n)
      PROVE  \/ \E path \in Paths : OpenNew(n, path)
             \/ \E id : Close(n, id)
  BY <1>2, Zenon DEF Request, Open, OpenRefused, OpenAgain, GetDevError, GetOutside, AllocBuf,
              Malformed, IovecStart
<1>3. CASE Iovec
  BY <1>1, <1>3, Zenon DEF Iovec, IovecRead, IovecCrash, IovecFails, IovecNextEntry, IovecDone
<1>4. ASSUME NEW a \in 1 .. MemSize, NEW v \in Values, ModemStore(a, v) PROVE FALSE
  BY <1>4, Zenon DEF ModemStore
<1> QED BY <1>1, <1>2, <1>3, <1>4, Zenon DEF Next

\* As long as the daemon is up only a handle's own node changes a handle in use,
\* by writing through it or by closing it: HandleOwned.
THEOREM StorageHandleOwned == Spec => HandleOwned
<1> DEFINE Owned ==
      up' => \A i \in Ids : InUse(rmtfds[i]) /\ rmtfds'[i] # rmtfds[i] =>
       /\ rmtfds[i].node = (IF io # Null THEN io.node ELSE resp'.node)
       /\ \/ InUse(rmtfds'[i]) /\ rmtfds'[i].node = rmtfds[i].node
                               /\ rmtfds'[i].partition = rmtfds[i].partition
          \/ io = Null /\ resp'.op = "close" /\ resp'.id = i
<1>1. StorageInv /\ [Next]_vars => [Owned]_vars
  <2> SUFFICES ASSUME StorageInv, [Next]_vars, up', NEW i \in Ids,
                      InUse(rmtfds[i]), rmtfds'[i] # rmtfds[i]
               PROVE  /\ rmtfds[i].node = (IF io # Null THEN io.node ELSE resp'.node)
                      /\ \/ InUse(rmtfds'[i]) /\ rmtfds'[i].node = rmtfds[i].node
                              /\ rmtfds'[i].partition = rmtfds[i].partition
                         \/ io = Null /\ resp'.op = "close" /\ resp'.id = i
    BY Zenon
  <2>0. rmtfds \in [Ids -> Handles]
    BY Zenon DEF StorageInv, StorageTyped
  <2>1. ASSUME NEW n \in Nodes, NEW path \in Paths, OpenNew(n, path) PROVE FALSE
    <3>1. Free \in SUBSET Nat /\ Free # {}
      BY <2>1, BoundsAssumption DEF OpenNew, Free, Ids
    <3>2. ~InUse(rmtfds[First(Free)])
      BY <3>1, FirstInSet, Zenon DEF Free
    <3> QED BY <2>0, <2>1, <3>2, Zenon DEF OpenNew
  <2>2. ASSUME NEW n \in Nodes, NEW id, io = Null, Close(n, id)
        PROVE  rmtfds[i].node = resp'.node /\ resp'.op = "close" /\ resp'.id = i
    <3>1. Gets(n, id) /\ rmtfds' = [rmtfds EXCEPT ![id] = Closed(rmtfds[id])]
      BY <2>2, Zenon DEF Close
    <3>2. i = id /\ rmtfds[i].node = n
      BY <2>0, <3>1, Zenon DEF Gets
    <3>3. Respond(n, "close", id, TRUE)
      BY <2>2, <3>1, Zenon DEF Close, CloseResponds
    <3> QED BY <3>2, <3>3 DEF Respond
  <2>3. ASSUME IovecWrite, UNCHANGED settings
        PROVE  /\ io # Null /\ rmtfds[i].node = io.node
               /\ InUse(rmtfds'[i]) /\ rmtfds'[i].node = rmtfds[i].node
               /\ rmtfds'[i].partition = rmtfds[i].partition
    <3>1. storage_read_only
      BY <2>3, Zenon DEF IovecWrite, Pwrite
    <3>2. PICK new : /\ rmtfds' = [rmtfds EXCEPT ![io.id] = [@ EXCEPT !.shadow_buf = new]]
                     /\ InUse(rmtfds'[io.id])
                     /\ rmtfds'[io.id].node = rmtfds[io.id].node
                     /\ rmtfds'[io.id].partition = rmtfds[io.id].partition
      BY <2>3, <3>1, ShadowWrite, Zenon
    <3>3. i = io.id
      BY <2>0, <3>2, Zenon
    <3> QED BY <2>3, <3>2, <3>3, Zenon DEF IovecWrite, AtSector, StorageInv, RequestOK
  <2>4. rmtfds' # rmtfds
    BY Zenon
  <2> QED BY <2>1, <2>2, <2>3, <2>4, HandleChanges, Zenon
<1> QED BY <1>1, StorageInvariant, PTL DEF Spec, HandleOwned

-----------------------------------------------------------------------------
(* The data a request moves.                                               *)

\* The transfers rmtfs_iovec's loops have made.
Before(x) == x[1] < io.i \/ (x[1] = io.i /\ x[2] < io.j)

Apart(x, y) ==
  IF io.write THEN File(io.iovec, x) # File(io.iovec, y)
              ELSE Buf(io.iovec, x) # Buf(io.iovec, y)

\* A transfer that is made, and that no later one made has overwritten, left the
\* file and the shared memory equal; what is written is within the file.
Moved(x) ==
  /\ Buf(io.iovec, x) < MemSize
  /\ io.write => File(io.iovec, x) < Extent(rmtfds[io.id])
  /\ (\A y \in Transfers(io.iovec) : Before(y) /\ Later(x, y) => Apart(x, y))
       => mem[Buf(io.iovec, x) + 1] = Content(rmtfds[io.id], File(io.iovec, x))

\* Writes, also on closed handles and failing files, and disciplined reads.
Followed == io # Null /\ (disciplined \/ io.write)

MovedInv ==
  Followed => \A x \in Transfers(io.iovec) : Before(x) => Moved(x)

\* A transfer is a sector of an entry.
LEMMA TransferTyped ==
  ASSUME NEW iovec \in Seq(Entries)
  PROVE  /\ \A x \in Transfers(iovec) :
              /\ x[1] \in 1 .. Len(iovec) /\ x[2] \in 0 .. iovec[x[1]].num - 1
              /\ x = <<x[1], x[2]>> /\ x[2] \in Nat
              /\ File(iovec, x) \in Nat /\ Buf(iovec, x) \in Nat
         /\ \A k \in 1 .. Len(iovec) : \A m \in 0 .. iovec[k].num - 1 :
              <<k, m>> \in Transfers(iovec)
<1>1. Len(iovec) \in Nat /\ \A k \in 1 .. Len(iovec) : iovec[k] \in Entries
  BY LenProperties, ElementOfSeq, Zenon
<1>2. ASSUME NEW x \in Transfers(iovec)
      PROVE  /\ x[1] \in 1 .. Len(iovec) /\ x[2] \in 0 .. iovec[x[1]].num - 1
             /\ x = <<x[1], x[2]>> /\ x[2] \in Nat
             /\ File(iovec, x) \in Nat /\ Buf(iovec, x) \in Nat
  <2>1. PICK k \in 1 .. Len(iovec) : x \in {k} \X (0 .. iovec[k].num - 1)
    BY Zenon DEF Transfers
  <2>2. x[1] = k /\ x[2] \in 0 .. iovec[k].num - 1 /\ x = <<x[1], x[2]>>
    BY <2>1
  <2>3. SectorBase(iovec[k]) \in Nat /\ iovec[k].phys \in Nat
    BY <1>1, SectorBaseTyped, Zenon DEF Entries
  <2> QED BY <2>2, <2>3, SMTT(20) DEF File, Buf
<1>3. ASSUME NEW k \in 1 .. Len(iovec), NEW m \in 0 .. iovec[k].num - 1
      PROVE  <<k, m>> \in Transfers(iovec)
  <2>1. <<k, m>> \in {k} \X (0 .. iovec[k].num - 1)
    BY Zenon
  <2> QED BY <2>1, Zenon DEF Transfers
<1> QED BY <1>2, <1>3, Zenon

\* After the sector the loops are at, its transfer is made too, and it is later
\* than the ones before.
LEMMA SectorMade ==
  ASSUME StorageInv, AtSector, io' = [io EXCEPT !.j = @ + 1]
  PROVE  /\ <<io.i, io.j>> \in Transfers(io.iovec)
         /\ File(io.iovec, <<io.i, io.j>>) = Sector
         /\ Buf(io.iovec, <<io.i, io.j>>) = Phys
         /\ io' # Null /\ io'.iovec = io.iovec /\ io'.write = io.write /\ io'.id = io.id
         /\ \A x \in Transfers(io.iovec) :
              /\ Before(x)' <=> Before(x) \/ x = <<io.i, io.j>>
              /\ Before(x) => Later(x, <<io.i, io.j>>)
<1>1. /\ io \in Requests /\ io.i \in 1 .. Len(io.iovec) /\ io.iovec \in Seq(Entries)
      /\ io.j \in 0 .. Entry.num - 1
  BY AtSectorTyped, Zenon
<1>2. io.j \in Nat /\ io.i \in Nat
  BY <1>1, Zenon DEF Requests
<1>3. /\ io' \in Requests /\ io'.iovec = io.iovec /\ io'.write = io.write
      /\ io'.id = io.id /\ io'.i = io.i /\ io'.j = io.j + 1
  BY <1>1, <1>2 DEF Requests
<1>4. <<io.i, io.j>> \in Transfers(io.iovec)
  BY <1>1, TransferTyped, Zenon DEF Entry
<1>5. ASSUME NEW x \in Transfers(io.iovec)
      PROVE  /\ Before(x)' <=> Before(x) \/ x = <<io.i, io.j>>
             /\ Before(x) => Later(x, <<io.i, io.j>>)
  <2>1. x[1] \in 1 .. Len(io.iovec) /\ x[2] \in Nat /\ x = <<x[1], x[2]>>
    BY <1>1, TransferTyped, Zenon
  <2>2. x[1] \in Nat
    BY <1>1, <2>1, LenProperties
  <2>3. x = <<io.i, io.j>> <=> x[1] = io.i /\ x[2] = io.j
    BY <2>1, SMTT(20)
  <2> QED BY <1>2, <1>3, <2>1, <2>2, <2>3 DEF Before, Later
<1> QED BY <1>3, <1>4, <1>5, RequestsAssumption, Zenon DEF File, Buf, Sector, Phys, Entry

\* storage_pread up to the end of the shadow finds what it holds, and zero at
\* its end.
LEMMA ShadowRead ==
  ASSUME NEW r, NEW s \in Nat, NEW v \in Pread(r, s), storage_read_only,
         Extent(r) \in Nat, s <= Extent(r)
  PROVE  v = IF s < Extent(r) THEN r.shadow_buf[s + 1] ELSE Zero
<1> DEFINE e == Extent(r)
<1>1. v \in IF s < e THEN {r.shadow_buf[s + 1]} ELSE IF s = e THEN {Zero} ELSE Values
  BY Zenon DEF Pread
<1>2. e \in Nat /\ s <= e
  BY Zenon
<1> HIDE DEF e
<1>3. v = IF s < e THEN r.shadow_buf[s + 1] ELSE Zero
  BY <1>1, <1>2
<1> QED BY <1>3, Zenon DEF e

\* A sector of a partition is set, and the others stay.
Differs(f, g, s, v) ==
  /\ g[s + 1] = v
  /\ \A k \in Nat : k < FileSize /\ k # s => g[k + 1] = f[k + 1]

\* What setting a sector does.
LEMMA SectorSet ==
  ASSUME NEW f \in [1 .. FileSize -> Values], NEW s \in Nat, s < FileSize, NEW v
  PROVE  Differs(f, [f EXCEPT ![s + 1] = v], s, v)
BY BoundsAssumption DEF Differs

\* A read fills its sector of the shared memory with what the file holds there.
LEMMA ReadMoves ==
  ASSUME StorageInv, MovedInv, IovecRead, UNCHANGED settings
  PROVE  MovedInv'
<1> DEFINE c == <<io.i, io.j>>
           r == rmtfds[io.id]
<1>1. /\ AtSector /\ ~io.write /\ UNCHANGED <<rmtfds, disk>> /\ InMem(Phys)
      /\ io' = [io EXCEPT !.j = @ + 1]
  BY Zenon DEF IovecRead
<1>2. /\ io # Null /\ r \in Handles /\ io.id \in Ids
      /\ io.i \in 1 .. Len(io.iovec) /\ io.iovec \in Seq(Entries)
      /\ Entry \in Entries /\ io.j \in 0 .. Entry.num - 1
      /\ Sector \in Nat /\ Phys \in Nat
  BY <1>1, AtSectorTyped, Zenon
<1>3. /\ c \in Transfers(io.iovec)
      /\ File(io.iovec, c) = Sector /\ Buf(io.iovec, c) = Phys
      /\ io' # Null /\ io'.iovec = io.iovec /\ io'.write = io.write /\ io'.id = io.id
      /\ \A x \in Transfers(io.iovec) :
           /\ Before(x)' <=> Before(x) \/ x = c
           /\ Before(x) => Later(x, c)
  BY <1>1, SectorMade, Zenon
<1> HIDE DEF c
<1>4. PICK v \in Pread(r, Sector) : mem' = [mem EXCEPT ![Phys + 1] = v]
  BY Zenon DEF IovecRead
<1> SUFFICES ASSUME disciplined, NEW x \in Transfers(io.iovec), Before(x)'
             PROVE  Moved(x)'
  BY <1>1, <1>3, Zenon DEF MovedInv, Followed, settings
<1>5. Phys + 1 \in 1 .. MemSize /\ mem \in [1 .. MemSize -> Values]
  BY <1>1, <1>2, BoundsAssumption, SMTT(20) DEF InMem, StorageInv, StorageTyped
<1>6. v = Content(r, Sector)
  <2>1. HandleOK(r) /\ InUse(r)
    BY <1>2, Zenon DEF StorageInv, HandlesOK, RequestOK
  <2>2. CASE ~storage_read_only
    <3>1. r.fd # Null
      BY <2>1, <2>2, Zenon DEF HandleOK, InUse
    <3>2. v = IF Sector < FileSize THEN disk[r.fd][Sector + 1] ELSE Zero
      BY <1>4, <2>2, <3>1, Zenon DEF Pread, Faults
    <3> QED BY <1>2, <2>2, <3>2, BoundsAssumption, SMTT(20) DEF Content, Extent
  <2>3. CASE storage_read_only
    <3>1. MayRead(io.id, io.iovec)
      BY <1>1, <1>2, Zenon DEF StorageInv, RequestOK
    <3>2. SectorBase(Entry) + Entry.num <= Extent(r) + 1 /\ SectorBase(Entry) \in Nat
      BY <1>2, <3>1, SectorBaseTyped, Zenon DEF MayRead, Entry
    <3>3. Extent(r) \in Nat
      <4>1. r.shadow_buf \in Buffers \cup {Null}
        BY <1>2, Zenon DEF Handles
      <4> QED BY <4>1, BoundsAssumption, BuffersAreSequences, Zenon DEF Extent
    <3>4. Sector <= Extent(r)
      BY <1>2, <3>2, <3>3, SMTT(20) DEF Sector, Entries
    <3>5. v = IF Sector < Extent(r) THEN r.shadow_buf[Sector + 1] ELSE Zero
      BY <1>2, <1>4, <2>3, <3>3, <3>4, ShadowRead, Zenon
    <3> QED BY <1>2, <2>3, <3>3, <3>5 DEF Content
  <2> QED BY <2>2, <2>3, Zenon
<1>7. \A s : Content(r, s)' = Content(r, s)
  BY <1>1, <1>3 DEF Content, Extent, settings
<1>8. Buf(io.iovec, x) \in Nat
  BY <1>2, TransferTyped, Zenon
<1>9. CASE x = c
  BY <1>1, <1>3, <1>4, <1>5, <1>6, <1>7, <1>9, Zenon DEF Moved, InMem
<1>10. CASE Before(x) /\ x # c
  <2>1. Moved(x)
    BY <1>2, <1>10, Zenon DEF MovedInv, Followed
  <2>2. ASSUME \A y \in Transfers(io.iovec) :
                 Before(y)' /\ Later(x, y) => Apart(x, y)'
        PROVE  mem'[Buf(io.iovec, x) + 1] = Content(r, File(io.iovec, x))
    <3>1. \A y \in Transfers(io.iovec) : Apart(x, y)' <=> Apart(x, y)
      BY <1>3, Zenon DEF Apart
    <3>2. Buf(io.iovec, x) # Phys
      BY <1>1, <1>3, <1>10, <2>2, <3>1, Zenon DEF Apart
    <3>3. \A y \in Transfers(io.iovec) : Before(y) /\ Later(x, y) => Apart(x, y)
      BY <1>3, <2>2, <3>1, Zenon
    <3>4. mem[Buf(io.iovec, x) + 1] = Content(r, File(io.iovec, x))
      BY <2>1, <3>3, Zenon DEF Moved
    <3>5. Buf(io.iovec, x) + 1 \in 1 .. MemSize
      BY <1>8, <2>1, BoundsAssumption, SMTT(20) DEF Moved
    <3> QED BY <1>2, <1>4, <1>5, <1>8, <3>2, <3>4, <3>5, SMTT(20)
  <2>3. Buf(io.iovec, x) < MemSize
    BY <2>1, Zenon DEF Moved
  <2> QED BY <1>1, <1>3, <1>7, <2>2, <2>3, Zenon DEF Moved
<1> QED BY <1>3, <1>9, <1>10, Zenon

\* A write puts its sector of the shared memory into the file, and keeps what
\* the file held elsewhere below its end.
LEMMA WriteContent ==
  ASSUME StorageInv, IovecWrite, UNCHANGED settings
  PROVE  /\ Sector < Extent(rmtfds[io.id])'
         /\ \A s \in Nat : s = Sector => Content(rmtfds[io.id], s)' = mem[Phys + 1]
         /\ \A s \in Nat : s < Extent(rmtfds[io.id]) /\ s # Sector =>
              /\ s < Extent(rmtfds[io.id])'
              /\ Content(rmtfds[io.id], s)' = Content(rmtfds[io.id], s)
<1>0. io'.id = io.id
  <2>1. io' = [io EXCEPT !.j = @ + 1] /\ AtSector
    BY Zenon DEF IovecWrite
  <2> QED BY <2>1, SectorMade, Zenon
<1> DEFINE r == rmtfds[io.id]
           q == rmtfds'[io.id]
<1>1. AtSector /\ PwriteFits(r, Sector)
  BY Zenon DEF IovecWrite
<1>2. /\ r \in Handles /\ io.id \in Ids /\ io # Null /\ Sector \in Nat
  BY <1>1, AtSectorTyped, Zenon
<1>3. CASE ~storage_read_only
  <2>1. /\ disk' = [disk EXCEPT ![r.fd] = [@ EXCEPT ![Sector + 1] = mem[Phys + 1]]]
        /\ rmtfds' = rmtfds
    BY <1>3, Zenon DEF IovecWrite, Pwrite
  <2>2. r.fd \in Partitions /\ Sector < FileSize
    BY <1>1, <1>2, <1>3, Zenon DEF PwriteFits, Handles
  <2>3. disk[r.fd] \in [1 .. FileSize -> Values]
    BY <2>2, Zenon DEF StorageInv, StorageTyped
  <2>4. disk'[r.fd] = [disk[r.fd] EXCEPT ![Sector + 1] = mem[Phys + 1]]
    BY <2>1, <2>2, Zenon DEF StorageInv, StorageTyped
  <2>10. Differs(disk[r.fd], [disk[r.fd] EXCEPT ![Sector + 1] = mem[Phys + 1]], Sector, mem[Phys + 1])
    BY <1>2, <2>2, <2>3, SectorSet, Zenon
  <2>11. Differs(disk[r.fd], disk'[r.fd], Sector, mem[Phys + 1])
    BY <2>4, <2>10, SMTT(20)
  <2>5. disk'[r.fd][Sector + 1] = mem[Phys + 1]
    BY <2>11, Zenon DEF Differs
  <2>6. \A s \in Nat : s < FileSize /\ s # Sector =>
          disk'[r.fd][s + 1] = disk[r.fd][s + 1]
    BY <2>11, Zenon DEF Differs
  <2>7. Extent(rmtfds[io.id])' = FileSize /\ Extent(r) = FileSize
    BY <1>3, Zenon DEF Extent, settings
  <2>8. ~storage_read_only' /\ rmtfds'[io'.id] = r
    BY <1>0, <1>3, <2>1, Zenon DEF settings
  <2>9. ASSUME NEW s \in Nat, s < FileSize
        PROVE  /\ Content(rmtfds[io.id], s)' = disk'[r.fd][s + 1]
               /\ Content(r, s) = disk[r.fd][s + 1]
    BY <1>3, <2>7, <2>8, <2>9, BoundsAssumption, SMTT(20) DEF Content
  <2> QED BY <1>2, <2>2, <2>5, <2>6, <2>7, <2>9, Zenon
<1>4. CASE storage_read_only
  <2>1. PICK new \in Grown(r.shadow_buf, Sector, mem[Phys + 1]) :
          q = [r EXCEPT !.shadow_buf = new]
    BY <1>4, ShadowWrite, Zenon
  <2>2. q.shadow_buf = new
    BY <1>2, <2>1, Zenon DEF Handles
  <2>3. r.shadow_buf \in Buffers \cup {Null}
    BY <1>2, Zenon DEF Handles
  <2>4. /\ new \in Buffers /\ new # Null
        /\ Len(new) > Sector /\ new[Sector + 1] = mem[Phys + 1]
        /\ r.shadow_buf # Null =>
             /\ Len(new) >= Len(r.shadow_buf)
             /\ \A k \in 1 .. Len(r.shadow_buf) : k # Sector + 1 => new[k] = r.shadow_buf[k]
    <3>1. HoldsSector(new, r.shadow_buf, Sector, mem[Phys + 1])
      BY <1>2, <2>3, GrownBuffer, Zenon
    <3> QED BY <3>1, Zenon DEF HoldsSector
  <2>5. Len(new) \in Nat /\ (r.shadow_buf # Null => Len(r.shadow_buf) \in Nat)
    BY <2>3, <2>4, BuffersAreSequences, Zenon
  <2>6. Extent(rmtfds[io.id])' = Len(new)
    BY <1>0, <1>4, <2>2, <2>4, Zenon DEF Extent, settings
  <2>7. \A s \in Nat : s = Sector => Content(rmtfds[io.id], s)' = mem[Phys + 1]
    BY <1>0, <1>2, <1>4, <2>2, <2>4, <2>5, <2>6, SMTT(20) DEF Content, settings
  <2>8. ASSUME NEW s \in Nat, s < Extent(r), s # Sector
        PROVE  /\ s < Extent(rmtfds[io.id])'
               /\ Content(rmtfds[io.id], s)' = Content(r, s)
    <3>1. r.shadow_buf # Null /\ s < Len(r.shadow_buf)
      BY <1>4, <2>8, SMTT(20) DEF Extent
    <3>2. s < Len(new) /\ new[s + 1] = r.shadow_buf[s + 1]
      BY <1>2, <2>4, <2>5, <2>8, <3>1, SMTT(20)
    <3>3. Content(r, s) = r.shadow_buf[s + 1]
      BY <1>4, <2>5, <3>1, SMTT(20) DEF Content, Extent
    <3>4. Content(rmtfds[io.id], s)' = new[s + 1]
      BY <1>0, <1>4, <2>2, <2>5, <2>6, <3>2, SMTT(20) DEF Content, settings
    <3> QED BY <2>6, <3>2, <3>3, <3>4, Zenon
  <2> QED BY <2>4, <2>6, <2>7, <2>8, Zenon
<1> QED BY <1>3, <1>4, Zenon

\* What was moved stays moved while a write goes on.
LEMMA WriteMoves ==
  ASSUME StorageInv, MovedInv, IovecWrite, UNCHANGED settings
  PROVE  MovedInv'
<1> DEFINE c == <<io.i, io.j>>
           r == rmtfds[io.id]
<1>1. /\ AtSector /\ io.write /\ mem' = mem /\ InMem(Phys)
      /\ io' = [io EXCEPT !.j = @ + 1]
  BY Zenon DEF IovecWrite
<1>2. io # Null /\ io.iovec \in Seq(Entries)
  BY <1>1, AtSectorTyped, Zenon
<1>3. /\ c \in Transfers(io.iovec)
      /\ File(io.iovec, c) = Sector /\ Buf(io.iovec, c) = Phys
      /\ io' # Null /\ io'.iovec = io.iovec /\ io'.write = io.write /\ io'.id = io.id
      /\ \A x \in Transfers(io.iovec) :
           /\ Before(x)' <=> Before(x) \/ x = c
           /\ Before(x) => Later(x, c)
  BY <1>1, SectorMade, Zenon
<1> HIDE DEF c
<1> SUFFICES ASSUME NEW x \in Transfers(io.iovec), Before(x)'
             PROVE  Moved(x)'
  BY <1>3, Zenon DEF MovedInv
<1>4. /\ Sector < Extent(rmtfds[io.id])'
      /\ \A s \in Nat : s = Sector => Content(rmtfds[io.id], s)' = mem[Phys + 1]
      /\ \A s \in Nat : s < Extent(rmtfds[io.id]) /\ s # Sector =>
           /\ s < Extent(rmtfds[io.id])'
           /\ Content(rmtfds[io.id], s)' = Content(rmtfds[io.id], s)
  BY WriteContent, Zenon
<1>5. PICK s \in Nat : s = File(io.iovec, x)
  BY <1>2, TransferTyped, Zenon
<1>6. CASE x = c
  <2>1. s = Sector /\ File(io.iovec, x)' = s /\ Buf(io.iovec, x)' = Phys
    BY <1>3, <1>5, <1>6, ZenonT(30) DEF File, Buf
  <2>2. Content(rmtfds[io.id], s)' = mem[Phys + 1] /\ s < Extent(rmtfds[io.id])'
    BY <1>4, <2>1, ZenonT(30)
  <2>3. Content(rmtfds[io.id], File(io.iovec, x))' = Content(rmtfds[io.id], s)'
    BY <2>1, Zenon DEF Content
  <2> QED BY <1>1, <2>1, <2>2, <2>3, Zenon DEF Moved, InMem
<1>7. CASE Before(x) /\ x # c
  <2>1. Moved(x)
    BY <1>1, <1>2, <1>7, Zenon DEF MovedInv, Followed
  <2>2. Buf(io.iovec, x) < MemSize /\ File(io.iovec, x) < Extent(r)
    BY <1>1, <2>1, Zenon DEF Moved
  <2>3. File(io.iovec, x) < Extent(rmtfds[io.id])'
    BY <1>4, <1>5, <2>2, Zenon
  <2>4. ASSUME \A y \in Transfers(io.iovec) :
                 Before(y)' /\ Later(x, y) => Apart(x, y)'
        PROVE  mem[Buf(io.iovec, x) + 1] = Content(rmtfds[io.id], s)'
    <3>1. \A y \in Transfers(io.iovec) : Apart(x, y)' <=> Apart(x, y)
      BY <1>3, Zenon DEF Apart
    <3>2. File(io.iovec, x) # Sector
      BY <1>1, <1>3, <1>7, <2>4, <3>1, Zenon DEF Apart
    <3>3. \A y \in Transfers(io.iovec) : Before(y) /\ Later(x, y) => Apart(x, y)
      BY <1>3, <2>4, <3>1, Zenon
    <3>4. mem[Buf(io.iovec, x) + 1] = Content(r, File(io.iovec, x))
      BY <2>1, <3>3, Zenon DEF Moved
    <3> QED BY <1>3, <1>4, <1>5, <2>2, <3>2, <3>4, ZenonT(30)
  <2>5. File(io.iovec, x)' = s /\ Buf(io.iovec, x)' = Buf(io.iovec, x)
    BY <1>3, <1>5, Zenon DEF File, Buf
  <2>6. Content(rmtfds[io.id], File(io.iovec, x))' = Content(rmtfds[io.id], s)'
    BY <2>5, Zenon DEF Content
  <2> QED BY <1>1, <1>3, <1>5, <2>2, <2>3, <2>4, <2>5, <2>6, Zenon DEF Moved
<1> QED BY <1>3, <1>6, <1>7, Zenon

\* The request's progress, in every step.
LEMMA MovedNext == StorageInv /\ MovedInv /\ [Next]_vars => MovedInv'
<1> SUFFICES ASSUME StorageInv, MovedInv, [Next]_vars PROVE MovedInv'
  BY Zenon
<1>0. UNCHANGED settings
  BY Zenon DEF Next, vars, settings
<1>1. ASSUME UNCHANGED <<rmtfds, disk, mem, io>> PROVE MovedInv'
  BY <1>0, <1>1, ZenonT(30) DEF MovedInv, Followed, Moved, Before, Apart, Content, Extent, settings
<1>2. ASSUME io' = Null PROVE MovedInv'
  BY <1>2, Zenon DEF MovedInv, Followed
<1>3. CASE UNCHANGED vars
  BY <1>1, <1>3, Zenon DEF vars
<1>4. ASSUME NEW n \in Nodes, io = Null, Request(n) PROVE MovedInv'
  <2>1. ASSUME io' = io PROVE MovedInv'
    BY <1>2, <1>4, <2>1, Zenon
  <2>2. ASSUME NEW id \in RequestIds, NEW write \in BOOLEAN, NEW iovec \in Iovecs,
               IovecStart(n, id, write, iovec), Gets(n, id)
        PROVE  MovedInv'
    <3>1. io'.i = 1 /\ io'.j = 0 /\ io'.iovec = iovec /\ iovec \in Seq(Entries)
      BY <2>2, IovecsAssumption DEF IovecStart
    <3>2. ASSUME NEW x \in Transfers(iovec) PROVE ~Before(x)'
      <4>1. x[1] \in 1 .. Len(iovec) /\ x[2] \in Nat /\ Len(iovec) \in Nat
        BY <3>1, TransferTyped, LenProperties, Zenon
      <4> QED BY <3>1, <4>1 DEF Before
    <3> QED BY <3>1, <3>2, Zenon DEF MovedInv
  <2>3. CASE \E id \in RequestIds, write \in BOOLEAN, iovec \in Iovecs :
               IovecStart(n, id, write, iovec)
    BY <2>1, <2>2, <2>3, Zenon DEF IovecStart
  <2>4. CASE \/ \E path \in Paths : Open(n, path)
             \/ \E id \in RequestIds : Close(n, id) \/ GetDevError(n, id) \/ GetOutside(n, id)
             \/ \E size \in {0, MemSize, MemSize + 1} : AllocBuf(n, size)
             \/ \E op \in {"open", "close", "iovec", "alloc_buf", "dev_error"} :
                  Malformed(n, op)
    <3>1. io' = io
      BY <2>4, Zenon DEF Open, OpenRefused, OpenAgain, OpenNew, Close, GetDevError,
                  GetOutside, AllocBuf, Malformed
    <3> QED BY <2>1, <3>1, Zenon
  <2> QED BY <1>4, <2>3, <2>4, Zenon DEF Request
<1>5. CASE Iovec
  <2>1. CASE IovecWrite
    BY <1>0, <2>1, WriteMoves, Zenon
  <2>2. CASE IovecRead
    BY <1>0, <2>2, ReadMoves, Zenon
  <2>3. CASE IovecCrash
    BY <1>1, <2>3, Zenon DEF IovecCrash
  <2>4. CASE IovecFails \/ IovecDone
    BY <1>2, <2>4, Zenon DEF IovecFails, IovecDone
  <2>5. CASE IovecNextEntry
    <3>1. /\ UNCHANGED <<rmtfds, disk, mem>> /\ io # Null /\ io.j >= Entry.num
          /\ io.i <= Len(io.iovec) /\ io' = [io EXCEPT !.i = io.i + 1, !.j = 0]
      BY <2>5, Zenon DEF IovecNextEntry
    <3>2. /\ io \in Requests /\ io.i \in Nat \ {0} /\ io.j \in Nat
          /\ io.iovec \in Seq(Entries)
      BY <3>1, IovecsAssumption, Zenon DEF StorageInv, StorageTyped, Requests
    <3>3. /\ io'.id = io.id /\ io'.write = io.write /\ io'.iovec = io.iovec
          /\ io'.i = io.i + 1 /\ io'.j = 0
      <4>1. io.i + 1 \in Nat \ {0} /\ 0 \in Nat
        BY <3>2
      <4> QED BY <3>1, <4>1, RequestMoves, Zenon
    <3>4. ASSUME NEW x \in Transfers(io.iovec) PROVE Before(x)' <=> Before(x)
      <4>1. /\ x[1] \in 1 .. Len(io.iovec) /\ x[2] \in 0 .. io.iovec[x[1]].num - 1
            /\ x[2] \in Nat /\ Len(io.iovec) \in Nat
        BY <3>2, TransferTyped, LenProperties, Zenon
      <4>2. x[1] = io.i => x[2] < io.j
        <5> SUFFICES ASSUME x[1] = io.i PROVE x[2] < io.j
          BY Zenon
        <5>1. io.iovec[io.i] \in Entries
          BY <3>2, <4>1, ElementOfSeq, Zenon
        <5>2. io.j >= io.iovec[io.i].num
          BY <2>5, Zenon DEF IovecNextEntry, Entry
        <5>3. x[2] < io.iovec[io.i].num /\ io.iovec[io.i].num \in Nat
          BY <4>1, <5>1, SMTT(20) DEF Entries
        <5>4. io.j \in Nat /\ x[2] \in Nat
          BY <3>2, <4>1, Zenon
        <5> QED BY <5>2, <5>3, <5>4
      <4> QED BY <3>2, <3>3, <4>1, <4>2 DEF Before
    <3> SUFFICES ASSUME Followed, NEW x \in Transfers(io.iovec), Before(x)'
                 PROVE  Moved(x)'
      BY <1>0, <3>1, <3>3, Zenon DEF MovedInv, Followed, settings
    <3>5. Moved(x)
      BY <3>1, <3>4, Zenon DEF MovedInv
    <3>6. \A y \in Transfers(io.iovec) : Apart(x, y)' <=> Apart(x, y)
      BY <3>3, Zenon DEF Apart
    <3>7. \A s : Content(rmtfds[io.id], s)' = Content(rmtfds[io.id], s)
      BY <1>0, <3>1, <3>3 DEF Content, Extent, settings
    <3>8. Extent(rmtfds[io.id])' = Extent(rmtfds[io.id])
      BY <1>0, <3>1, <3>3 DEF Extent, settings
    <3> QED BY <3>1, <3>3, <3>4, <3>5, <3>6, <3>7, <3>8, Zenon DEF Moved
  <2> QED BY <1>5, <2>1, <2>2, <2>3, <2>4, <2>5, Zenon DEF Iovec
<1>6. ASSUME NEW a \in 1 .. MemSize, NEW v \in Values, ModemStore(a, v)
      PROVE  MovedInv'
  BY <1>2, <1>6, Zenon DEF ModemStore
<1> QED BY <1>3, <1>4, <1>5, <1>6, Zenon DEF Next

\* A write, and a read with disciplined use, that is answered with success has
\* moved every sector it names, modulo 2^23, whatever the iovec: IovecComplete.
THEOREM StorageIovecComplete == Spec => IovecComplete
<1> DEFINE Complete ==
      io # Null /\ (disciplined \/ io.write) /\ io' = Null /\ resp'.ok =>
        \A x \in Transfers(io.iovec) : Final(io.iovec, io.write, x) =>
          mem[Buf(io.iovec, x) + 1] = Content(rmtfds[io.id], File(io.iovec, x))
<1>1. Init => MovedInv
  BY Zenon DEF Init, MovedInv, Followed
<1>2. StorageInv /\ MovedInv /\ [Next]_vars => [Complete]_vars
  <2> SUFFICES ASSUME StorageInv, MovedInv, Next, Followed, io' = Null,
                      resp'.ok, NEW x \in Transfers(io.iovec),
                      Final(io.iovec, io.write, x)
               PROVE  mem[Buf(io.iovec, x) + 1] =
                        Content(rmtfds[io.id], File(io.iovec, x))
    BY Zenon DEF vars, Followed
  <2>0. io # Null
    BY Zenon DEF Followed
  <2>1. Iovec
    BY <2>0, Zenon DEF Next, ModemStore
  <2>2. ~IovecWrite /\ ~IovecRead
    BY SectorMade, Zenon DEF IovecWrite, IovecRead
  <2>3. ~IovecNextEntry
    <3> SUFFICES ASSUME IovecNextEntry PROVE FALSE
      BY Zenon
    <3>1. io' = [io EXCEPT !.i = io.i + 1, !.j = 0]
      BY Zenon DEF IovecNextEntry
    <3>2. io.i + 1 \in Nat \ {0} /\ 0 \in Nat
      BY <2>0, SMTT(20) DEF StorageInv, StorageTyped, Requests
    <3>3. io' \in Requests
      BY <2>0, <3>1, <3>2, RequestMoves, Zenon
    <3> QED BY <3>3, RequestsAssumption, Zenon
  <2>4. ~IovecFails
    BY SMTT(20) DEF IovecFails, Respond
  <2>5. IovecDone
    BY <2>0, <2>1, <2>2, <2>3, <2>4, Zenon DEF Iovec, IovecCrash
  <2>6. io.iovec \in Seq(Entries) /\ io.i \in Nat
    BY <2>0, IovecsAssumption, Zenon DEF StorageInv, StorageTyped, Requests
  <2>7. x[1] \in 1 .. Len(io.iovec) /\ Len(io.iovec) \in Nat
    BY <2>6, TransferTyped, LenProperties, Zenon
  <2>8. Before(x)
    BY <2>5, <2>6, <2>7 DEF IovecDone, Before
  <2>9. Moved(x)
    BY <2>8, Zenon DEF MovedInv
  <2>10. \A y \in Transfers(io.iovec) : Later(x, y) => Apart(x, y)
    BY Zenon DEF Final, Apart
  <2> QED BY <2>9, <2>10, ZenonT(30) DEF Moved
<1>3. Spec => []MovedInv
  BY <1>1, MovedNext, StorageInvariant, PTL DEF Spec
<1> QED BY <1>2, <1>3, StorageInvariant, PTL DEF Spec, IovecComplete
=============================================================================
