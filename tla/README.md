# Verification of the services and HALs of the Dragonboard device tree

The repository is an Android device tree.  Most of it is configuration.  The
code that keeps state is of two kinds.  Under `src/qcom` are four daemons and a
library that let the phone's processors find each other's services over QRTR
(Qualcomm IPC router) and give the modem its files.  Under `src/audio` and
`src/gralloc` are two HAL modules, libraries that the Android framework loads.
This directory holds TLA+ models of them, TLC runs on small instances and
TLAPS proofs for all instances.

## 1. The system

| Part | Source | State | Operations | What is hard |
|---|---|---|---|---|
| `struct map` | `qrtr/src/map.c` | table, size, count | put, get, remove, clear, rehash, iterate | tombstones, wrap of probes, rehash inside a put |
| name server | `qrtr/src/ns.c` | one table of servers per node, list of lookups | HELLO, BYE, NEW/DEL_SERVER, DEL_CLIENT, NEW/DEL_LOOKUP | removal by port while iterating by slot, repeated announcements, notices and replies that must agree, loss of all state on restart |
| client library | `qrtr/lib/qrtr.c` | a socket | open, publish, bye, new/remove lookup, receive, decode | queued packets of sockets that have closed |
| QMI codec | `qrtr/lib/qmi.c`, `rmtfs/qmi_rmtfs.c`, `pd-mapper/servreg_loc.c` | none | encode, decode | order of TLVs, optional elements, room counted at two levels |
| event loop | `qrtr/src/waiter.c` | tickets, timeouts, pollset | add, delete, set, clear, synchronize, wait | timeouts that pass during poll and callbacks, a pollset that grows by 32 |
| lookup client, lists, configuration | `qrtr/src/lookup.c`, `list.h`, `addr.c`, `cfg.c` | none to speak of | print services, set the address | - |
| remote file system | `rmtfs/rmtfs.c`, `storage.c`, `sharedmem.c` | handles, shadow buffers, shared memory | open, close, iovec, alloc_buf, get_dev_error | handles reused after close, half-done transfers, read-only mode |
| life of that daemon | `rmtfs/rmtfs.c`, `rproc.c` | signal count, threads, pipe, modem | start, stop, restart after ENETRESET | signals between test and `select`, modem that writes while it stops |
| TFTP server | `tqftpserv/tqftpserv.c`, `translate.c` | readers, writers, files | RRQ, WRQ, ACK, DATA, BYE, DEL_CLIENT | lost windows, repeated ACKs, foreign datagrams, release of sockets |
| protection domain mapper | `pd-mapper/` | a constant table | one request | a transaction id that is not always set |
| audio HAL | `audio/audio_hw.c` | streams under two mutexes, PCMs | open, close, standby, write, route, position | the write goes on without the device mutex, the position query without any; a count of frames that wraps |
| gralloc | `gralloc/` | a table of buffers, their locks and mappings | open, close, alloc, free, register, unregister, lock, unlock | handles at reused addresses, one mapping for several locks, a device destroyed while in use |
| memtrack, installer, init scripts, overlays, policy | rest of `src/` | none | - | configuration |

The daemons interact through the name server: `rmtfs`, `tqftpserv` and
`pd-mapper` publish a service and serve the modem's requests; the kernel tells
the name server of sockets that close (DEL_CLIENT) and nodes that go (BYE), and
the name server passes this on to every local service; when the name server
itself dies, every socket gets ENETRESET.

## 2. Modules

| Module | Models | Kind |
|---|---|---|
| `HashTable` | the probes of `map_hash` and `map_find` | operators |
| `QrtrMap` | `struct map`, one action per call, the rehash loop one slot per step; the refinement mapping to `QrtrDict` | component |
| `QrtrDict` | what users of the map rely on | abstract specification |
| `QrtrNs` | the name server, one action per control command, the BYE loop one slot per step | component |
| `QrtrSystem` | the name server with local publishers, local observers, a remote node and the kernel's queues | composition (extends `QrtrNs`) |
| `Waiter` | the event loop of the name server: tickets, poll, and its loop one ticket or callback per step | component |
| `RmtfsStorage` | the requests of rmtfs, its handles, files, shadow buffers and shared memory; `rmtfs_iovec` one sector per step | component |
| `RmtfsRun` | `run_rmtfs`, the threads of `rproc.c`, signals, the modem's shutdown | component |
| `Tqftp` | the TFTP server and the modem's side of its transfers | component |
| `QmiCodec` | `qmi_encode` and `qmi_decode`, and the tables of the messages | recursive operators |
| `QmiService` | pd-mapper, and the frame of rmtfs's handlers: a client, its requests and the answers | component (extends `QmiCodec`) |
| `AudioOut` | the playback side of the audio HAL, a call cut at its mutexes and where it blocks | component |
| `Gralloc` | the gralloc module and its table of buffers | component |
| `HashTableProofs`, `QrtrMapProofs`, `QrtrNsProofs`, `WaiterProofs`, `RmtfsProofs` (both rmtfs modules), `TqftpProofs`, `AudioOutProofs`, `GrallocProofs` | theorems | proofs |
| `MC*` | small instances; `MCQrtrLib` and `MCHals` put two components that share no state into one run, a behaviour being one of the first or one of the second | instances |

Definitions marked `Fault:` are faulty variants of the definition after them.
No specification uses them; replacing the definition by one of them makes TLC
report the property `PROJECT.json` names beside it, which shows that the
property depends on that piece of code.

### Correspondence with the code

**`struct map`.**  `size`, `count` and `data` are the fields; `oldt`, `osize`,
`i` and `req` are the locals of `map_rehash` and `map_reput`, live while
`pc = "rehash"`.  Keys are the values of `hash_u32`; `MaxSize` stands for the
`calloc` that fails.  `Overwrite` says whether callers may put a key that is in
the map: `node_get` never does, `server_add` may.

**Name server.**  `services[n]` is the table of node n, `lookups` the list of
observers, `bye` the locals of the loop in `ctrl_cmd_bye`.  `rx` and `tx` are
the packet the last step handled and what it sent; properties use them and the
runs leave them out of the fingerprint (`VIEW`).  `Handle` is `ctrl_port_fn`'s
switch; `Ignore` gathers the handlers' early returns.  A table has a fixed
number of slots and a put needs room: growth is `QrtrMap`'s subject.
`Reannounce` states what senders may announce for a port in use.

**System.**  `ctrlq` is the name server's socket, `inbox` the observers', `sock`
the life of each client's socket, `reset` the sockets with a pending ENETRESET.
The kernel, the service manager and the remote node are external, modelled from
how `ns.c` and `qrtr.c` use them: one FIFO of control packets, a DEL_CLIENT in the
name of a closed socket, a BYE for a lost node; packets to a name server that is
not there are lost.  The remote node answers a HELLO that reached it with all its
services, as `ctrl_cmd_hello` does, and does not echo it back; `greeted` says whether
a HELLO, the echo or the broadcast of a start, was sent and answered.  An echo that
could not be sent is never answered, and what the node had before it stays unknown.
The answer repeats announcements; `doubled` says whether one of them has put a port
into a table twice (finding 1), from which on `ViewAgrees` and `TablesAgree` say nothing.
Failed allocations are in `QrtrNs` (`NoMemory`) and not in this composition.

**Event loop.**  `tickets` is the list, `tk` the tickets, `cap` the room in the
pollset; `node`, `rc`, `cause` and `drift` are the locals of `waiter_wait`.  Time is
relative: a ticket has the time since its `start`, and `drift` is the time since
`waiter_wait` took `now`, which callbacks make stale.  What poll reports is any
choice: readiness, a hang-up alone, or an error.  Callbacks may use the waiter but
neither add tickets (the pollset would be freed under the loop) nor delete their own
(the loop goes on from it); the one callback of the repository, `ctrl_port_fn`, only
clears its ticket.  `waiter_wait` does not ask whether there is a pollset: without
tickets, and after a `waiter_add_null` that found no memory for a new one, at the first
ticket or at any 32nd later on, it dereferences NULL (`pc = "crashed"`).  An interval may
be 0; such a timeout is due again at once, and no wait polls while it is in the list.
`waiter_synchronize`'s two nested loops are written in closed form: each timeout gets
the start of the first one of the list with its interval.

**rmtfs storage.**  A sector is one value; files, shadow buffers and the shared
memory are sequences of sectors.  The first sector of an entry is `sector_addr` modulo
`Wrap` (2^23), because `sector_addr * SECTOR_SIZE` is a 32-bit product: a transfer beyond
is made on another sector and answered with success.  `storage_read_only` (option `-r`),
`verbose` (option `-v`) and `disciplined` are chosen in the initial state.  Undefined
behaviour is a choice: the uninitialised growth of `realloc` may hold any value, a copy
from beyond the shadow any value or the death of the daemon; the debug line of
`rmtfs_close`, which prints the id as a string, may end the daemon; and an id from 2^31
on, which `storage_get` does not refuse, is either refused by the node it finds before
the table or ends the model (`GetOutside`).  `disciplined` restricts requests to handles
the node has open and to reads that start no further than the end of the file, and files
to ones that do not fail.  `StaysUp`, and `IovecComplete` for reads, are about such
histories; the other properties, and `IovecComplete` for writes, about all.
`HandlesConsistent` says of the others that a handle without a partition takes `-r` and
a write after a close, which does leak a shadow.

**rmtfs daemon.**  `pc` is where `main` is; the gap between the test of `sig_int_count`
and `select` is a place of its own, so a signal may fall into it, or be taken by a
helper thread.  A write of "stop" returns when the modem is off, and the modem is off
once rmtfs has served what it still writes; or it fails, which `do_rproc_stop` logs
before it wakes `main` all the same.  Its write to the pipe may fail, which ends the
daemon, and the threads of the start and of the stop may not be made, which nobody asks
about.

**TFTP.**  `conns` joins the lists `readers` and `writers`; a file is a sequence of
units.  `main` handles the sockets `select` reported one after the other, so one action
per datagram in any order includes its behaviours.  The modem is external: a reader that
acknowledges windows, repeats its ACK on a timeout (perhaps too early) and ends with an
ERROR, the only datagram that makes the server release a reader; a writer in lock step
that repeats its last DATA on a timeout, early or not.  The options of a request are
those the code tells apart: none, or some with or without `wsize` and `tsize`; without
`wsize` the window is 0 and `handle_reader` sends nothing (`Served`).  `handle_writer`
appends whatever DATA comes, looks only for an error of `write` and not at the result of
the ACK's send: a write may be short and an ACK lost, and `spoiled` remembers the
writers of which a DATA was stored twice or in part.  `char` is unsigned on the ARM
targets, so the assembly of block numbers from bytes has no sign to extend.

**QMI.**  A C structure is a sequence with a value for each element of its table,
a message a sequence of bytes.  What the loops of `qmi_encode` and `qmi_decode`
keep from one element to the next (the position, `data_len_value`, the TLV that
is not complete) are the arguments of `EncodeFrom` and `DecodeFrom`.  The client
of `QmiService` writes and reads the wire format by definitions of its own
(`TlvsOf`, `Wire`, `Tlvs`), so that the codec is compared with something other
than itself.  It sends well-formed requests, TLVs in any order and some of a
later version, and also indications, messages with a wrong header and messages
nobody handles.  Strings are shorter than the arrays they are decoded into.  The
uninitialised `txn` of an answer to no request is any value.

**Audio.**  `out`, `dev`, `devLock` and `outLock` are the structures and the
mutexes of `audio_hw.c`; `call` is where each thread is.  A call is cut where it
takes a mutex and where it blocks in the PCM; `out_get_presentation_position`,
which takes no mutex, at every read of what other threads write.  `PositionStamp`
uses the pointer it tested or one read again, as a compiler may.  `written` is
modulo `WrittenMod`, and the difference that `signed_frames` takes is checked for
a `size_t` wider than it and for one that is not (`wide`).  tinyalsa is external:
a failed `pcm_open` returns one static PCM that is never ready and that
`pcm_close` leaves alone.  `client` says what the framework promises, which the
HAL does not enforce: "serial" (a position query overlaps no other call on its
stream) and "orderly" (a stream is closed in standby, because
`adev_close_output_stream` frees it whatever its PCM).  All four combinations are
explored.  One more promise is taken for granted: a stream is closed only when no other
call on it is under way, which the code does not check before it frees the stream.

**gralloc.**  A handle is an address, which another buffer may have later; `table` is
`gbm_bo_handle_map`, with the null entries that its `operator[]` leaves.  All calls run
under `dmod->mutex` and are one step, except registration, which takes it twice, and the
close of the device, which does not take it but is one call.  GBM is external.  A
`careful` process follows the gralloc protocol as the header of `Gralloc` states it, and
locks regions inside its buffer (`Inside`); any other may call everything out of turn,
and `MappedWhileLocked` holds for it as well.  Of a planar region `gbm_map` converts the
width and not the offset, with a log line only: `MapInside` says that what it maps ends
inside the bo, or beyond it by at most half the offset (`Overhang`).  A comment in the
code says that unregistering "is no-op for handles created locally"; it frees the bo of
those too, so a careful process does not do it.

## 3. Runs

| Run | Instance | Shows |
|---|---|---|
| `qrtr_lib` | keys 0, 1, 3, 6 (colliding at 2 and at 3 slots), two items, growth 1 up to 3 slots; six kinds of request, numbers of one and of three bytes, four names of which some are prefixes of others, response buffers of 15 sizes | the map refines `QrtrDict`, return values included, every entry is found, and no rehash needs another; requests are understood in any order of TLVs, responses are encoded to the byte or refused, pd-mapper answers what was asked |
| `ns_once` | two nodes with two ports each, all on the last slot of three, two lookups, every command and every kind of refused packet | observers hear of every change and of nothing untrue, replies and notices agree, a BYE clears the node, a DEL_CLIENT the port |
| `ns_stale` | the same, with ports announced again | **violated**: see Findings |
| `system` | a publisher, an observer, a remote server, two when ports are reused at once; all ports on one home slot, two queued packets; three unread datagrams without reuse (with it they are not looked at) | until an announcement repeated among colliding ports is stored twice: an idle name server knows exactly the living publishers, observers and, of a remote node that answered its HELLO, the services, even with ports reused at once; otherwise an observer that has read its datagrams knows exactly the matching servers, through closes, link losses and restarts |
| `system_live` | a publisher and an observer, link events, restarts | services that stay are found, services that go are forgotten |
| `waiter` | three tickets and that of `waiter_wait_timeout`, a descriptor, intervals 0, 1 and 2, a pollset that grows by 2, polls of at most 1, a millisecond lost in callbacks | the pollset has room for every descriptor and is missing only without tickets or after a failed allocation; no past timeout, but one of 0 ms, is left for the next wait |
| `rmtfs_storage` | two nodes, two partitions of one sector, two handles, with and without `-r` and `-v`, seven shapes of iovec, addresses that wrap at 4 sectors, ids from -1 to 2, disciplined clients or any with failing files | disciplined: the daemon stays up unless `-v` brings it down, success means all sectors were moved; any: handles stay with their node and partition, only writes after a close under `-r` leak one, a write said to be done is done |
| `rmtfs_run` | two signals, two restarts of the name server, two late writes of the modem | a stop under way ends the daemon; signals are heeded as long as requests wake the loop; a daemon that ends by the stop leaves the modem off, unless a write of "stop" failed, a start was late or a restart started the modem again |
| `tqftp_safe` | any two of two readers and two writers, a failed window, an early timeout, a repeated DATA, a stranger, a BYE, failing files and sends, short writes | readers get the file in order; writers have stored what they sent, unless a DATA was stored twice or in part |
| `tqftp_live` | any two of four readers (with a window, without options, with options and no window, of a file that is not there) and a writer, a failed window | the readers that can be served get all of their file and the others are never done, writers complete, sockets are released |
| `tqftp_stray` | a reader and a stranger | **violated**: see Findings |
| `hals` | audio: two threads, two streams, one substream, a buffer of one frame, two PCMs, a count that wraps at 2; graphics: two handles, two bos, plain and planar buffers, two devices, two locks a buffer | no write or standby is given a closed PCM, no PCM is lost, no two threads wait for each other, positions do not run ahead of the codec; buffers have a bo of their own, are mapped exactly while locked for the CPU, and inside their bo |

**Bounds.**  Two colliding ports and three slots suffice for a tombstone before a
live entry and a probe that wraps; three sizes of table for rehashes of colliding
keys.  `MaxQueue` and `MaxInbox` let a close, a new socket and a notice overlap, and a
remote node's answer to a HELLO repeat announcements that are still queued.
The files of `Tqftp` have a short last block, and more blocks than a window; block
numbers wrap at 4 and the longest file has three blocks (`FilesAssumption`).  In
`tqftp_live` writers repeat nothing: a last DATA repeated late may meet its socket in use
by another transfer and end that one (finding 2), and a lost ACK is never sent again, so
that completion is not promised with either.  The
two handles of `rmtfs_storage` are fewer than partitions times nodes, so opens are
refused.  Three tickets with a growth of two make the pollset grow, shrink and grow
again, and fail to; the tickets are interchangeable (`SYMMETRY`), no property of that run is a
liveness property.  The same goes for the threads and the streams of `hals`.  Its
single substream makes the second stream's open fail while the first plays; its
two PCMs let one be opened after another was closed, and its two frames let
`written` wrap.  Two handles over two bos suffice for a handle at the address of
its predecessor and for an allocation that fails.  The sizes in `BufLens` lie on
both sides of the length of every response.  Deadlock is not
checked where the system may stop: a daemon that has died or ended,
transfers that are all over, or a queue at its bound.

**Fairness.**  `FairSys`: the name server reads its queue and the observers read
theirs whenever there is something (the poll loops of `waiter.c` and `lookup.c`);
nothing makes clients, links or the name server come or go.  `RmtfsRun`: `main`, the
threads and the modem's shutdown go on, and the name server is started again
(`Restart=always`); no signal and no request of a running modem need come.  `Tqftp`:
the server's loop and the remote sockets go on, and a reader's timer fires when
nothing is under way.

## 4. Proofs

All for every value of the constants that meets the named assumptions.

* **`QrtrMapProofs`.**  The inductive invariant `IInv` is `TypeOK`, `CountIsLive`,
  `AllOnPath` and `RehashShape`.  `EveryEntryFound` is not inductive: what a put or
  removal preserves is that no empty slot lies between an entry's home and the entry
  (`AllOnPath`); a tombstone keeps it and a put into the first free slot creates it.
  `CountIsLive` during a rehash needs `RehashShape`, which bounds the entries already
  moved by the loop's cursor, so that the larger table has room.  Results: `MapTypeOK`,
  `MapCountIsLive`, `MapNotFullHasSlot` (the `-2` of `map_hash` is dead code),
  `MapRehashHasRoom`, `MapEveryEntryFound`.  They cover callers that put over keys
  already present, which the run does not.  `MapIsDictionary` is the refinement of
  `QrtrDict`, return values included, for callers that put no key twice (`Overwrite =
  FALSE`; otherwise finding 1 applies).  Its invariant `DInv` adds that no key has two
  entries (`Sound`) and that during a rehash the new table holds exactly what the loop
  has passed of the old one, and neither the key of the put that waits (`Moving`); each
  call is then one step of the dictionary and each slot the rehash moves a stutter.
* **`QrtrNsProofs`.**  `IInv` is `TypeOK`, good tables (every entry on its path, in
  its node's table, under its port) and `ByeOrigin` (the BYE loop works on the node of
  the last packet).  Results for any announcements: `NsTypeOK`,
  `NsRegisteredIsFound`, `NsEntryBelongs`, `NsOnlyOwnerChanges`,
  `NsReplyAgreesWithNotices`.  With `Reannounce = "never"` the invariant `UInv` adds
  `UniquePorts` and `ByeSwept` (the slots the BYE loop has passed are empty, which needs
  uniqueness because `server_del` removes by port) and gives `NsUniquePorts`,
  `NsByeClears`, `NsNoticesTrue` and `NsDelClientRemoves`, which finding 1 refutes
  without it.  `NsObserversInformed` needs only that a port in use is not announced as
  another server (`Reannounce # "any"`): a put over an entry tells nobody that the old
  server went.
* **`HashTableProofs`** has the lemmas on probes both rest on.
* **`WaiterProofs`.**  `WInv` describes the list (each ticket once, exactly the tickets
  that exist), the tickets a failed `waiter_add` leaves behind (null tickets forever),
  the count, and the room in the pollset: `CapInv` relates it to the next whole chunk of
  the *tickets callers hold*, which survives that deletes never shrink the pollset;
  `GoneInv` says that there is no pollset only for want of tickets or of memory.  Result
  `WaiterPollsetFits`.  `NoTimerLeftDue` speaks only of the end of the loop; `ScanInv`
  says of every ticket up to the loop's cursor that it is `Settled`, that is, not a
  timeout that was past when `waiter_wait` took `now`, unless it is one of 0 ms.  Its
  step for a callback that deletes a ticket needs that the others keep their order
  (`UnlinkList`), the step for `waiter_synchronize` that the start it copies is of a
  ticket nearer to the head.  Result `WaiterNoTimerLeftDue`, for any number of tickets,
  intervals and callbacks.
* **`RmtfsProofs`.**  `RunInv` (the byte is in the pipe only after a write of "stop"
  returned or failed; while starts and stops are in order, no start is to come once a stop
  was asked for) gives `RunEndsAfterStop`.  `StorageInv` has
  the types, the handles (`HandleOK`), and that the handle of a request under way stays
  its node's and open; results `StorageOneHandle`, `StorageHandlesConsistent`,
  `StorageStaysUp`, `StorageHandleOwned`, the last for any clients and ids while the
  daemon is up.
  `StorageIovecComplete` needs `MovedInv`, the loop invariant of `rmtfs_iovec`: file and
  memory agree on each sector already moved that no later moved one has overwritten.  It
  holds for any bound at which sector addresses wrap, and for writes whatever fails.
* **`TqftpProofs`.**  `handle_reader` keeps no position: it sends the window after
  whatever an ACK names.  So `ReaderInv` says nothing of order, only that each DATA
  under way to a reader is some block of its file under that block's number modulo
  `BlockMod`, and that what the reader has is whole blocks from the start, or all; as
  the file has fewer blocks than block numbers (`FilesAssumption`), a DATA with the next
  number is the next block (`NextBlock`).  `WriterInv` describes a writer none of whose
  DATA was stored twice or in part (`spoiled`).  With its request the server has not
  touched the file.  Later, either all blocks sent are in the file, the position is
  behind them and what is under way is the last one again (`AllIn`), or the last is
  still out, behind repetitions of the one before, and no ACK is under way (`LastOut`);
  an ACK under way says that the file holds all blocks sent (`AckInv`).  An ACK that is
  lost leaves all this as it is.  Of the other writers only `PosInv` is kept, that the
  file reaches to their position, so that an overlay is a sequence.  Every handler and
  every step of the remote side keeps all of it; results `TqftpReadIntact` and
  `TqftpWriteExact`, for any number of transfers, sockets, losses and repetitions, the
  latter with the exception its statement names.  Both have the hypothesis `PathsApart`:
  no file is written while it has another transfer.  The server does not ensure that,
  and what two writers of one file leave is not claimed; the runs' instance satisfies
  it.  The other assumptions are the types of the constants.
* **`AudioOutProofs`.**  `LockInv` reads off the place of each thread which mutexes
  it holds: a thread that waits for a stream's mutex holds the device's, one in the
  PCM holds only its stream's.  It gives `AudioNoLockCycle`.  `PcmUsedOpen` is a
  statement about a history (`misuse`) and far from inductive.  What is
  preserved is `OutInv`, that a stream out of standby has an open PCM, and `CallInv`,
  that a write in the PCM keeps its stream out of standby (it holds the stream's mutex,
  which standby needs) and that, to a framework whose queries overlap nothing on
  their stream, the pointer a query tested is still the stream's.  Result:
  `AudioPcmUsedOpen`.  `OwnInv` adds that an open PCM has its stream and that closed
  streams are in standby: `AudioPcmAccounted`.  `CountInv` relates the frames each
  stream, write and query has counted to the frames that reached the buffers, which
  the wrapping `written` alone does not determine: `AudioPositionTrue`, for both widths of
  `size_t`.  The assumption is `AudioAssumption`: the marks are not threads or
  streams, and the sizes are positive.
* **`GrallocProofs`.**  `DataOK` relates the lock count, the usage locked for and the
  mapping of one bo, and is kept by every lock and unlock of any process:
  `GrallocMappedWhileLocked`.  For a careful process `CInv` adds that an entry of the
  table belongs to a handle it has, that the locks it holds are those its bo counts, and
  that the GBM device lives as long as a device is open, a buffer is there or a
  registration is under way; results `GrallocBuffersBacked` and `GrallocNoMisuse`.
  `GrallocMapInside` adds that the size of a bo is the converted size of its handle's
  shape; the overhang of planar regions is part of its statement.  They rest on
  `GrallocAssumption` (the marks of the table are not bos and differ, sizes are
  numbers).

`MapTypeOK`, `MapCountIsLive`, `MapNotFullHasSlot`, `NsTypeOK`, `NsRegisteredIsFound`,
`NsEntryBelongs`, `NsOnlyOwnerChanges` and `NsUniquePorts` state definitions that no run
checks: the proofs cover every instance.

Only model-checked: the liveness properties (`system_live`, `tqftp_live`, `StopEnds` and
`SignalHeeded`), which need fairness and are out of the prover's reach; the QMI codec and
the services built on it, whose operators are recursive (the prover cannot use them, and
what they compute needs induction over data); and the agreement of the system composition
(`ViewAgrees`, `TablesAgree`, `LookupsAgree`), whose invariant would have to describe the
contents of every queue.

## 5. Findings

1. *A server stored twice* (`ns_stale`).  `map_hash` takes the first tombstone on the
   probe without looking for the key behind it.  When a port is announced again, and
   a colliding port before it was removed in between, the port is in the table
   twice; DEL_CLIENT, whose comment says "Remove the server belonging to this port",
   removes one.  Repeated announcements happen: a remote server registered between a
   HELLO and its echo is announced by both, and the `system` run reaches a port twice in a
   table that way (`doubled`).  With ports announced once (`ns_once`,
   `NsUniquePorts`) this cannot happen.
2. *Unsolicited messages end a transfer* (`tqftp_stray`).  The comment says "Drop
   unsolicited messages"; `handle_reader` and `handle_writer` return -1 and `main`
   closes the transfer.

## 6. Not modelled

* The capture stream of the audio HAL returns silence and the remaining calls return
  constants; the private `perform` calls of gralloc copy fields out; memtrack is a stub.
  There is no state to model.
* The lookup client prints what an observer of `QrtrSystem` receives; `addr.c`, `cfg.c`
  and the logging are thin wrappers around system calls.
* The discovery of shared memory (`sharedmem.c`) and of the remoteproc (`rproc_init`)
  through udev and sysfs is I/O.  Init scripts, overlays, policy and the installer are
  configuration.
* Of the QMI codec: arrays of numbers and the tables that no handler uses.
  `rmtfs/qmi_tlv.c` is in no build.
* Of gralloc: the translation of usage flags to GBM flags, and the bytes per pixel.
* The end of the TFTP server on ENETRESET, block numbers that wrap within a file, and the
  timeouts of `qrtr_poll`.
