--------------------------- MODULE MCRmtfsStorage ---------------------------
(***************************************************************************)
(* The modem is node 0, as every handle's node is before its first open.   *)
(***************************************************************************)
EXTENDS RmtfsStorage

Iov(sector, phys, num) == [sector |-> sector, phys |-> phys, num |-> num]

\* Within the file, across its end, past a gap, two entries for one sector,
\* an empty request, one outside the shared memory and one whose address wraps.
MCIovecs ==
  {<<Iov(0, 0, 2)>>, <<Iov(0, 1, 1), Iov(0, 0, 1)>>, <<Iov(1, 0, 1), Iov(0, 0, 1)>>,
   <<Iov(2, 1, 1)>>, <<>>, <<Iov(0, 1, 2)>>, <<Iov(4, 1, 1)>>}

View == <<storage_read_only, verbose, disciplined, rmtfds, disk, mem, io, up>>
=============================================================================
