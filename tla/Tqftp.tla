------------------------------- MODULE Tqftp --------------------------------
(***************************************************************************)
(* The TFTP server for the modem, qcom/tqftpserv: main's loop over the     *)
(* listening socket and one socket per transfer, the two request handlers, *)
(* handle_reader and handle_writer, and what translate.c opens.            *)
(*                                                                         *)
(* One thread serves one datagram at a time.  The sockets select reports   *)
(* together are independent of each other, so each handler is an action    *)
(* that may come whenever its socket has a datagram.  A file is a sequence *)
(* of units; a reader's block has Blk of them and a writer's WBlk (512).   *)
(* The modem's side of a transfer is external: it is what the server's     *)
(* handlers answer to.                                                     *)
(***************************************************************************)
EXTENDS Integers, Sequences, FiniteSets

CONSTANTS
  Readers, Writers,   \* the remote sockets that read and write a file each
  Options,            \* the options of each reader's request: wsize, 0 when it is
                      \* not among them, and whether tsize is; Null: no options
  Strangers,          \* other remote sockets
  NodeOf,             \* the node of each remote socket
  LocalNode,
  Socks,              \* the server's transfer sockets; bounds their number
  PathOf,             \* the path each transfer names
  Kind,               \* translate_open's classes: "readonly", "readwrite", "invalid"
  Stored,             \* the files there at start: a sequence, or Null
  Payload,            \* what each writer sends
  Blk, WBlk,          \* units of a reader's block and of a writer's block
  BlockMod,           \* 2^16: block numbers are uint16_t
  MaxTransfers,       \* transfers the remote side begins
  MaxLosses,          \* sends of DATA that fail
  MaxResends,         \* ACKs a reader repeats though nothing is lost
  MaxRepeats,         \* DATA the writers repeat
  MaxStray, MaxByes,  \* datagrams of strangers; BYEs of other nodes
  Faults,             \* whether opens, writes and sends may fail, and writes be short
  Units, Null

Peers == Readers \cup Writers \cup Strangers
Paths == DOMAIN Kind

\* An entry of the lists readers and writers: the remote socket, and the file's
\* position of a writer or the window of a reader.
Conns == [kind : {"reader", "writer"}, sq : Readers \cup Writers, pos : Nat, wsize : Nat]

ASSUME SocketsAssumption ==
  Readers \cap Writers = {} /\ Null \notin Socks \cup Conns
ASSUME OptionsAssumption ==
  \A r \in Readers : Options[r] \in [wsize : Nat, tsize : BOOLEAN] \cup {Null}
ASSUME BlocksAssumption ==
  Blk \in Nat \ {0} /\ WBlk \in Nat \ {0} /\ BlockMod \in Nat \ {0, 1}
\* No file has more blocks than a block number counts.
ASSUME FilesAssumption ==
  /\ Null \notin Seq(Units)
  /\ Stored \in [Paths -> Seq(Units) \cup {Null}]
  /\ \A c \in Readers \cup Writers : PathOf[c] \in Paths
  /\ \A c \in Writers : Payload[c] \in Seq(Units)
  /\ \A r \in Readers : Stored[PathOf[r]] # Null =>
                         Len(Stored[PathOf[r]]) <= Blk * (BlockMod - 1)

VARIABLES
  files,      \* the contents of each path, or Null
  conns,      \* the lists readers and writers: a record for each transfer socket
  leaked,     \* sockets that handle_rrq opened and no list holds
  mainq,      \* datagrams at the listening socket
  inq,        \* datagrams at each transfer socket
  net,        \* datagrams on their way to each remote socket
  peer,       \* the remote sockets' transfers
  spoiled,    \* history: the writers of which a DATA was stored twice or in part
  losses, resends, repeats, strays, byes   \* counters against the bounds

vars == <<files, conns, leaked, mainq, inq, net, peer, spoiled,
          losses, resends, repeats, strays, byes>>

server  == <<files, conns, leaked, spoiled>>
bounds  == <<losses, resends, repeats, strays, byes>>

Min2(a, b) == IF a < b THEN a ELSE b

Pos(n) == IF n > 0 THEN n ELSE 0

\* The units of s from offset o, at most n of them.
Slice(s, o, n) == SubSeq(s, o + 1, Min2(o + n, Len(s)))

Send(q, c, m) == [q EXCEPT ![c] = Append(@, m)]

\* A send whose result nobody looks at.
Sends(c, m) == net' = Send(net, c, m) \/ (Faults /\ net' = net)

Pkt(from, op, block, data) == [from |-> from, op |-> op, block |-> block, data |-> data]

Free == {s \in Socks : conns[s] = Null} \ leaked

\* client_close_and_free.
CloseAndFree(s) == /\ conns' = [conns EXCEPT ![s] = Null]
                   /\ UNCHANGED <<files, leaked, spoiled>>

-----------------------------------------------------------------------------
(* Requests.                                                               *)

AtMain(op) == mainq # <<>> /\ Head(mainq).op = op

\* translate_open: a file under the read-only prefix is opened for reading
\* whatever the flags; one under the other prefix is made when written to.
Opens(path, create) ==
  \/ Kind[path] = "readonly"  /\ files[path] # Null
  \/ Kind[path] = "readwrite" /\ (create \/ files[path] # Null)

\* Fault: block n is read from n blocks into the file.
DataLate(s, file, n) == Pkt(s, "DATA", n % BlockMod, Slice(file, n * Blk, Blk))

\* One DATA of tftp_send_data: the n-th block, if the file reaches it.
Data(s, file, n) == Pkt(s, "DATA", n % BlockMod, Slice(file, (n - 1) * Blk, Blk))

\* handle_rrq: the reader is listed, with a window of 0 unless wsize is among
\* its options.  A request with options is answered with them, and with the
\* file's size if it is asked for and not 0; one without gets the first block.
HandleRrq ==
  /\ AtMain("RRQ")
  /\ \E s \in Free :
       LET c    == Head(mainq).from
           o    == Options[c]
           file == files[PathOf[c]]
       IN  /\ Opens(PathOf[c], FALSE)
           /\ conns' = [conns EXCEPT ![s] =
                          [kind |-> "reader", sq |-> c, pos |-> 0,
                           wsize |-> IF o = Null THEN 0 ELSE o.wsize]]
           /\ IF o # Null
              THEN Sends(c, Pkt(s, "OACK", IF o.tsize /\ file # <<>> THEN Len(file) ELSE -1, <<>>))
              ELSE IF file # <<>> THEN Sends(c, Data(s, file, 1)) ELSE net' = net
  /\ mainq' = Tail(mainq)
  /\ UNCHANGED <<files, leaked, inq, peer, spoiled, bounds>>

\* The socket does not connect, or the file does not open and an ERROR is sent:
\* nobody closes the socket.
RrqNotFound ==
  /\ AtMain("RRQ")
  /\ \E s \in Free :
       LET c == Head(mainq).from
       IN  /\ \/ Faults /\ net' = net
              \/ /\ ~Opens(PathOf[c], FALSE) \/ Faults
                 /\ net' = Send(net, c, Pkt(s, "ERROR", 0, <<>>))
           /\ leaked' = leaked \cup {s}
  /\ mainq' = Tail(mainq)
  /\ UNCHANGED <<files, conns, inq, peer, spoiled, bounds>>

\* Fault: the request is not acknowledged.
HandleWrqSilent ==
  /\ AtMain("WRQ")
  /\ \E s \in Free :
       LET c == Head(mainq).from
           p == PathOf[c]
       IN  /\ Opens(p, TRUE)
           /\ files' = [files EXCEPT ![p] = IF @ = Null THEN <<>> ELSE @]
           /\ conns' = [conns EXCEPT ![s] = [kind |-> "writer", sq |-> c, pos |-> 0,
                                                    wsize |-> 0]]
  /\ mainq' = Tail(mainq)
  /\ UNCHANGED <<leaked, inq, net, peer, spoiled, bounds>>

\* handle_wrq: the writer is listed and its request acknowledged.  The file is
\* opened, and made if need be, but not truncated.
HandleWrq ==
  /\ AtMain("WRQ")
  /\ \E s \in Free :
       LET c == Head(mainq).from
           p == PathOf[c]
       IN  /\ Opens(p, TRUE)
           /\ files' = [files EXCEPT ![p] = IF @ = Null THEN <<>> ELSE @]
           /\ conns' = [conns EXCEPT ![s] = [kind |-> "writer", sq |-> c, pos |-> 0,
                                                    wsize |-> 0]]
           /\ net' = Send(net, c, Pkt(s, "ACK", 0, <<>>))
  /\ mainq' = Tail(mainq)
  /\ UNCHANGED <<leaked, inq, peer, spoiled, bounds>>

\* handle_wrq fails: the file does not open; or it is open, and made if need
\* be, when there is no socket, the socket does not connect and stays open, or
\* the acknowledgement is not sent.
HandleWrqFails ==
  /\ AtMain("WRQ")
  /\ LET p == PathOf[Head(mainq).from]
     IN  \/ /\ Faults \/ ~Opens(p, TRUE)
            /\ UNCHANGED <<files, leaked>>
         \/ /\ Opens(p, TRUE) /\ (Faults \/ Free = {})
            /\ files' = [files EXCEPT ![p] = IF @ = Null THEN <<>> ELSE @]
            /\ leaked' \in {leaked} \cup {leaked \cup {s} : s \in IF Faults THEN Free ELSE {}}
  /\ mainq' = Tail(mainq)
  /\ UNCHANGED <<conns, inq, net, peer, spoiled, bounds>>

\* Datagrams dropped without an answer: a read when no socket is to be had, and
\* what is neither RRQ nor WRQ, or not in octet mode.
DropRequest ==
  /\ mainq # <<>>
  /\ (AtMain("RRQ") /\ Free = {}) \/ Head(mainq).op \notin {"RRQ", "WRQ"}
  /\ mainq' = Tail(mainq)
  /\ UNCHANGED <<server, inq, net, peer, bounds>>

\* A BYE the name server passes on ends the writers of the node it is sent
\* from, which is the name server's; a DEL_CLIENT, compared with its sender's
\* control port, ends none.
HandleBye ==
  /\ byes < MaxByes
  /\ byes' = byes + 1
  /\ conns' = [s \in Socks |-> IF /\ conns[s] # Null
                                  /\ conns[s].kind = "writer"
                                  /\ NodeOf[conns[s].sq] = LocalNode
                               THEN Null ELSE conns[s]]
  /\ inq' = [s \in Socks |-> IF conns'[s] = Null THEN <<>> ELSE inq[s]]
  /\ UNCHANGED <<files, leaked, mainq, net, peer, spoiled, losses, resends, repeats, strays>>

-----------------------------------------------------------------------------
(* Transfers.                                                              *)

\* The next datagram at a socket of the list.
At(s, kind) == conns[s] # Null /\ conns[s].kind = kind /\ inq[s] # <<>>

\* Fault: only full blocks are sent.
WindowFull(s, last) ==
  LET file == files[PathOf[conns[s].sq]]
      left == Pos(Len(file) - last * Blk)
      n    == Min2(conns[s].wsize, left \div Blk)
  IN  [k \in 1 .. n |-> Data(s, file, last + k)]

\* The blocks handle_reader's loop sends for an ACK of `last': at most wsize
\* of them, up to the end of the file.
Window(s, last) ==
  LET file == files[PathOf[conns[s].sq]]
      left == Pos(Len(file) - last * Blk)
      n    == Min2(conns[s].wsize, (left + Blk - 1) \div Blk)
  IN  [k \in 1 .. n |-> Data(s, file, last + k)]

\* An ACK: the window is sent, up to a send that fails.
ReaderAck(s) ==
  /\ At(s, "reader")
  /\ LET m == Head(inq[s])
         c == conns[s].sq
         w == Window(s, m.block)
     IN  /\ m.from = c /\ m.op = "ACK"
         /\ \E n \in 0 .. Len(w) :
              /\ n = Len(w) \/ losses < MaxLosses
              /\ losses' = IF n = Len(w) THEN losses ELSE losses + 1
              /\ net' = [net EXCEPT ![c] = @ \o SubSeq(w, 1, n)]
  /\ inq' = [inq EXCEPT ![s] = Tail(@)]
  /\ UNCHANGED <<server, mainq, peer, resends, repeats, strays, byes>>

\* Fault: an ERROR is passed over.
ReaderEndsNever(s) ==
  /\ At(s, "reader")
  /\ ~(Head(inq[s]).from = conns[s].sq /\ Head(inq[s]).op = "ACK")
  /\ inq' = [inq EXCEPT ![s] = Tail(@)]
  /\ UNCHANGED <<server, mainq, net, peer, bounds>>

\* An ERROR, another opcode or a datagram of another sender ends the reader.
ReaderEnds(s) ==
  /\ At(s, "reader")
  /\ ~(Head(inq[s]).from = conns[s].sq /\ Head(inq[s]).op = "ACK")
  /\ CloseAndFree(s)
  /\ inq' = [inq EXCEPT ![s] = <<>>]
  /\ UNCHANGED <<mainq, net, peer, bounds>>

\* write(2) at offset o.
Overlay(file, o, data) ==
  [k \in 1 .. (IF o + Len(data) > Len(file) THEN o + Len(data) ELSE Len(file)) |->
     IF k > o /\ k <= o + Len(data) THEN data[k - o] ELSE file[k]]

Writable(s) == Kind[PathOf[conns[s].sq]] = "readwrite"

\* How much of the data write(2) takes, at least a unit if there is one: a
\* short write is not looked at.
Accepted(data) == IF Faults THEN Min2(1, Len(data)) .. Len(data) ELSE {Len(data)}

\* The DATA that comes after what is stored.
Follows(s, m) == m.block = (conns[s].pos \div WBlk + 1) % BlockMod

\* Fault: every payload is written at the start of the file.
WriterDataAtStart(s) ==
  /\ At(s, "writer")
  /\ LET m == Head(inq[s])
         c == conns[s].sq
         more == Len(m.data) = WBlk
     IN  /\ m.from = c /\ m.op = "DATA" /\ Writable(s)
         /\ \E n \in Accepted(m.data) :
              /\ files' = [files EXCEPT ![PathOf[c]] = Overlay(@, 0, SubSeq(m.data, 1, n))]
              /\ conns' = [conns EXCEPT ![s] =
                             IF more THEN [conns[s] EXCEPT !.pos = @ + n] ELSE Null]
              /\ spoiled' = IF n = Len(m.data) /\ Follows(s, m) THEN spoiled
                            ELSE spoiled \cup {c}
         /\ Sends(c, Pkt(s, "ACK", m.block, <<>>))
         /\ inq' = [inq EXCEPT ![s] = IF more THEN Tail(@) ELSE <<>>]
  /\ UNCHANGED <<leaked, mainq, peer, bounds>>

\* A DATA, whatever its number: append what write(2) takes of the payload at
\* the file's position, acknowledge the number, and end the transfer if the
\* payload is short.
WriterData(s) ==
  /\ At(s, "writer")
  /\ LET m == Head(inq[s])
         c == conns[s].sq
         more == Len(m.data) = WBlk
     IN  /\ m.from = c /\ m.op = "DATA" /\ Writable(s)
         /\ \E n \in Accepted(m.data) :
              /\ files' = [files EXCEPT ![PathOf[c]] =
                             Overlay(@, conns[s].pos, SubSeq(m.data, 1, n))]
              /\ conns' = [conns EXCEPT ![s] =
                             IF more THEN [conns[s] EXCEPT !.pos = @ + n] ELSE Null]
              /\ spoiled' = IF n = Len(m.data) /\ Follows(s, m) THEN spoiled
                            ELSE spoiled \cup {c}
         /\ Sends(c, Pkt(s, "ACK", m.block, <<>>))
         /\ inq' = [inq EXCEPT ![s] = IF more THEN Tail(@) ELSE <<>>]
  /\ UNCHANGED <<leaked, mainq, peer, bounds>>

\* A write that fails, another opcode (answered with an ERROR) or a datagram
\* of another sender ends the writer.
WriterEnds(s) ==
  /\ At(s, "writer")
  /\ LET m == Head(inq[s])
         c == conns[s].sq
     IN  /\ m.from # c \/ m.op # "DATA" \/ Faults \/ ~Writable(s)
         /\ IF m.from = c /\ m.op # "DATA"
            THEN Sends(c, Pkt(s, "ERROR", 4, <<>>)) ELSE net' = net
  /\ CloseAndFree(s)
  /\ inq' = [inq EXCEPT ![s] = <<>>]
  /\ UNCHANGED <<mainq, peer, bounds>>

-----------------------------------------------------------------------------
(* The remote side.                                                        *)

\* A datagram to a socket that is closed is lost.
ToSock(s, m) == inq' = IF conns[s] = Null THEN inq ELSE Send(inq, s, m)

Request(c, op) ==
  /\ peer[c].st = "idle"
  /\ Cardinality({d \in Peers : peer[d].st # "idle"}) < MaxTransfers
  /\ peer' = [peer EXCEPT ![c].st = "asked"]
  /\ mainq' = Append(mainq, Pkt(c, op, 0, <<>>))
  /\ UNCHANGED <<server, inq, net, bounds>>

Arrives(c, op) == net[c] # <<>> /\ Head(net[c]).op = op

\* OACK: remember the file's size, if it says it, and ask for the first window.
PeerOack(c) ==
  /\ Arrives(c, "OACK") /\ peer[c].st = "asked"
  /\ LET m == Head(net[c])
     IN  /\ peer' = [peer EXCEPT ![c].st = "busy", ![c].sock = m.from, ![c].size = m.block]
         /\ ToSock(m.from, Pkt(c, "ACK", 0, <<>>))
  /\ net' = [net EXCEPT ![c] = Tail(@)]
  /\ UNCHANGED <<server, mainq, bounds>>

Blocks(c) == (Len(peer[c].got) + Blk - 1) \div Blk

\* The next block in order is kept, any other discarded.  The end of a window
\* is acknowledged; the end of the file, known by its size or, without it, by a
\* short block, is told with an ERROR.
PeerData(c) ==
  /\ Arrives(c, "DATA")
  /\ peer[c].st = "busy" \/ (peer[c].st = "asked" /\ Options[c] = Null)
  /\ LET m   == Head(net[c])
         new == m.block = (Blocks(c) + 1) % BlockMod
         got == IF new THEN peer[c].got \o m.data ELSE peer[c].got
         end == IF peer[c].size = -1 THEN new /\ Len(m.data) < Blk
                ELSE Len(got) >= peer[c].size
         nth == Blocks(c) + 1
         win == IF Options[c] = Null THEN 1 ELSE Options[c].wsize
     IN  /\ peer' = [peer EXCEPT ![c].got = got, ![c].sock = m.from,
                                 ![c].st = IF end THEN "done" ELSE "busy",
                                 ![c].acked = IF new /\ nth = @ + win THEN nth ELSE @]
         /\ IF end THEN ToSock(m.from, Pkt(c, "ERROR", 0, <<>>))
            ELSE IF peer'[c].acked # peer[c].acked
                 THEN ToSock(m.from, Pkt(c, "ACK", nth % BlockMod, <<>>))
                 ELSE inq' = inq
  /\ net' = [net EXCEPT ![c] = Tail(@)]
  /\ UNCHANGED <<server, mainq, bounds>>

Quiet(c) == peer[c].st = "busy" /\ net[c] = <<>> /\ inq[peer[c].sock] = <<>>

\* The reader's timeout: acknowledge again what has come.  It may fire early.
PeerTimeout(c) ==
  /\ c \in Readers /\ peer[c].st = "busy"
  /\ IF Quiet(c) THEN resends' = resends
     ELSE resends < MaxResends /\ resends' = resends + 1
  /\ ToSock(peer[c].sock, Pkt(c, "ACK", Blocks(c) % BlockMod, <<>>))
  /\ peer' = [peer EXCEPT ![c].acked = Blocks(c)]
  /\ UNCHANGED <<server, mainq, net, losses, repeats, strays, byes>>

\* The writer sends block after block, each once its predecessor is
\* acknowledged; a short one, perhaps empty, is the last.  It discards an ACK
\* of another block than its last.
PeerAck(c) ==
  /\ Arrives(c, "ACK") /\ peer[c].st \in {"asked", "busy", "last"}
  /\ LET m == Head(net[c])
         n == peer[c].acked
         d == Slice(Payload[c], n * WBlk, WBlk)
     IN  IF m.block # n % BlockMod
         THEN UNCHANGED <<peer, inq>>
         ELSE IF peer[c].st = "last"
         THEN /\ peer' = [peer EXCEPT ![c].st = "done"]
              /\ inq' = inq
         ELSE /\ peer' = [peer EXCEPT ![c].sock = m.from, ![c].acked = n + 1,
                            ![c].st = IF Len(d) < WBlk THEN "last" ELSE "busy"]
              /\ ToSock(m.from, Pkt(c, "DATA", (n + 1) % BlockMod, d))
  /\ net' = [net EXCEPT ![c] = Tail(@)]
  /\ UNCHANGED <<server, mainq, bounds>>

\* The writer's timeout, early or not: send the last block again.
PeerRepeat(c) ==
  /\ c \in Writers /\ peer[c].st \in {"busy", "last"}
  /\ repeats < MaxRepeats
  /\ repeats' = repeats + 1
  /\ LET n == peer[c].acked
     IN  ToSock(peer[c].sock,
                Pkt(c, "DATA", n % BlockMod, Slice(Payload[c], (n - 1) * WBlk, WBlk)))
  /\ UNCHANGED <<server, mainq, net, peer, losses, resends, strays, byes>>

\* An ERROR ends the transfer; a datagram that comes too late is ignored.
PeerOther(c) ==
  /\ net[c] # <<>>
  /\ peer[c].st \in {"done", "failed"} \/ Arrives(c, "ERROR")
  /\ peer' = [peer EXCEPT ![c].st = IF @ = "done" THEN @ ELSE "failed"]
  /\ net' = [net EXCEPT ![c] = Tail(@)]
  /\ UNCHANGED <<server, mainq, inq, bounds>>

\* The remote side gives up.
PeerAbort(c) ==
  /\ Faults /\ peer[c].st = "busy"
  /\ peer' = [peer EXCEPT ![c].st = "failed"]
  /\ ToSock(peer[c].sock, Pkt(c, "ERROR", 0, <<>>))
  /\ UNCHANGED <<server, mainq, net, bounds>>

\* Another socket sends something to a transfer socket, or to the listening one.
Stray(c, s) ==
  /\ strays < MaxStray
  /\ strays' = strays + 1
  /\ \/ conns[s] # Null /\ ToSock(s, Pkt(c, "ACK", 0, <<>>)) /\ mainq' = mainq
     \/ mainq' = Append(mainq, Pkt(c, "PING", 0, <<>>)) /\ inq' = inq
  /\ UNCHANGED <<server, net, peer, losses, resends, repeats, byes>>

-----------------------------------------------------------------------------
Init ==
  /\ files = Stored
  /\ conns = [s \in Socks |-> Null]
  /\ leaked = {}
  /\ mainq = <<>>
  /\ inq = [s \in Socks |-> <<>>]
  /\ net = [c \in Peers |-> <<>>]
  /\ peer = [c \in Peers |-> [st |-> "idle", sock |-> Null, size |-> -1,
                              got |-> <<>>, acked |-> 0]]
  /\ spoiled = {}
  /\ losses = 0 /\ resends = 0 /\ repeats = 0 /\ strays = 0 /\ byes = 0

Transfer(s) == ReaderAck(s) \/ ReaderEnds(s) \/ WriterData(s) \/ WriterEnds(s)

Serve ==
  \/ HandleRrq \/ RrqNotFound \/ HandleWrq \/ HandleWrqFails \/ DropRequest
  \/ \E s \in Socks : Transfer(s)

Peer(c) == PeerOack(c) \/ PeerData(c) \/ PeerAck(c) \/ PeerOther(c)

Next ==
  \/ Serve
  \/ HandleBye
  \/ \E c \in Readers : Request(c, "RRQ")
  \/ \E c \in Writers : Request(c, "WRQ")
  \/ \E c \in Peers : Peer(c) \/ PeerTimeout(c) \/ PeerRepeat(c) \/ PeerAbort(c)
  \/ \E c \in Strangers, s \in Socks : Stray(c, s)

Spec == Init /\ [][Next]_vars

\* The server's loop runs while there are datagrams; the remote sockets go on
\* with what they began, and a reader's timer fires when all is quiet.
Fairness ==
  /\ WF_vars(HandleRrq \/ RrqNotFound \/ HandleWrq \/ HandleWrqFails \/ DropRequest)
  /\ \A s \in Socks : WF_vars(Transfer(s))
  /\ \A c \in Peers : WF_vars(Peer(c))
  /\ \A c \in Readers : WF_vars(Quiet(c) /\ PeerTimeout(c))

FairSpec == Spec /\ Fairness

-----------------------------------------------------------------------------
\* What a reader has got is a part of the file from its start, and all of it
\* when it is done: whatever is lost, sent again or sent by others, and though
\* handle_reader keeps no position of its own.
ReadIntact ==
  \A c \in Readers :
    LET file == files[PathOf[c]]
        got  == peer[c].got
    IN  /\ got # <<>> => got = SubSeq(file, 1, Len(got))
        /\ peer[c].st = "done" => got = file

\* When a writer has its last ACK, the file is what it sent over what the file
\* held before, which keeps its tail if it was longer: unless handle_writer,
\* which stores whatever block comes and looks only for an error of write(2),
\* has stored a repeated DATA twice or a DATA in part.  ACKs that are lost and
\* DATA that are repeated once the transfer has ended do no harm.
WriteExact ==
  \A c \in Writers :
    peer[c].st = "done" /\ c \notin spoiled =>
      LET old == Stored[PathOf[c]]
      IN  files[PathOf[c]] = Overlay(IF old = Null THEN <<>> ELSE old, 0, Payload[c])

\* The readers whose request and file let them get all of it: handle_reader
\* sends nothing without a window, so that a request without wsize gets the
\* first block, if it has no options, or none; and no empty DATA ends a file of
\* whole blocks, so that its size must be asked for, and not be 0.
Served(c) ==
  LET f == Stored[PathOf[c]]
      o == Options[c]
  IN  /\ f \notin {Null, <<>>}
      /\ IF o = Null THEN Len(f) < Blk ELSE o.wsize > 0 /\ (o.tsize \/ Len(f) % Blk # 0)

\* Exactly the readers that can be served get all of their file, and a reader
\* that asks for a file that is not there is told so.
ReadCompletes ==
  \A c \in Readers :
    /\ Stored[PathOf[c]] = Null => (peer[c].st = "asked" ~> peer[c].st = "failed")
    /\ Served(c) => (peer[c].st = "asked" ~> peer[c].st = "done")
    /\ ~Served(c) => [](peer[c].st # "done")

\* A writer's transfer completes, as long as no ACK of it is lost: once the
\* last DATA is stored its socket is closed, and its ACK is never sent again.
WriteCompletes ==
  \A c \in Writers : peer[c].st = "asked" ~> peer[c].st = "done"

\* The server lets go of a transfer's socket once the remote side is done.
TransferReleased ==
  \A c \in Readers \cup Writers :
    peer[c].st = "done" ~> \A s \in Socks : conns[s] # Null => conns[s].sq # c

\* "Drop unsolicited messages": a datagram of another sender leaves the
\* transfer as it was.
StrayDropped ==
  [][\A s \in Socks :
       (/\ conns[s] # Null /\ inq[s] # <<>> /\ inq'[s] # inq[s]
        /\ Head(inq[s]).from # conns[s].sq
        /\ inq'[s] = <<>> \/ inq'[s] = Tail(inq[s])) => conns'[s] = conns[s]]_vars
=============================================================================
