----------------------------- MODULE QrtrSystem -----------------------------
(***************************************************************************)
(* The name server among its clients: local sockets that publish a service *)
(* or watch for services with the calls of qrtr/lib/qrtr.c, and a remote   *)
(* node with services of its own.                                          *)
(*                                                                         *)
(* The kernel is external.  It queues the control packets of all senders   *)
(* in one order; closing a socket sends a DEL_CLIENT in its name, losing a *)
(* node a BYE, and losing the name server an error to every socket, on     *)
(* which the clients of this repository close the socket.  The remote      *)
(* node's name server announces each service when it starts and all of     *)
(* them on a HELLO, as ctrl_cmd_hello does.                                *)
(***************************************************************************)
EXTENDS QrtrNs, Sequences

LOCAL INSTANCE SequencesExt

CONSTANTS
  Publishers, Observers,  \* the local ports, by what their sockets do
  Offered,                \* [service, instance] of each publisher
  Wanted,                 \* [service, instance] each observer looks up
  RemoteNode,
  RemoteServers,          \* the services the remote node may have, by `reuse'
  ReusePorts,             \* the values `reuse' may have
  MaxQueue,               \* bounds the control packets in the queue
  MaxInbox                \* bounds the datagrams at an observer, by `reuse'

ASSUME ClientsAssumption ==
  Publishers \cup Observers \subseteq Ports /\ Publishers \cap Observers = {}
ASSUME RemoteAssumption ==
  /\ RemoteNode \in Nodes \ {LocalNode}
  /\ \A b \in ReusePorts :
       RemoteServers[b] \subseteq {srv \in Servers : srv.node = RemoteNode}
ASSUME ReuseAssumption == ReusePorts \subseteq BOOLEAN

VARIABLES
  reuse,     \* whether the kernel may give a new socket a port whose last
             \* socket's packets are still queued; never changes
  ctrlq,     \* the control packets on their way to the name server
  sock,      \* each local socket: "closed", "open", "told" or "quit"
  reset,     \* the sockets that have not yet seen the name server's loss
  inbox,     \* the datagrams at each observer's socket
  known,     \* the services each observer believes in
  link,      \* whether the remote node is there
  offers,    \* the services of the remote node
  greeted,   \* the HELLO to the remote node: "none", "sent" or "answered"
  doubled    \* whether a port has been twice in a table

remote  == <<link, offers, reuse>>   \* what only Remote may change
past    == <<greeted, doubled>>
sysvars == <<vars, ctrlq, sock, reset, inbox, known, remote, past>>

Sockets == Publishers \cup Observers

-----------------------------------------------------------------------------
(* Packets.                                                                *)

Packet(from, cmd, what, at) ==
  [from |-> from, cmd |-> cmd, service |-> what.service, instance |-> what.instance,
   node |-> at.node, port |-> at.port]

Own(p) == Addr(LocalNode, p)
Zeros  == Client(0, 0)

\* qrtr_new_server, qrtr_new_lookup: memset leaves node and port zero.
NewServerPkt(p) == Packet(Own(p), "NEW_SERVER", Offered[p], Zeros)
NewLookupPkt(p) == Packet(Own(p), "NEW_LOOKUP", Wanted[p], Zeros)

\* qrtr_remove_server, qrtr_remove_lookup: node and port from getsockname.
DelServerPkt(p) == Packet(Own(p), "DEL_SERVER", Offered[p], Own(p))
DelLookupPkt(p) == Packet(Own(p), "DEL_LOOKUP", Wanted[p], Own(p))

\* The kernel's packets, and the remote name server's.
DelClientPkt(p)     == Packet(Own(p), "DEL_CLIENT", Zeros, Own(p))
RemotePkt(cmd, srv) == Packet(Addr(RemoteNode, Ctrl), cmd, srv, srv)

\* Packets reach the queue of a name server that runs, and are lost otherwise.
Post(q, pkts) ==
  /\ ctrlq' = IF running THEN q \o pkts ELSE q
  /\ Len(ctrlq') <= MaxQueue

Announcements ==
  LET s == SetToSeq(offers) IN [i \in DOMAIN s |-> RemotePkt("NEW_SERVER", s[i])]

\* The name server's datagrams at the observers' sockets.  The empty server
\* comes last; the order of the others within a step says nothing.
Mail(o, msgs) == SetToSeq({m \in msgs : m.to = Own(o) /\ m.srv # NoServer})
                   \o SetToSeq({m \in msgs : m.to = Own(o) /\ m.srv = NoServer})

Deliver(msgs) ==
  /\ inbox' = [o \in Observers |->
                 IF sock[o] = "closed" THEN inbox[o] ELSE inbox[o] \o Mail(o, msgs)]
  /\ \A o \in Observers : Len(inbox'[o]) <= MaxInbox[reuse]

-----------------------------------------------------------------------------
(* The name server.                                                        *)

\* ctrl_cmd_hello's echo is a HELLO to the remote node, when it is sent.
NsHandle ==
  /\ running /\ bye = Null /\ ctrlq # <<>>
  /\ Handle(Head(ctrlq))
  /\ Deliver(tx')
  /\ ctrlq' = Tail(ctrlq)
  /\ greeted' = IF link /\ \E m \in tx' : m.cmd = "HELLO" THEN "sent" ELSE greeted
  /\ doubled' = (doubled \/ ~UniquePorts')
  /\ UNCHANGED <<sock, reset, known, remote>>

NsBye ==
  /\ ByeSlot \/ ByeDone
  /\ Deliver(tx')
  /\ UNCHANGED <<ctrlq, sock, reset, known, remote, past>>

NsExit ==
  /\ Exit
  /\ ctrlq' = <<>>
  /\ reset' = {p \in Sockets : sock[p] # "closed"}
  /\ doubled' = FALSE
  /\ UNCHANGED <<sock, inbox, known, remote, greeted>>

NsStart ==
  /\ Start
  /\ greeted' = IF link THEN "sent" ELSE "none"
  /\ UNCHANGED <<ctrlq, sock, reset, inbox, known, remote, doubled>>

Ns == NsHandle \/ NsBye \/ NsExit \/ NsStart

-----------------------------------------------------------------------------
(* Local clients.                                                          *)

\* qrtr_open.
Open(p) ==
  /\ sock[p] = "closed"
  /\ reuse \/ \A i \in DOMAIN ctrlq : ctrlq[i].from # Own(p)
  /\ sock' = [sock EXCEPT ![p] = "open"]
  /\ UNCHANGED <<vars, ctrlq, reset, inbox, known, remote, past>>

\* The one call a client makes on its new socket, qrtr_publish or
\* qrtr_new_lookup; it fails without a name server.
Tell(p) ==
  /\ sock[p] = "open" /\ running
  /\ Post(ctrlq, <<IF p \in Publishers THEN NewServerPkt(p) ELSE NewLookupPkt(p)>>)
  /\ sock' = [sock EXCEPT ![p] = "told"]
  /\ UNCHANGED <<vars, reset, inbox, known, remote, past>>

\* qrtr_bye or qrtr_remove_lookup, after which the client only closes.
Retract(p) ==
  /\ sock[p] = "told" /\ running
  /\ Post(ctrlq, <<IF p \in Publishers THEN DelServerPkt(p) ELSE DelLookupPkt(p)>>)
  /\ sock' = [sock EXCEPT ![p] = "quit"]
  /\ UNCHANGED <<vars, reset, inbox, known, remote, past>>

\* qrtr_close, at any time, or the death of the process.
Close(p) ==
  /\ sock[p] # "closed"
  /\ Post(ctrlq, <<DelClientPkt(p)>>)
  /\ sock' = [sock EXCEPT ![p] = "closed"]
  /\ reset' = reset \ {p}
  /\ inbox' = [o \in Observers |-> IF o = p THEN <<>> ELSE inbox[o]]
  /\ known' = [o \in Observers |-> IF o = p THEN {} ELSE known[o]]
  /\ UNCHANGED <<vars, remote, past>>

\* What a datagram decoded by qrtr_decode tells an observer.
Learn(S, m) ==
  IF m.cmd = "NEW_SERVER" THEN S \cup ({m.srv} \ {NoServer}) ELSE S \ {m.srv}

\* qrtr_recvfrom on a socket that has seen no error.
Recv(o) ==
  /\ sock[o] # "closed" /\ o \notin reset
  /\ inbox[o] # <<>>
  /\ known' = [known EXCEPT ![o] = Learn(@, Head(inbox[o]))]
  /\ inbox' = [inbox EXCEPT ![o] = Tail(@)]
  /\ UNCHANGED <<vars, ctrlq, sock, reset, remote, past>>

LocalClients == \E p \in Sockets : Open(p) \/ Tell(p) \/ Retract(p) \/ Close(p)

-----------------------------------------------------------------------------
(* The remote node.                                                        *)

RemoteAdd(srv) ==
  /\ srv \notin offers
  /\ offers' = offers \cup {srv}
  /\ Post(ctrlq, IF link THEN <<RemotePkt("NEW_SERVER", srv)>> ELSE <<>>)
  /\ UNCHANGED <<vars, sock, reset, inbox, known, link, reuse, past>>

RemoteDel(srv) ==
  /\ srv \in offers
  /\ offers' = offers \ {srv}
  /\ Post(ctrlq, IF link THEN <<RemotePkt("DEL_SERVER", srv)>> ELSE <<>>)
  /\ UNCHANGED <<vars, sock, reset, inbox, known, link, reuse, past>>

LinkUp ==
  /\ ~link
  /\ link' = TRUE /\ greeted' = "none"
  /\ Post(ctrlq, <<RemotePkt("HELLO", Zeros)>>)
  /\ UNCHANGED <<vars, sock, reset, inbox, known, offers, reuse, doubled>>

LinkDown ==
  /\ link
  /\ link' = FALSE /\ greeted' = "none"
  /\ Post(ctrlq, <<RemotePkt("BYE", Zeros)>>)
  /\ UNCHANGED <<vars, sock, reset, inbox, known, offers, reuse, doubled>>

\* The remote name server answers a HELLO, the broadcast of the name server's
\* start or an echo, with the announcements.
RemoteAnswer ==
  /\ greeted = "sent"
  /\ greeted' = "answered"
  /\ Post(ctrlq, Announcements)
  /\ UNCHANGED <<vars, sock, reset, inbox, known, remote, doubled>>

Remote ==
  \/ LinkUp \/ LinkDown \/ RemoteAnswer
  \/ \E srv \in RemoteServers[reuse] : RemoteAdd(srv) \/ RemoteDel(srv)

-----------------------------------------------------------------------------
SysInit ==
  /\ Init
  /\ reuse \in ReusePorts
  /\ ctrlq = <<>>
  /\ sock = [p \in Sockets |-> "closed"]
  /\ reset = {}
  /\ inbox = [o \in Observers |-> <<>>]
  /\ known = [o \in Observers |-> {}]
  /\ link = FALSE /\ offers = {}
  /\ greeted = "none" /\ doubled = FALSE

SysNext == Ns \/ LocalClients \/ Remote \/ \E o \in Observers : Recv(o)

SysSpec == SysInit /\ [][SysNext]_sysvars

\* The name server's loop and the observers' loops run whenever they can.
FairSys ==
  SysSpec /\ WF_sysvars(NsHandle) /\ WF_sysvars(NsBye)
          /\ \A o \in Observers : WF_sysvars(Recv(o))

-----------------------------------------------------------------------------
Server(p) == [service |-> Offered[p].service, instance |-> Offered[p].instance,
              node |-> LocalNode, port |-> p]

Told == {p \in Sockets : sock[p] = "told"}

\* An observer whose lookup stands believes, once it has read its datagrams,
\* in exactly the servers of the tables that match: the reply to its lookup
\* and the notices after it, in that order, miss nothing and repeat no server
\* that has gone, a BYE between two slots included.  (When a port is reused at
\* once, a notice for the socket before may come in between; and the removal of
\* a port that is twice in its table leaves it in the table.)
ViewAgrees ==
  ~reuse /\ ~doubled =>
    \A o \in Observers :
      sock[o] # "closed" /\ o \notin reset /\ (\E l \in lookups : l.port = o) =>
        FoldLeft(Learn, known[o], inbox[o])
          = {srv \in AllServers : Observes(Wanted[o], srv)}

\* When the name server has handled every packet, its tables hold exactly the
\* services of the sockets that publish and of a remote node that is there,
\* whatever sockets, links and name servers died on the way: for ever, unless an
\* announcement repeated among colliding ports (a remote node repeats its own on
\* a HELLO) has put a port into a table twice.  A socket that has yet to see the
\* name server's loss may be missing, and so may what a remote node had before a
\* HELLO whose echo ctrl_cmd_hello failed to send.
TablesAgree ==
  running /\ bye = Null /\ ctrlq = <<>> /\ ~doubled =>
    LET here  == Told \cap Publishers
        local == ServersIn(services[LocalNode])
        there == ServersIn(services[RemoteNode])
    IN  /\ {Server(p) : p \in here \ reset} \subseteq local
        /\ local \subseteq {Server(p) : p \in here}
        /\ there \subseteq IF link THEN offers ELSE {}
        /\ greeted = "answered" => there = offers

\* And its observers are sockets that asked and have neither taken it back nor
\* closed: no lookup outlives its socket, to have a later socket of the same
\* port receive notices it never asked for.
LookupsAgree ==
  running /\ bye = Null /\ ctrlq = <<>> =>
    LET here  == Told \cap Observers
        ports == {l.port : l \in lookups}
    IN  /\ here \ reset \subseteq ports /\ ports \subseteq here
        /\ \A k, l \in lookups : k.port = l.port => k = l

\* An observer that keeps watching learns of a service that keeps being
\* published, after any number of restarts of either of them or of the name
\* server.
ServiceFound ==
  \A o \in Observers, p \in Publishers :
    Observes(Wanted[o], Server(p)) =>
      (<>[](running /\ {o, p} \subseteq Told \ reset) => <>[](Server(p) \in known[o]))

\* And an observer that keeps watching forgets a service that has gone for good.
ServiceForgotten ==
  \A o \in Observers, p \in Publishers :
    <>[](running /\ o \in Told \ reset /\ sock[p] # "told")
      => <>[](Server(p) \notin known[o])
=============================================================================
