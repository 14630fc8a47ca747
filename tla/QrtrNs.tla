------------------------------- MODULE QrtrNs -------------------------------
(***************************************************************************)
(* The QRTR name server, qrtr/src/ns.c: it keeps the services that sockets *)
(* of this node and the name servers of other nodes have announced, and    *)
(* tells local observers (lookups) of services that appear and go.         *)
(*                                                                         *)
(* The server is one thread that handles one control packet at a time.     *)
(* Each handler is one action, except ctrl_cmd_bye, whose loop over the    *)
(* node's table is one action per slot: server_del removes by port while   *)
(* the loop visits by slot.                                                *)
(*                                                                         *)
(* node_get creates a node's table on first use and never removes it, so   *)
(* `services' has a table, perhaps empty, for every node.  A table has     *)
(* TableSize slots (256 in the code); growing it is QrtrMap's subject, and *)
(* the bound here is that one node never fills its table.                  *)
(***************************************************************************)
EXTENDS HashTable, FiniteSets

CONSTANTS
  Nodes, LocalNode,   \* node ids, and this node's
  Bcast,              \* QRTR_NODE_BCAST
  Ports, Ctrl,        \* socket ports, and QRTR_PORT_CTRL
  Services,           \* service ids; 0 is the wildcard of a lookup
  Instances,          \* instance numbers; 0 is the wildcard of a lookup
  TableSize,          \* slots of a node's table
  Home,               \* Home[p] = hash_u32(p) % TableSize
  LookupIds,          \* addresses of struct lookup; bounds their number
  Packets,            \* the control packets that may arrive
  Reannounce          \* what NEW_SERVER may carry for a port already in use:
                      \* "never" sent, the "same" server, or "any" server

Servers == [service : Services, instance : Instances, node : Nodes, port : Ports]

NoServer == [service |-> 0, instance |-> 0, node |-> 0, port |-> 0]

Cmds == {"HELLO", "BYE", "NEW_SERVER", "DEL_SERVER", "DEL_CLIENT",
         "NEW_LOOKUP", "DEL_LOOKUP", "PING"}

\* A received packet: its sender, its command and the fields of struct
\* qrtr_ctrl_pkt (a packet uses server.{service,instance,node,port} or
\* client.{node,port}).
PacketType ==
  [from : [node : Nodes, port : Ports \cup {Ctrl}], cmd : Cmds,
   service : Services \cup {0}, instance : Instances \cup {0},
   node : Nodes \cup {0}, port : Ports \cup {0}]

ASSUME NodesAssumption == LocalNode \in Nodes /\ Bcast \notin Nodes
ASSUME PortsAssumption == Ctrl \notin Ports /\ 0 \notin Ports
ASSUME ServicesAssumption == 0 \notin Services
ASSUME TableAssumption == TableSize \in Nat /\ Home \in [Ports -> 0 .. TableSize-1]
ASSUME PacketsAssumption == Packets \subseteq PacketType
ASSUME ReannounceAssumption == Reannounce \in {"never", "same", "any"}
ASSUME MarkersAssumption ==
  /\ Null # Deleted
  /\ {Null, Deleted} \cap [key : Ports, item : Servers] = {}
  /\ Null \notin [node : Nodes, slot : 0 .. TableSize]

VARIABLES
  services,   \* the table of each node
  lookups,    \* ctx.lookups: the observers, as a set of allocated structs
  bye,        \* the loop of ctrl_cmd_bye: its node and slot, or Null
  running,    \* whether the control socket is open
  rx,         \* the packet handled by the last step
  tx          \* the datagrams sent by the last step

vars == <<services, lookups, bye, running, rx, tx>>

Entries == [key : Ports, item : Servers]
Slots   == Entries \cup {Null, Deleted}
Table   == [0 .. TableSize-1 -> Slots]

EmptyTable == [s \in 0 .. TableSize-1 |-> Null]

Lookups ==
  [id : LookupIds, service : Services \cup {0}, instance : Instances \cup {0},
   port : Ports \cup {Ctrl}]

-----------------------------------------------------------------------------
(* Datagrams sent.                                                         *)

Msg(to, cmd, srv) == [to |-> to, cmd |-> cmd, srv |-> srv]

Addr(n, p) == [node |-> n, port |-> p]

BcastAddr == Addr(Bcast, Ctrl)

Client(n, p) == [service |-> 0, instance |-> 0, node |-> n, port |-> p]

Local(n) == n = LocalNode

-----------------------------------------------------------------------------
(* Tables.                                                                 *)

\* Port 0 is in no table: server_add refuses it.
Has(t, p) == p \in Ports /\ Found(t, TableSize, Home[p], p)

ServerAt(t, p) == t[FindSlot(t, TableSize, Home[p], p)].item

ServersIn(t) == {t[s].item : s \in Live(t)}

AllServers == UNION {ServersIn(services[n]) : n \in Nodes}

\* map_reput and map_remove on a table that is not full.
PutServer(t, p, srv) ==
  [t EXCEPT ![HashSlot(t, TableSize, Home[p], p)] = [key |-> p, item |-> srv]]

RemovePort(t, p) == [t EXCEPT ![FindSlot(t, TableSize, Home[p], p)] = Deleted]

\* map_reput's table has room: it would rehash otherwise.
HasRoom(t) == Cardinality(Live(t)) < TableSize

-----------------------------------------------------------------------------
(* Matching.                                                               *)

\* The two tests of the lookup loops in server_del and ctrl_cmd_new_server.
Observes(l, srv) ==
  /\ l.service = 0 \/ l.service = srv.service
  /\ l.instance = 0 \/ l.instance = srv.instance

\* server_match with ifilter = 0, the way ctrl_cmd_new_lookup fills the
\* filter: an instance of 0 masks every bit, another one none.
Masked(instance, mask) == IF mask = 0 THEN 0 ELSE instance

\* Fault: the filter of the reply masks every instance.
ServerMatchUnmasked(srv, service, instance) ==
  /\ service # 0 => srv.service = service
  /\ Masked(srv.instance, 0) = instance

ServerMatch(srv, service, instance) ==
  LET ifilter == IF instance # 0 THEN -1 ELSE 0
  IN  /\ service # 0 => srv.service = service
      /\ Masked(srv.instance, ifilter) = instance

Notices(cmd, srv, ls) ==
  {Msg(Addr(LocalNode, l.port), cmd, srv) : l \in {m \in ls : Observes(m, srv)}}

\* Fault: observers hear of local services only; or of none.
RemovalsLocal(srv, ls) ==
  IF Local(srv.node)
  THEN {Msg(BcastAddr, "DEL_SERVER", srv)} \cup Notices("DEL_SERVER", srv, ls)
  ELSE {}

RemovalsUnnoticed(srv, ls) ==
  IF Local(srv.node) THEN {Msg(BcastAddr, "DEL_SERVER", srv)} ELSE {}

\* What server_del sends for a server it removed: the broadcast of a local
\* service's removal, and the notices to the observers ls.
Removals(srv, ls) ==
  (IF Local(srv.node) THEN {Msg(BcastAddr, "DEL_SERVER", srv)} ELSE {})
    \cup Notices("DEL_SERVER", srv, ls)

\* Fault: server_del tells of the removal and does not remove.
ServerDelTableKept(t, p) == t

\* server_del: the node's table after it and what it sends (nothing when the
\* port is not in the table).
ServerDelTable(t, p) == IF Has(t, p) THEN RemovePort(t, p) ELSE t

ServerDelSends(t, p, ls) ==
  IF Has(t, p) THEN Removals(ServerAt(t, p), ls) ELSE {}

\* The propagation of a BYE or DEL_CLIENT to every local service.
ToLocalServices(t, cmd, client) ==
  {Msg(Addr(srv.node, srv.port), cmd, client) : srv \in ServersIn(t)}

-----------------------------------------------------------------------------
(* The handlers.  Each is called by ctrl_port_fn with the received packet. *)

Handles(p, cmd) == p.cmd = cmd /\ rx' = p

\* ctrl_cmd_hello: echo the packet, then announce the local servers in the
\* order of their slots, up to the first sendto that fails.
Hello(p) ==
  /\ Handles(p, "HELLO")
  /\ \/ tx' = {}
     \/ \E n \in 0 .. TableSize :
          tx' = {Msg(p.from, "HELLO", NoServer)} \cup
                {Msg(p.from, "NEW_SERVER", services[LocalNode][s].item) :
                   s \in {r \in Live(services[LocalNode]) : r < n}}
  /\ UNCHANGED <<services, lookups, bye, running>>

\* Fault: the loop starts at the second slot.
ByeStartLate(p) ==
  /\ Handles(p, "BYE")
  /\ bye' = [node |-> p.from.node, slot |-> 1]
  /\ tx' = {}
  /\ UNCHANGED <<services, lookups, running>>

\* ctrl_cmd_bye starts its loop over the sender's table.
ByeStart(p) ==
  /\ Handles(p, "BYE")
  /\ bye' = [node |-> p.from.node, slot |-> 0]
  /\ tx' = {}
  /\ UNCHANGED <<services, lookups, running>>

\* One iteration: server_del of the port of the server in the slot.
ByeSlot ==
  /\ bye # Null
  /\ bye.slot < TableSize
  /\ LET t == services[bye.node]
         e == t[bye.slot]
     IN  IF IsLive(e)
         THEN /\ services' = [services EXCEPT ![bye.node] = ServerDelTable(t, e.item.port)]
              /\ tx' = ServerDelSends(t, e.item.port, lookups)
         ELSE services' = services /\ tx' = {}
  /\ bye' = [bye EXCEPT !.slot = @ + 1]
  /\ UNCHANGED <<lookups, running, rx>>

\* After the loop, every local service hears of the node's BYE.
ByeDone ==
  /\ bye # Null
  /\ bye.slot = TableSize
  /\ tx' = ToLocalServices(services[LocalNode], "BYE", Client(bye.node, 0))
  /\ bye' = Null
  /\ UNCHANGED <<services, lookups, running, rx>>

\* Fault: only the lookups of the client go; or only its server.
DelClientKeepsServer(p) ==
  /\ Handles(p, "DEL_CLIENT")
  /\ p.from.node = p.node
  /\ Local(p.from.node) => p.from.port = p.port
  /\ lookups' = {l \in lookups : ~(Local(p.node) /\ l.port = p.port)}
  /\ tx' = ToLocalServices(services[LocalNode], "DEL_CLIENT", Client(p.node, p.port))
  /\ UNCHANGED <<services, bye, running>>

DelClientKeepsLookups(p) ==
  /\ Handles(p, "DEL_CLIENT")
  /\ p.from.node = p.node
  /\ Local(p.from.node) => p.from.port = p.port
  /\ services' = [services EXCEPT ![p.node] = ServerDelTable(@, p.port)]
  /\ tx' = ServerDelSends(services[p.node], p.port, lookups)
  /\ UNCHANGED <<lookups, bye, running>>

\* ctrl_cmd_del_client.
DelClient(p) ==
  /\ Handles(p, "DEL_CLIENT")
  /\ p.from.node = p.node
  /\ Local(p.from.node) => p.from.port = p.port
  /\ LET kept == {l \in lookups : ~(Local(p.node) /\ l.port = p.port)}
         t    == services[p.node]
         after == [services EXCEPT ![p.node] = ServerDelTable(t, p.port)]
     IN  /\ lookups' = kept
         /\ services' = after
         /\ tx' = ServerDelSends(t, p.port, kept)
                    \cup ToLocalServices(after[LocalNode], "DEL_CLIENT",
                                         Client(p.node, p.port))
  /\ UNCHANGED <<bye, running>>

\* The node and port a NEW_SERVER or DEL_SERVER is about: those of its sender
\* when that is a socket of this node.
Subject(p) ==
  IF Local(p.from.node) THEN p.from ELSE Addr(p.node, p.port)

\* The servers a packet may announce, by the senders' discipline.
MayAnnounce(srv) ==
  \A old \in {x \in AllServers : x.node = srv.node /\ x.port = srv.port} :
    Reannounce = "any" \/ (Reannounce = "same" /\ old = srv)

\* Fault: observers are not told of the new server.
NewServerUnnoticed(p) ==
  LET at  == Subject(p)
      srv == [service |-> p.service, instance |-> p.instance,
              node |-> at.node, port |-> at.port]
  IN  /\ Handles(p, "NEW_SERVER")
      /\ p.from.node = at.node
      /\ srv \in Servers
      /\ MayAnnounce(srv)
      /\ HasRoom(services[at.node])
      /\ services' = [services EXCEPT ![at.node] = PutServer(@, at.port, srv)]
      /\ tx' = {}
      /\ UNCHANGED <<lookups, bye, running>>

\* ctrl_cmd_new_server and server_add.
NewServer(p) ==
  LET at  == Subject(p)
      srv == [service |-> p.service, instance |-> p.instance,
              node |-> at.node, port |-> at.port]
  IN  /\ Handles(p, "NEW_SERVER")
      /\ p.from.node = at.node
      /\ srv \in Servers
      /\ MayAnnounce(srv)
      /\ HasRoom(services[at.node])
      /\ services' = [services EXCEPT ![at.node] = PutServer(@, at.port, srv)]
      /\ tx' = (IF Local(at.node) THEN {Msg(BcastAddr, "NEW_SERVER", srv)} ELSE {})
                 \cup Notices("NEW_SERVER", srv, lookups)
      /\ UNCHANGED <<lookups, bye, running>>

\* ctrl_cmd_del_server.
DelServer(p) ==
  LET at == Subject(p)
      t  == services[at.node]
  IN  /\ Handles(p, "DEL_SERVER")
      /\ p.from.node = at.node
      /\ services' = [services EXCEPT ![at.node] = ServerDelTable(t, at.port)]
      /\ tx' = ServerDelSends(t, at.port, lookups)
      /\ UNCHANGED <<lookups, bye, running>>

\* ctrl_cmd_new_lookup: record the observer, send it every server that
\* matches, then the empty server that ends the list.
NewLookup(p) ==
  /\ Handles(p, "NEW_LOOKUP")
  /\ Local(p.from.node)
  /\ \E id \in LookupIds \ {l.id : l \in lookups} :
       lookups' = lookups \cup {[id |-> id, service |-> p.service,
                                 instance |-> p.instance, port |-> p.from.port]}
  /\ tx' = {Msg(p.from, "NEW_SERVER", srv) :
              srv \in {x \in AllServers : ServerMatch(x, p.service, p.instance)}
                        \cup {NoServer}}
  /\ UNCHANGED <<services, bye, running>>

\* ctrl_cmd_del_lookup: a lookup for every instance goes whatever instance the
\* packet names.
DelLookup(p) ==
  /\ Handles(p, "DEL_LOOKUP")
  /\ lookups' = {l \in lookups :
                   ~(/\ Local(p.from.node)
                     /\ l.port = p.from.port
                     /\ l.service = p.service
                     /\ l.instance # 0 => l.instance = p.instance)}
  /\ tx' = {}
  /\ UNCHANGED <<services, bye, running>>

\* Commands ctrl_port_fn ignores, and the packets a handler refuses: spoofed
\* ones, servers without service or port, observers on other nodes.
Refused(p) ==
  \/ p.cmd = "PING"
  \/ p.cmd = "DEL_CLIENT" /\ p.from.node # p.node
  \/ p.cmd = "DEL_CLIENT" /\ Local(p.from.node) /\ p.from.port # p.port
  \/ p.cmd \in {"NEW_SERVER", "DEL_SERVER"} /\ p.from.node # Subject(p).node
  \/ p.cmd = "NEW_SERVER" /\ (p.service = 0 \/ Subject(p).port = 0)
  \/ p.cmd = "NEW_LOOKUP" /\ ~Local(p.from.node)

Drop(p) ==
  /\ rx' = p
  /\ tx' = {}
  /\ UNCHANGED <<services, lookups, bye, running>>

Ignore(p) == Refused(p) /\ Drop(p)

\* The calloc of server_add or ctrl_cmd_new_lookup fails.
NoMemory(p) == p.cmd \in {"NEW_SERVER", "NEW_LOOKUP"} /\ Drop(p)

Handle(p) ==
  \/ Hello(p)
  \/ ByeStart(p)
  \/ DelClient(p)
  \/ NewServer(p)
  \/ DelServer(p)
  \/ NewLookup(p)
  \/ DelLookup(p)
  \/ Ignore(p)

\* recvfrom failed: the loop of main ends and every table is freed.
Exit ==
  /\ running /\ bye = Null
  /\ running' = FALSE
  /\ services' = [n \in Nodes |-> EmptyTable]
  /\ lookups' = {}
  /\ tx' = {}
  /\ UNCHANGED <<bye, rx>>

\* The service manager starts the server again: empty tables and a HELLO.
Start ==
  /\ ~running
  /\ running' = TRUE
  /\ tx' = {Msg(BcastAddr, "HELLO", NoServer)}
  /\ UNCHANGED <<services, lookups, bye, rx>>

Init ==
  /\ services = [n \in Nodes |-> EmptyTable]
  /\ lookups = {}
  /\ bye = Null
  /\ running = TRUE
  /\ rx = Null
  /\ tx = {Msg(BcastAddr, "HELLO", NoServer)}

\* ctrl_port_fn: one packet, when no handler is at work.
Receive ==
  /\ running /\ bye = Null
  /\ \E p \in Packets : Handle(p) \/ NoMemory(p)

Next == Receive \/ ByeSlot \/ ByeDone \/ Exit \/ Start

Spec == Init /\ [][Next]_vars

-----------------------------------------------------------------------------
TypeOK ==
  /\ services \in [Nodes -> Table]
  /\ lookups \subseteq Lookups
  /\ bye \in {Null} \cup [node : Nodes, slot : 0 .. TableSize]
  /\ running \in BOOLEAN

\* A registered server never gets out of map_get's reach, however puts,
\* removals and tombstones of colliding ports interleave (server_del and
\* server_add look it up by port).
RegisteredIsFound ==
  \A n \in Nodes : \A s \in Live(services[n]) : Has(services[n], services[n][s].key)

\* A server sits in the table of its own node, under its own port: what
\* server_del's `srv->node == ctx->local_node' and ctrl_cmd_bye's
\* server_del(srv->port) rely on.
EntryBelongs ==
  \A n \in Nodes : \A s \in Live(services[n]) :
    LET e == services[n][s] IN e.item.node = n /\ e.item.port = e.key

\* A port is in its node's table at most once.
UniquePorts ==
  \A n \in Nodes : \A s, r \in Live(services[n]) :
    services[n][s].key = services[n][r].key => s = r

\* A packet changes only the table of the node it comes from; a socket of this
\* node changes only the entry of its own port ("Don't accept spoofed
\* messages", "Local servers may only unregister themselves").  A BYE takes
\* the whole node, and the server's exit everything.
OnlyOwnerChanges ==
  [][running' =>
       \A n \in Nodes : services'[n] # services[n] =>
         /\ rx'.from.node = n
         /\ rx'.cmd # "BYE" /\ Local(n) =>
              \A s \in 0 .. TableSize-1 : services'[n][s] # services[n][s] =>
                 \A e \in {services[n][s], services'[n][s]} :
                    IsLive(e) => e.key = rx'.from.port]_vars

\* An observer is told of every server that goes and of every one that
\* appears while its lookup stands (server_del, ctrl_cmd_new_server).
ObserversInformed ==
  [][running' =>
       \A l \in lookups \cap lookups' :
         LET told(cmd, srv) == Msg(Addr(LocalNode, l.port), cmd, srv) \in tx'
         IN  /\ \A srv \in AllServers \ AllServers' :
                  Observes(l, srv) => told("DEL_SERVER", srv)
             /\ \A srv \in AllServers' \ AllServers :
                  Observes(l, srv) => told("NEW_SERVER", srv)]_vars

\* What the server tells observers and peers is true when it is sent: a server
\* it calls new is registered, one it calls removed is not.
NoticesTrue ==
  [][\A m \in tx' :
       /\ m.cmd = "NEW_SERVER" => m.srv \in AllServers' \cup {NoServer}
       /\ m.cmd = "DEL_SERVER" => m.srv \notin AllServers']_vars

\* The reply to a NEW_LOOKUP lists exactly the servers whose coming and going
\* the new lookup will be told of: server_match and the tests of the notice
\* loops agree.
ReplyAgreesWithNotices ==
  [][\A l \in lookups' \ lookups :
       {m.srv : m \in tx'} = {srv \in AllServers : Observes(l, srv)} \cup {NoServer}]_vars

\* When ctrl_cmd_bye's loop is over, no server of the node is left.
ByeClears ==
  [][bye # Null /\ bye' = Null => Live(services'[bye.node]) = {}]_vars

\* "Remove the server belonging to this port": after a DEL_CLIENT the port
\* has no server.
DelClientRemoves ==
  [][rx' # Null /\ rx'.cmd = "DEL_CLIENT" /\ rx'.from.node = rx'.node
       /\ (Local(rx'.node) => rx'.from.port = rx'.port) =>
     \A srv \in AllServers' : ~(srv.node = rx'.node /\ srv.port = rx'.port)]_vars
=============================================================================
