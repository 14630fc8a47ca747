---------------------------- MODULE QrtrNsProofs ----------------------------
(***************************************************************************)
(* The invariants of the name server, for every set of nodes, ports and    *)
(* packets, every table size and every way the ports' homes collide.       *)
(***************************************************************************)
EXTENDS QrtrNs, HashTableProofs

\* A node's table: every entry lies on the probe path of its port, and holds a
\* server of that node and port.
Good(n, t) ==
  /\ t \in Table
  /\ \A s \in Live(t) : /\ OnPath(t, TableSize, Home[t[s].key], s)
                        /\ t[s].item.node = n
                        /\ t[s].item.port = t[s].key

\* The loop of ctrl_cmd_bye runs on behalf of the BYE received last.
ByeOrigin == bye # Null => rx \in Packets /\ rx.cmd = "BYE" /\ rx.from.node = bye.node

IInv ==
  /\ TypeOK
  /\ \A n \in Nodes : Good(n, services[n])
  /\ ByeOrigin

\* An entry is neither Null nor a tombstone; the other slots are.
LEMMA EntriesAreLive ==
  /\ \A e \in Entries : IsLive(e)
  /\ \A e \in Slots : IsLive(e) <=> e \in Entries
  /\ ~IsLive(Null) /\ ~IsLive(Deleted) /\ Deleted # Null
BY MarkersAssumption, Zenon DEF Entries, Slots, IsLive

\* A port's home is a slot of the table.
LEMMA HomeInTable == TableSize \in Nat /\ \A p \in Ports : Home[p] \in 0 .. TableSize-1
BY TableAssumption, Zenon

\* The table of a new node is good.
LEMMA EmptyIsGood == \A n : Good(n, EmptyTable)
<1>1. EmptyTable \in Table
  BY Zenon DEF EmptyTable, Table, Slots
<1>2. Live(EmptyTable) = {}
  BY Zenon DEF EmptyTable, Live, IsLive
<1> QED BY <1>1, <1>2, Zenon DEF Good

\* server_add keeps a table good, and writes only a slot of its own port.
LEMMA PutKeepsGood ==
  ASSUME NEW n, NEW t, Good(n, t), HasRoom(t),
         NEW srv \in Servers, srv.node = n
  PROVE  LET u == PutServer(t, srv.port, srv)
         IN  /\ Good(n, u)
             /\ \A r \in 0 .. TableSize-1 : u[r] # t[r] =>
                  /\ IsLive(t[r]) => t[r].key = srv.port
                  /\ IsLive(u[r]) => u[r].key = srv.port
<1> DEFINE p == srv.port
           h == Home[p]
           s == HashSlot(t, TableSize, h, p)
           e == [key |-> p, item |-> srv]
           u == [t EXCEPT ![s] = e]
<1>1. /\ TableSize \in Nat /\ p \in Ports /\ h \in 0 .. TableSize-1
      /\ t \in [0 .. TableSize-1 -> Slots]
  BY HomeInTable, Zenon DEF Servers, Good, Table
<1>2. HashSteps(t, TableSize, h, p) # {}
  BY <1>1, SpareSlotForKey, Zenon DEF HasRoom
<1>3. /\ s \in 0 .. TableSize-1
      /\ OnPath(t, TableSize, h, s)
      /\ IsLive(t[s]) => t[s].key = p
  BY <1>1, <1>2, HashSlotProperties, Zenon
<1>4. e \in Entries /\ e.key = p /\ e.item = srv
  BY <1>1, Zenon DEF Entries
<1> HIDE DEF s, e
<1>5. IsLive(e) /\ e # Null
  BY <1>4, EntriesAreLive, Zenon DEF IsLive
<1>6. u \in Table /\ u[s] = e
  BY <1>1, <1>3, <1>4, Zenon DEF Table, Slots
<1>7. \A r \in 0 .. TableSize-1 : r # s => u[r] = t[r]
  BY <1>1, <1>3, Zenon
<1>8. ASSUME NEW r \in Live(u)
      PROVE  /\ OnPath(u, TableSize, Home[u[r].key], r)
             /\ u[r].item.node = n
             /\ u[r].item.port = u[r].key
  <2>0. r \in 0 .. TableSize-1 /\ IsLive(u[r])
    BY <1>6, Zenon DEF Live, Table
  <2>1. CASE r = s
    <3>1. OnPath(u, TableSize, h, s)
      BY <1>1, <1>3, <1>5, StoreKeepsPaths, Zenon
    <3> QED BY <2>1, <3>1, <1>4, <1>6, Zenon
  <2>2. CASE r # s
    <3>1. u[r] = t[r] /\ r \in Live(t)
      BY <2>0, <2>2, <1>1, <1>7, Zenon DEF Live
    <3>2. /\ OnPath(t, TableSize, Home[t[r].key], r)
          /\ t[r].item.node = n
          /\ t[r].item.port = t[r].key
      BY <3>1, Zenon DEF Good
    <3>3. t[r].key \in Ports
      BY <1>1, <2>0, <3>1, EntriesAreLive, Zenon DEF Entries
    <3>4. Home[t[r].key] \in 0 .. TableSize-1
      BY <3>3, HomeInTable, Zenon
    <3>5. OnPath(u, TableSize, Home[t[r].key], r)
      BY <1>1, <1>3, <1>5, <3>2, <3>4, StoreKeepsPaths, Zenon
    <3> QED BY <3>1, <3>2, <3>5, Zenon
  <2> QED BY <2>1, <2>2, Zenon
<1>9. Good(n, u)
  BY <1>6, <1>8, Zenon DEF Good
<1>10. \A r \in 0 .. TableSize-1 : u[r] # t[r] =>
         /\ IsLive(t[r]) => t[r].key = p
         /\ IsLive(u[r]) => u[r].key = p
  BY <1>3, <1>4, <1>6, <1>7, Zenon
<1> QED BY <1>9, <1>10, Zenon DEF PutServer, s, e

\* server_del keeps a table good, and empties only a slot of the port.
LEMMA DelKeepsGood ==
  ASSUME NEW n, NEW t, Good(n, t), NEW p
  PROVE  LET u == ServerDelTable(t, p)
         IN  /\ Good(n, u)
             /\ \A r \in 0 .. TableSize-1 : u[r] # t[r] =>
                  /\ IsLive(t[r]) => t[r].key = p
                  /\ ~IsLive(u[r])
<1>1. CASE ~Has(t, p)
  BY <1>1, Zenon DEF ServerDelTable
<1>2. CASE Has(t, p)
  <2> DEFINE s == FindSlot(t, TableSize, Home[p], p)
             u == [t EXCEPT ![s] = Deleted]
  <2>1. /\ TableSize \in Nat /\ Home[p] \in 0 .. TableSize-1
        /\ t \in [0 .. TableSize-1 -> Slots]
        /\ Found(t, TableSize, Home[p], p)
    BY <1>2, HomeInTable, Zenon DEF Has, Good, Table
  <2>2. s \in 0 .. TableSize-1 /\ IsLive(t[s]) /\ t[s].key = p
    BY <2>1, FindSlotProperties
  <2> HIDE DEF s
  <2>3. u \in Table /\ u[s] = Deleted
    BY <2>1, <2>2, Zenon DEF Table, Slots
  <2>4. \A r \in 0 .. TableSize-1 : r # s => u[r] = t[r]
    BY <2>1, <2>2, Zenon
  <2>5. ASSUME NEW r \in Live(u)
        PROVE  /\ OnPath(u, TableSize, Home[u[r].key], r)
               /\ u[r].item.node = n
               /\ u[r].item.port = u[r].key
    <3>1. r \in 0 .. TableSize-1 /\ r # s
      BY <2>3, EntriesAreLive, Zenon DEF Live, Table
    <3>2. u[r] = t[r] /\ r \in Live(t)
      BY <3>1, <2>1, <2>4, Zenon DEF Live
    <3>3. /\ OnPath(t, TableSize, Home[t[r].key], r)
          /\ t[r].item.node = n
          /\ t[r].item.port = t[r].key
      BY <3>2, Zenon DEF Good
    <3>4. t[r].key \in Ports
      BY <2>1, <3>1, <3>2, EntriesAreLive DEF Entries, Live
    <3>5. Home[t[r].key] \in 0 .. TableSize-1
      BY <3>4, HomeInTable, Zenon
    <3>6. OnPath(u, TableSize, Home[t[r].key], r)
      BY <2>1, <2>2, <3>3, <3>5, EntriesAreLive, StoreKeepsPaths, Zenon
    <3> QED BY <3>2, <3>3, <3>6, Zenon
  <2>6. Good(n, u)
    BY <2>3, <2>5, Zenon DEF Good
  <2>7. \A r \in 0 .. TableSize-1 : u[r] # t[r] =>
          /\ IsLive(t[r]) => t[r].key = p
          /\ ~IsLive(u[r])
    BY <2>2, <2>3, <2>4, EntriesAreLive, Zenon
  <2> QED BY <1>2, <2>6, <2>7, Zenon DEF ServerDelTable, RemovePort, s
<1> QED BY <1>1, <1>2, Zenon

-----------------------------------------------------------------------------
\* What every step but the server's exit may do to the tables: remove a
\* server of port p from, or put one in, the table of node n.
TableStep(n, p) ==
  \/ services' = [services EXCEPT ![n] = ServerDelTable(services[n], p)]
  \/ \E srv \in Servers :
       /\ srv.node = n /\ srv.port = p
       /\ HasRoom(services[n]) /\ MayAnnounce(srv)
       /\ services' = [services EXCEPT ![n] = PutServer(services[n], p, srv)]

\* Whatever a step may do to a table keeps it good.
LEMMA TableStepKeepsGood ==
  ASSUME services \in [Nodes -> Table], NEW n \in Nodes, Good(n, services[n]),
         NEW p, TableStep(n, p)
  PROVE  \E u : /\ Good(n, u)
                /\ services' = [services EXCEPT ![n] = u]
                /\ \A r \in 0 .. TableSize-1 : u[r] # services[n][r] =>
                     /\ IsLive(services[n][r]) => services[n][r].key = p
                     /\ IsLive(u[r]) => u[r].key = p
<1> DEFINE Fits(u) ==
             /\ Good(n, u)
             /\ \A r \in 0 .. TableSize-1 : u[r] # services[n][r] =>
                  /\ IsLive(services[n][r]) => services[n][r].key = p
                  /\ IsLive(u[r]) => u[r].key = p
<1>1. CASE services' = [services EXCEPT ![n] = ServerDelTable(services[n], p)]
  <2>1. Fits(ServerDelTable(services[n], p))
    BY DelKeepsGood, Zenon
  <2> QED BY <1>1, <2>1, Zenon
<1>2. CASE \E srv \in Servers :
             /\ srv.node = n /\ srv.port = p
             /\ HasRoom(services[n]) /\ MayAnnounce(srv)
             /\ services' = [services EXCEPT ![n] = PutServer(services[n], p, srv)]
  <2>1. PICK srv \in Servers :
          /\ srv.node = n /\ srv.port = p /\ HasRoom(services[n])
          /\ services' = [services EXCEPT ![n] = PutServer(services[n], p, srv)]
    BY <1>2, Zenon
  <2>2. Fits(PutServer(services[n], srv.port, srv))
    BY <2>1, PutKeepsGood
  <2> QED BY <2>1, <2>2, Zenon
<1> QED BY <1>1, <1>2, Zenon DEF TableStep

\* How a step may change the tables: not at all, by the server's exit, or by a
\* TableStep for the node, and the port if it is local, that sent the packet.
TablesChange ==
  \/ services' = services
  \/ ~running' /\ services' = [n \in Nodes |-> EmptyTable]
  \/ \E p : /\ bye = Null /\ rx' \in Packets
            /\ Local(rx'.from.node) => p = rx'.from.port
            /\ TableStep(rx'.from.node, p)
  \/ \E p : bye # Null /\ bye.slot < TableSize /\ rx' = rx /\ TableStep(bye.node, p)

OthersTyped ==
  /\ lookups' \subseteq Lookups
  /\ bye' \in {Null} \cup [node : Nodes, slot : 0 .. TableSize]
  /\ running' \in BOOLEAN
  /\ ByeOrigin'

\* Each handler of ctrl_port_fn changes the tables by at most one put or one
\* removal, in the table of the packet's sender.
LEMMA HandleShape ==
  ASSUME IInv, NEW p \in Packets, bye = Null, Handle(p) \/ NoMemory(p)
  PROVE  TablesChange /\ OthersTyped
<1> USE DEF IInv
<1>0. p \in PacketType /\ p.from.node \in Nodes /\ TableSize \in Nat
  BY PacketsAssumption, TableAssumption, Zenon DEF PacketType
<1>1. CASE Hello(p)
  BY <1>1, Zenon DEF Hello, Handles, TablesChange, OthersTyped, TypeOK, ByeOrigin
<1>2. CASE ByeStart(p)
  <2>1. bye' \in [node : Nodes, slot : 0 .. TableSize]
    BY <1>0, <1>2 DEF ByeStart
  <2>2. ByeOrigin'
    BY <1>2, Zenon DEF ByeStart, Handles, ByeOrigin
  <2> QED BY <1>2, <2>1, <2>2, Zenon DEF ByeStart, TablesChange, OthersTyped, TypeOK
<1>3. CASE DelClient(p)
  <2>1. TableStep(p.from.node, p.port)
    BY <1>3, Zenon DEF DelClient, TableStep
  <2>2. TablesChange
    BY <1>3, <2>1, Zenon DEF DelClient, Handles, TablesChange
  <2>3. OthersTyped
    BY <1>3, Zenon DEF DelClient, Handles, OthersTyped, TypeOK, ByeOrigin
  <2> QED BY <2>2, <2>3, Zenon
<1>4. CASE NewServer(p)
  <2> DEFINE at  == Subject(p)
             srv == [service |-> p.service, instance |-> p.instance,
                     node |-> at.node, port |-> at.port]
  <2>1. /\ srv \in Servers /\ srv.node = p.from.node /\ srv.port = at.port
        /\ HasRoom(services[at.node]) /\ MayAnnounce(srv) /\ at.node = p.from.node
        /\ services' = [services EXCEPT ![at.node] = PutServer(services[at.node], at.port, srv)]
    BY <1>4, Zenon DEF NewServer, TypeOK
  <2>2. TableStep(p.from.node, at.port)
    BY <2>1, Zenon DEF TableStep
  <2>3. Local(p.from.node) => at.port = p.from.port
    BY Zenon DEF Subject
  <2>4. TablesChange
    BY <1>4, <2>2, <2>3, Zenon DEF NewServer, Handles, TablesChange
  <2>5. OthersTyped
    BY <1>4, Zenon DEF NewServer, Handles, OthersTyped, TypeOK, ByeOrigin
  <2> QED BY <2>4, <2>5, Zenon
<1>5. CASE DelServer(p)
  <2>1. TableStep(p.from.node, Subject(p).port)
    BY <1>5, Zenon DEF DelServer, TableStep
  <2>2. Local(p.from.node) => Subject(p).port = p.from.port
    BY Zenon DEF Subject
  <2>3. TablesChange
    BY <1>5, <2>1, <2>2, Zenon DEF DelServer, Handles, TablesChange
  <2>4. OthersTyped
    BY <1>5, Zenon DEF DelServer, Handles, OthersTyped, TypeOK, ByeOrigin
  <2> QED BY <2>3, <2>4, Zenon
<1>6. CASE NewLookup(p)
  <2>1. lookups' \subseteq Lookups
    BY <1>0, <1>6 DEF NewLookup, Lookups, PacketType, TypeOK
  <2> QED BY <1>6, <2>1, Zenon DEF NewLookup, Handles, TablesChange, OthersTyped, TypeOK, ByeOrigin
<1>7. CASE DelLookup(p)
  BY <1>7, Zenon DEF DelLookup, Handles, TablesChange, OthersTyped, TypeOK, ByeOrigin
<1>8. CASE Ignore(p) \/ NoMemory(p)
  BY <1>8, Zenon DEF Ignore, NoMemory, Drop, TablesChange, OthersTyped, TypeOK, ByeOrigin
<1> QED BY <1>1, <1>2, <1>3, <1>4, <1>5, <1>6, <1>7, <1>8, Zenon DEF Handle

\* So does each step of the server, its exit apart.
LEMMA StepShape ==
  ASSUME IInv, [Next]_vars
  PROVE  TablesChange /\ OthersTyped
<1> USE DEF IInv
<1>1. CASE Receive
  BY <1>1, HandleShape, Zenon DEF Receive
<1>2. CASE ByeSlot
  <2>1. bye \in [node : Nodes, slot : 0 .. TableSize]
    BY <1>2, Zenon DEF ByeSlot, TypeOK
  <2>2. bye' \in [node : Nodes, slot : 0 .. TableSize] /\ bye'.node = bye.node
    BY <1>2, <2>1, TableAssumption DEF ByeSlot
  <2>3. OthersTyped
    BY <1>2, <2>2, Zenon DEF ByeSlot, OthersTyped, TypeOK, ByeOrigin
  <2>4. TablesChange
    BY <1>2, Zenon DEF ByeSlot, TablesChange, TableStep
  <2> QED BY <2>3, <2>4, Zenon
<1>3. CASE ByeDone
  BY <1>3, Zenon DEF ByeDone, TablesChange, OthersTyped, TypeOK, ByeOrigin
<1>4. CASE Exit
  BY <1>4, Zenon DEF Exit, TablesChange, OthersTyped, TypeOK, ByeOrigin
<1>5. CASE Start
  BY <1>5, Zenon DEF Start, TablesChange, OthersTyped, TypeOK, ByeOrigin
<1>6. CASE UNCHANGED vars
  BY <1>6, Zenon DEF vars, TablesChange, OthersTyped, TypeOK, ByeOrigin
<1> QED BY <1>1, <1>2, <1>3, <1>4, <1>5, <1>6, Zenon DEF Next

-----------------------------------------------------------------------------
\* The tables stay typed and good through a step.
LEMMA StepKeepsGood ==
  ASSUME IInv, TablesChange
  PROVE  services' \in [Nodes -> Table] /\ \A n \in Nodes : Good(n, services'[n])
<1>0. services \in [Nodes -> Table] /\ \A n \in Nodes : Good(n, services[n])
  BY Zenon DEF IInv, TypeOK
<1>1. CASE services' = services
  BY <1>0, <1>1, Zenon
<1>2. CASE services' = [n \in Nodes |-> EmptyTable]
  BY <1>2, EmptyIsGood, Zenon DEF Good
<1>3. CASE \E n \in Nodes : \E p : TableStep(n, p)
  <2>1. PICK n \in Nodes : \E p : TableStep(n, p)
    BY <1>3, Zenon
  <2>2. PICK u : Good(n, u) /\ services' = [services EXCEPT ![n] = u]
    BY <1>0, <2>1, TableStepKeepsGood, Zenon
  <2> QED BY <1>0, <2>2 DEF Good
<1>4. rx' \in Packets => rx'.from.node \in Nodes
  BY PacketsAssumption, Zenon DEF PacketType
<1>5. bye # Null => bye.node \in Nodes
  BY Zenon DEF IInv, TypeOK
<1> QED BY <1>1, <1>2, <1>3, <1>4, <1>5, Zenon DEF TablesChange

\* The server starts with the inductive invariant.
LEMMA InitIInv == Init => IInv
<1> SUFFICES ASSUME Init PROVE IInv
  BY Zenon
<1>1. \A n \in Nodes : Good(n, services[n]) /\ services[n] \in Table
  BY EmptyIsGood, Zenon DEF Init, Good
<1>2. TypeOK
  BY <1>1, Zenon DEF Init, TypeOK
<1> QED BY <1>1, <1>2, Zenon DEF IInv, Init, ByeOrigin

\* Every step keeps the inductive invariant.
LEMMA NextIInv == IInv /\ [Next]_vars => IInv'
<1> SUFFICES ASSUME IInv, [Next]_vars PROVE IInv'
  BY Zenon
<1>1. TablesChange /\ OthersTyped
  BY StepShape, Zenon
<1>2. services' \in [Nodes -> Table] /\ \A n \in Nodes : Good(n, services'[n])
  BY <1>1, StepKeepsGood, Zenon
<1>3. TypeOK'
  BY <1>1, <1>2, Zenon DEF OthersTyped, TypeOK
<1> QED BY <1>1, <1>2, <1>3, Zenon DEF OthersTyped, IInv

\* IInv holds in every reachable state of the server.
THEOREM NsInvariant == Spec => []IInv
BY InitIInv, NextIInv, PTL DEF Spec

\* The server's state keeps its types, for every table size and packet set.
THEOREM NsTypeOK == Spec => []TypeOK
<1>1. IInv => TypeOK
  BY Zenon DEF IInv
<1> QED BY <1>1, NsInvariant, PTL

\* A registered server stays within reach of map_get, whatever its port's
\* collisions and whatever is announced again (server_add, server_del).
THEOREM NsRegisteredIsFound == Spec => []RegisteredIsFound
<1>1. IInv => RegisteredIsFound
  <2> SUFFICES ASSUME IInv, NEW n \in Nodes, NEW s \in Live(services[n])
               PROVE  Has(services[n], services[n][s].key)
    BY Zenon DEF RegisteredIsFound
  <2>1. /\ services[n] \in [0 .. TableSize-1 -> Slots]
        /\ OnPath(services[n], TableSize, Home[services[n][s].key], s)
    BY Zenon DEF IInv, Good, Table
  <2>2. s \in 0 .. TableSize-1 /\ IsLive(services[n][s])
    BY <2>1, Zenon DEF Live
  <2>3. services[n][s].key \in Ports
    BY <2>1, <2>2, EntriesAreLive, Zenon DEF Entries
  <2>4. Found(services[n], TableSize, Home[services[n][s].key], services[n][s].key)
    BY <2>1, <2>2, <2>3, HomeInTable, OnPathIsFound, Zenon
  <2> QED BY <2>3, <2>4, Zenon DEF Has
<1> QED BY <1>1, NsInvariant, PTL

\* A server sits in the table of its own node under its own port (server_add
\* stores it there, and nothing moves it).
THEOREM NsEntryBelongs == Spec => []EntryBelongs
<1>1. IInv => EntryBelongs
  BY Zenon DEF IInv, Good, EntryBelongs
<1> QED BY <1>1, NsInvariant, PTL

\* No packet changes another node's table, and no local socket another
\* socket's entry (the checks of ctrl_cmd_del_client, ctrl_cmd_new_server and
\* ctrl_cmd_del_server), whatever the packets and the tables.
THEOREM NsOnlyOwnerChanges == Spec => OnlyOwnerChanges
<1> DEFINE Owned ==
      running' =>
       \A n \in Nodes : services'[n] # services[n] =>
         /\ rx'.from.node = n
         /\ rx'.cmd # "BYE" /\ Local(n) =>
              \A s \in 0 .. TableSize-1 : services'[n][s] # services[n][s] =>
                 \A e \in {services[n][s], services'[n][s]} :
                    IsLive(e) => e.key = rx'.from.port
<1>1. IInv /\ [Next]_vars => [Owned]_vars
  <2> SUFFICES ASSUME IInv, [Next]_vars, running',
                      NEW n \in Nodes, services'[n] # services[n]
               PROVE  /\ rx'.from.node = n
                      /\ rx'.cmd # "BYE" /\ Local(n) =>
                           \A s \in 0 .. TableSize-1 : services'[n][s] # services[n][s] =>
                              /\ IsLive(services[n][s]) => services[n][s].key = rx'.from.port
                              /\ IsLive(services'[n][s]) => services'[n][s].key = rx'.from.port
    BY DEF Owned
  <2>1. TablesChange /\ services \in [Nodes -> Table] /\ \A m \in Nodes : Good(m, services[m])
    BY StepShape, Zenon DEF IInv, TypeOK
  <2>2. ASSUME NEW m \in Nodes, NEW p, TableStep(m, p)
        PROVE  /\ m = n
               /\ \A s \in 0 .. TableSize-1 : services'[n][s] # services[n][s] =>
                    /\ IsLive(services[n][s]) => services[n][s].key = p
                    /\ IsLive(services'[n][s]) => services'[n][s].key = p
    <3>1. PICK u : /\ services' = [services EXCEPT ![m] = u]
                   /\ \A r \in 0 .. TableSize-1 : u[r] # services[m][r] =>
                        /\ IsLive(services[m][r]) => services[m][r].key = p
                        /\ IsLive(u[r]) => u[r].key = p
      BY <2>1, <2>2, TableStepKeepsGood
    <3>2. m = n /\ services'[n] = u
      BY <2>1, <3>1, Zenon
    <3> QED BY <3>1, <3>2, Zenon
  <2>3. CASE \E p : /\ bye = Null /\ rx' \in Packets
                    /\ Local(rx'.from.node) => p = rx'.from.port
                    /\ TableStep(rx'.from.node, p)
    <3>1. rx'.from.node \in Nodes
      BY <2>3, PacketsAssumption, Zenon DEF PacketType
    <3> QED BY <2>2, <2>3, <3>1, Zenon
  <2>4. CASE \E p : bye # Null /\ bye.slot < TableSize /\ rx' = rx /\ TableStep(bye.node, p)
    <3>1. bye.node \in Nodes /\ rx'.cmd = "BYE" /\ rx'.from.node = bye.node
      BY <2>4, Zenon DEF IInv, TypeOK, ByeOrigin
    <3> QED BY <2>2, <2>4, <3>1, Zenon
  <2> QED BY <2>1, <2>3, <2>4, Zenon DEF TablesChange
<1> QED BY <1>1, NsInvariant, PTL DEF Spec, OnlyOwnerChanges

-----------------------------------------------------------------------------
(* Servers that announce a port once: `Reannounce = "never"'.              *)

\* The slots ctrl_cmd_bye's loop has passed are empty.
ByeSwept ==
  bye # Null => \A s \in 0 .. TableSize-1 :
                  s < bye.slot => ~IsLive(services[bye.node][s])

UInv == UniquePorts /\ ByeSwept

\* server_add of a port that is not announced keeps ports unique; server_del
\* always does.
LEMMA TableStepKeepsUnique ==
  ASSUME IInv, UniquePorts, Reannounce = "never", NEW n \in Nodes, NEW p, TableStep(n, p)
  PROVE  UniquePorts'
<1>0. services \in [Nodes -> Table] /\ \A m \in Nodes : Good(m, services[m])
  BY Zenon DEF IInv, TypeOK
<1>1. CASE services' = [services EXCEPT ![n] = ServerDelTable(services[n], p)]
  <2> DEFINE u == ServerDelTable(services[n], p)
  <2>1. /\ Good(n, u)
        /\ \A r \in 0 .. TableSize-1 : u[r] # services[n][r] => ~IsLive(u[r])
    BY <1>0, DelKeepsGood, Zenon
  <2> HIDE DEF u
  <2>2. \A m \in Nodes : \A s \in Live(services'[m]) :
          s \in Live(services[m]) /\ services'[m][s] = services[m][s]
    BY <1>0, <1>1, <2>1, Zenon DEF Good, Table, Live, u
  <2> QED BY <2>2 DEF UniquePorts
<1>2. CASE \E srv \in Servers :
             /\ srv.node = n /\ srv.port = p
             /\ HasRoom(services[n]) /\ MayAnnounce(srv)
             /\ services' = [services EXCEPT ![n] = PutServer(services[n], p, srv)]
  <2>1. PICK srv \in Servers :
          /\ srv.node = n /\ srv.port = p
          /\ HasRoom(services[n]) /\ MayAnnounce(srv)
          /\ services' = [services EXCEPT ![n] = PutServer(services[n], p, srv)]
    BY <1>2, Zenon
  <2> DEFINE t == services[n]
             e == [key |-> p, item |-> srv]
             s == HashSlot(t, TableSize, Home[p], p)
             u == [t EXCEPT ![s] = e]
  <2>2. t \in Table /\ services'[n] = u /\ \A m \in Nodes \ {n} : services'[m] = services[m]
    BY <1>0, <2>1, Zenon DEF PutServer
  <2>3. \A r \in Live(t) : t[r].key # p
    <3> SUFFICES ASSUME NEW r \in Live(t), t[r].key = p PROVE FALSE
      BY Zenon
    <3>1. t[r].item.node = n /\ t[r].item.port = p
      BY <1>0, Zenon DEF Good
    <3>2. t[r].item \in AllServers
      BY DEF AllServers, ServersIn
    <3> QED BY <2>1, <3>1, <3>2, Zenon DEF MayAnnounce
  <2> HIDE DEF t, s, e
  <2>4. \A r \in Live(u) : r = s \/ (r \in Live(t) /\ u[r] = t[r])
    BY <2>2, Zenon DEF Live, Table
  <2>5. s \in Live(u) => u[s].key = p
    BY <2>2, Zenon DEF Live, Table, e
  <2>6. \A r, q \in Live(u) : u[r].key = u[q].key => r = q
    BY <2>3, <2>4, <2>5, Zenon DEF UniquePorts, t
  <2> QED BY <2>2, <2>6, Zenon DEF UniquePorts
<1> QED BY <1>1, <1>2, Zenon DEF TableStep

\* Every step does so, when no port in use is announced again.
LEMMA StepKeepsUnique ==
  ASSUME IInv, UniquePorts, Reannounce = "never", TablesChange
  PROVE  UniquePorts'
<1>1. CASE services' = services
  BY <1>1, Zenon DEF UniquePorts
<1>2. CASE services' = [n \in Nodes |-> EmptyTable]
  BY <1>2, Zenon DEF UniquePorts, Live, IsLive, EmptyTable
<1>3. rx' \in Packets => rx'.from.node \in Nodes
  BY PacketsAssumption, Zenon DEF PacketType
<1>4. bye # Null => bye.node \in Nodes
  BY Zenon DEF IInv, TypeOK
<1> QED BY <1>1, <1>2, <1>3, <1>4, TableStepKeepsUnique, Zenon DEF TablesChange

\* server_del of the port found in a slot empties that very slot.
LEMMA DelEmptiesSlot ==
  ASSUME NEW n, NEW t, Good(n, t), NEW s \in Live(t),
         \A r, q \in Live(t) : t[r].key = t[q].key => r = q
  PROVE  ~IsLive(ServerDelTable(t, t[s].item.port)[s])
<1> DEFINE p == t[s].key
           f == FindSlot(t, TableSize, Home[p], p)
<1>1. /\ t \in [0 .. TableSize-1 -> Slots] /\ t[s].item.port = p
      /\ OnPath(t, TableSize, Home[p], s) /\ s \in 0 .. TableSize-1 /\ IsLive(t[s])
  BY Zenon DEF Good, Table, Live
<1>2. p \in Ports
  BY <1>1, EntriesAreLive DEF Entries
<1>3. Found(t, TableSize, Home[p], p)
  BY <1>1, <1>2, HomeInTable, OnPathIsFound, Zenon
<1>4. f \in 0 .. TableSize-1 /\ IsLive(t[f]) /\ t[f].key = p
  BY <1>1, <1>2, <1>3, HomeInTable, FindSlotProperties
<1>5. f = s
  BY <1>1, <1>4, Zenon DEF Live
<1>6. ServerDelTable(t, p) = [t EXCEPT ![f] = Deleted]
  BY <1>2, <1>3, Zenon DEF ServerDelTable, Has, RemovePort
<1> QED BY <1>1, <1>5, <1>6, EntriesAreLive, Zenon

\* Every step keeps the invariant with unique ports, and with it that the slots
\* ctrl_cmd_bye has visited are empty.
LEMMA NextUInv ==
  IInv /\ UInv /\ Reannounce = "never" /\ [Next]_vars => UInv'
<1> SUFFICES ASSUME IInv, UInv, Reannounce = "never", [Next]_vars PROVE UInv'
  BY Zenon
<1>1. UniquePorts'
  BY StepShape, StepKeepsUnique, Zenon DEF UInv
<1>2. ByeSwept'
  <2>1. CASE Receive
    <3>1. PICK p \in Packets : Handle(p) \/ NoMemory(p)
      BY <2>1, Zenon DEF Receive
    <3>2. ByeStart(p) \/ bye' = bye
      BY <3>1, Zenon DEF Handle, Hello, DelClient, NewServer, DelServer, NewLookup, DelLookup,
                  Ignore, NoMemory, Drop
    <3>3. CASE ByeStart(p)
      <4>1. bye'.slot = 0
        BY <3>3, Zenon DEF ByeStart
      <4> QED BY <4>1, TableAssumption DEF ByeSwept
    <3>4. CASE bye' = bye
      BY <2>1, <3>4, Zenon DEF Receive, ByeSwept
    <3> QED BY <3>2, <3>3, <3>4, Zenon
  <2>2. CASE ByeSlot
    <3> DEFINE n == bye.node
               k == bye.slot
               t == services[n]
               u == services'[n]
    <3>0. bye \in [node : Nodes, slot : 0 .. TableSize] /\ k < TableSize
      BY <2>2, Zenon DEF ByeSlot, IInv, TypeOK
    <3>1. n \in Nodes /\ k \in Nat /\ k < TableSize /\ bye'.node = n /\ bye'.slot = k + 1
      BY <2>2, <3>0 DEF ByeSlot
    <3>2. Good(n, t) /\ services \in [Nodes -> Table]
      BY <3>1, Zenon DEF IInv, TypeOK
    <3>3. k \in 0 .. TableSize-1
      BY <3>1, TableAssumption
    <3>4. \A r \in 0 .. TableSize-1 : u[r] # t[r] => ~IsLive(u[r])
      <4>1. CASE services' = services
        BY <4>1, Zenon
      <4>2. CASE services' = [services EXCEPT ![n] = ServerDelTable(t, t[k].item.port)]
        <5>1. u = ServerDelTable(t, t[k].item.port)
          BY <3>1, <3>2, <4>2, Zenon
        <5> QED BY <3>2, <5>1, DelKeepsGood
      <4> QED BY <2>2, <4>1, <4>2, Zenon DEF ByeSlot
    <3>5. ~IsLive(u[k])
      <4>1. CASE IsLive(t[k])
        <5>1. k \in Live(t)
          BY <3>2, <3>3, <4>1, Zenon DEF Good, Table, Live
        <5>2. \A r, q \in Live(t) : t[r].key = t[q].key => r = q
          BY <3>1, Zenon DEF UInv, UniquePorts
        <5>3. u = ServerDelTable(t, t[k].item.port)
          BY <2>2, <3>1, <3>2, <4>1, Zenon DEF ByeSlot
        <5> QED BY <3>2, <5>1, <5>2, <5>3, DelEmptiesSlot, Zenon
      <4>2. CASE ~IsLive(t[k])
        BY <3>3, <3>4, <4>2, Zenon
      <4> QED BY <4>1, <4>2, Zenon
    <3>6. \A s \in 0 .. TableSize-1 : s < k => ~IsLive(t[s])
      BY <2>2, Zenon DEF UInv, ByeSwept, ByeSlot
    <3>7. \A s \in 0 .. TableSize-1 : s < k + 1 => ~IsLive(u[s])
      <4> SUFFICES ASSUME NEW s \in 0 .. TableSize-1, s < k + 1 PROVE ~IsLive(u[s])
        BY Zenon
      <4>1. s = k \/ s < k
        BY <3>1
      <4> QED BY <4>1, <3>4, <3>5, <3>6, Zenon
    <3> QED BY <3>1, <3>7, Zenon DEF ByeSwept
  <2>3. CASE ByeDone \/ Exit \/ Start \/ UNCHANGED vars
    BY <2>3, Zenon DEF ByeDone, Exit, Start, vars, UInv, ByeSwept, IInv, TypeOK
  <2> QED BY <2>1, <2>2, <2>3, Zenon DEF Next
<1> QED BY <1>1, <1>2, Zenon DEF UInv

\* The server starts with it.
LEMMA InitUInv == Init => UInv
BY DEF Init, UInv, UniquePorts, ByeSwept, Live, IsLive, EmptyTable

\* Ports stay unique, and the slots a BYE has passed stay empty, as long as no
\* port is announced again.
THEOREM NsUInv == ASSUME Reannounce = "never" PROVE Spec => []UInv
<1>1. IInv /\ UInv /\ [Next]_vars => UInv'
  BY NextUInv, Zenon
<1> QED BY <1>1, InitUInv, NsInvariant, PTL DEF Spec

\* A port is in its node's table once, as long as no port is announced again
\* (server_add on any history of other ports' removals).
THEOREM NsUniquePorts == ASSUME Reannounce = "never" PROVE Spec => []UniquePorts
<1>1. UInv => UniquePorts
  BY Zenon DEF UInv
<1> QED BY <1>1, NsUInv, PTL

\* ctrl_cmd_bye leaves no server of the node, as long as no port is announced
\* again: removing by port empties each slot its loop visits.
THEOREM NsByeClears == ASSUME Reannounce = "never" PROVE Spec => ByeClears
<1> DEFINE Cleared == bye # Null /\ bye' = Null => Live(services'[bye.node]) = {}
<1>1. IInv /\ UInv /\ [Next]_vars => [Cleared]_vars
  <2> SUFFICES ASSUME IInv, UInv, [Next]_vars, bye # Null, bye' = Null
               PROVE  Live(services'[bye.node]) = {}
    BY Zenon DEF Cleared
  <2>1. ByeDone
    <3>0. bye \in [node : Nodes, slot : 0 .. TableSize]
      BY Zenon DEF IInv, TypeOK
    <3>1. ASSUME ByeSlot PROVE FALSE
      <4>1. bye' \in [node : Nodes, slot : 0 .. TableSize]
        BY <3>0, <3>1, TableAssumption DEF ByeSlot
      <4> QED BY <4>1, MarkersAssumption, Zenon
    <3> QED BY <3>1, Zenon DEF Next, Receive, Exit, Start, vars
  <2>2. /\ bye.node \in Nodes /\ bye.slot = TableSize /\ services' = services
        /\ services[bye.node] \in Table
    BY <2>1, Zenon DEF ByeDone, IInv, TypeOK
  <2>3. \A s \in 0 .. TableSize-1 : ~IsLive(services[bye.node][s])
    BY <2>2, TableAssumption DEF UInv, ByeSwept
  <2> QED BY <2>2, <2>3, Zenon DEF Live, Table
<1> QED BY <1>1, NsInvariant, NsUInv, PTL DEF Spec, ByeClears

-----------------------------------------------------------------------------
(* What the observers and peers are told.                                  *)

\* server_del takes at most the server it found from the registered ones, and
\* leaves none of the port where ports are unique.
LEMMA DelServers ==
  ASSUME IInv, NEW n \in Nodes, NEW p,
         services' = [services EXCEPT ![n] = ServerDelTable(services[n], p)]
  PROVE  /\ AllServers' \subseteq AllServers
         /\ \A x \in AllServers \ AllServers' :
              Has(services[n], p) /\ x = ServerAt(services[n], p)
         /\ Has(services[n], p) =>
              LET x == ServerAt(services[n], p) IN x.node = n /\ x.port = p
         /\ UniquePorts => \A x \in AllServers' : ~(x.node = n /\ x.port = p)
<1> DEFINE t == services[n]
           u == ServerDelTable(t, p)
           f == FindSlot(t, TableSize, Home[p], p)
<1>0. services \in [Nodes -> Table] /\ \A m \in Nodes : Good(m, services[m])
  BY Zenon DEF IInv, TypeOK
<1>1. /\ Good(n, u)
      /\ \A r \in 0 .. TableSize-1 : u[r] # t[r] => ~IsLive(u[r])
  BY <1>0, DelKeepsGood, Zenon
<1>2. Has(t, p) => /\ f \in 0 .. TableSize-1 /\ IsLive(t[f]) /\ t[f].key = p
                   /\ f \in Live(t) /\ u[f] = Deleted
                   /\ \A r \in 0 .. TableSize-1 : r # f => u[r] = t[r]
  <2> SUFFICES ASSUME Has(t, p)
               PROVE  /\ f \in 0 .. TableSize-1 /\ IsLive(t[f]) /\ t[f].key = p
                      /\ f \in Live(t) /\ u[f] = Deleted
                      /\ \A r \in 0 .. TableSize-1 : r # f => u[r] = t[r]
    BY Zenon
  <2>1. /\ TableSize \in Nat /\ Home[p] \in 0 .. TableSize-1
        /\ t \in [0 .. TableSize-1 -> Slots]
        /\ Found(t, TableSize, Home[p], p)
    BY <1>0, HomeInTable, Zenon DEF Has, Good, Table
  <2>2. f \in 0 .. TableSize-1 /\ IsLive(t[f]) /\ t[f].key = p
    BY <2>1, FindSlotProperties
  <2>3. u = [t EXCEPT ![f] = Deleted]
    BY Zenon DEF ServerDelTable, RemovePort
  <2> HIDE DEF f, u, t
  <2> QED BY <2>1, <2>2, <2>3, Zenon DEF Live
<1>3. ~Has(t, p) => services' = services
  <2>1. ~Has(t, p) => u = t
    BY Zenon DEF ServerDelTable
  <2> QED BY <1>0, <2>1, Zenon
<1>4. services'[n] = u /\ \A m \in Nodes \ {n} : services'[m] = services[m]
  BY <1>0, Zenon
<1>5. \A m \in Nodes : \A r \in Live(services'[m]) :
        r \in Live(services[m]) /\ services'[m][r] = services[m][r]
  <2> SUFFICES ASSUME NEW m \in Nodes, NEW r \in Live(services'[m])
               PROVE  r \in Live(services[m]) /\ services'[m][r] = services[m][r]
    BY Zenon
  <2>1. CASE m = n
    <3>1. services'[m] = u
      BY <1>4, <2>1, Zenon
    <3> HIDE DEF u, t
    <3>2. r \in 0 .. TableSize-1 /\ IsLive(u[r]) /\ DOMAIN t = 0 .. TableSize-1
      BY <1>0, <1>1, <3>1, Zenon DEF Good, Table, Live, t
    <3>3. u[r] = t[r] /\ r \in Live(t)
      BY <1>1, <3>2, Zenon DEF Live
    <3> QED BY <2>1, <3>1, <3>3, Zenon DEF t
  <2>2. CASE m # n
    BY <1>4, <2>2, Zenon
  <2> QED BY <2>1, <2>2, Zenon
<1>6. AllServers' \subseteq AllServers
  BY <1>5 DEF AllServers, ServersIn
<1>7. ASSUME NEW x \in AllServers, x \notin AllServers'
      PROVE  Has(t, p) /\ x = ServerAt(t, p)
  <2>1. Has(t, p)
    BY <1>3, <1>7, Zenon DEF AllServers
  <2>20. PICK m \in Nodes : \E r \in Live(services[m]) : x = services[m][r].item
    BY <1>7 DEF AllServers, ServersIn
  <2>2. PICK r \in Live(services[m]) : x = services[m][r].item
    BY <2>20, Zenon
  <2>3. r \in 0 .. TableSize-1 /\ IsLive(services[m][r])
    BY <1>0, <2>2, Zenon DEF Live, Table
  <2>4. CASE m = n /\ r = f
    BY <2>1, <2>2, <2>4, Zenon DEF ServerAt
  <2>5. CASE ~(m = n /\ r = f)
    <3>1. services'[m][r] = services[m][r]
      BY <1>2, <1>4, <2>1, <2>3, <2>5, Zenon
    <3>2. DOMAIN services'[m] = 0 .. TableSize-1
      BY <1>0, <1>1, <1>4, Zenon DEF Good, Table
    <3>3. r \in Live(services'[m])
      BY <2>3, <3>1, <3>2, Zenon DEF Live
    <3>4. x \in AllServers'
      BY <2>2, <3>1, <3>3, SMTT(20) DEF AllServers, ServersIn
    <3> QED BY <1>7, <3>4, Zenon
  <2> QED BY <2>1, <2>4, <2>5, Zenon
<1>8. Has(t, p) => ServerAt(t, p).node = n /\ ServerAt(t, p).port = p
  BY <1>0, <1>2, Zenon DEF Good, ServerAt
<1>9. ASSUME UniquePorts, NEW x \in AllServers', x.node = n, x.port = p
      PROVE  FALSE
  <2>10. PICK m \in Nodes : \E r \in Live(services'[m]) : x = services'[m][r].item
    BY <1>9 DEF AllServers, ServersIn
  <2>1. PICK r \in Live(services'[m]) : x = services'[m][r].item
    BY <2>10, Zenon
  <2>2. r \in Live(services[m]) /\ services'[m][r] = services[m][r]
    BY <1>5, <2>1, Zenon
  <2>3. m = n /\ t[r].key = p
    BY <1>0, <1>9, <2>1, <2>2, SMTT(20) DEF Good
  <2>4. /\ t \in [0 .. TableSize-1 -> Slots] /\ r \in 0 .. TableSize-1 /\ IsLive(t[r])
        /\ OnPath(t, TableSize, Home[p], r)
    BY <1>0, <2>2, <2>3, Zenon DEF Good, Live, Table
  <2>5. p \in Ports
    BY <2>3, <2>4, EntriesAreLive, ZenonT(30) DEF Entries
  <2>6. Has(t, p)
    BY <2>3, <2>4, <2>5, HomeInTable, OnPathIsFound, Zenon DEF Has
  <2>7. r = f
    BY <1>2, <1>9, <2>2, <2>3, <2>6 DEF UniquePorts
  <2> QED BY <1>2, <1>4, <2>1, <2>3, <2>6, <2>7, EntriesAreLive, Zenon DEF Live
<1> QED BY <1>6, <1>7, <1>8, <1>9, Zenon

\* server_add registers the server; it takes no other one from the registered
\* ones unless a different server is announced on a port in use.
LEMMA PutServers ==
  ASSUME IInv, NEW n \in Nodes, NEW srv \in Servers, srv.node = n,
         HasRoom(services[n]), MayAnnounce(srv),
         services' = [services EXCEPT ![n] = PutServer(services[n], srv.port, srv)]
  PROVE  /\ srv \in AllServers'
         /\ AllServers' \subseteq AllServers \cup {srv}
         /\ Reannounce # "any" => AllServers \subseteq AllServers'
<1> DEFINE p == srv.port
           t == services[n]
           e == [key |-> p, item |-> srv]
           s == HashSlot(t, TableSize, Home[p], p)
           u == [t EXCEPT ![s] = e]
<1>0. services \in [Nodes -> Table] /\ \A m \in Nodes : Good(m, services[m])
  BY Zenon DEF IInv, TypeOK
<1>1. /\ TableSize \in Nat /\ p \in Ports /\ Home[p] \in 0 .. TableSize-1
      /\ t \in [0 .. TableSize-1 -> Slots]
  BY <1>0, HomeInTable, Zenon DEF Servers, Good, Table
<1>2. HashSteps(t, TableSize, Home[p], p) # {}
  BY <1>1, SpareSlotForKey, Zenon DEF HasRoom
<1>3. s \in 0 .. TableSize-1 /\ (IsLive(t[s]) => t[s].key = p)
  BY <1>1, <1>2, HashSlotProperties, Zenon
<1>4. e \in Entries /\ e.key = p /\ e.item = srv
  BY <1>1, Zenon DEF Entries
<1>5. services'[n] = u /\ \A m \in Nodes \ {n} : services'[m] = services[m]
  BY <1>0, Zenon DEF PutServer
<1> HIDE DEF s, e, t
<1>6. /\ u[s] = e /\ DOMAIN u = 0 .. TableSize-1 /\ IsLive(e)
      /\ \A r \in 0 .. TableSize-1 : r # s => u[r] = t[r]
  BY <1>1, <1>3, <1>4, EntriesAreLive, Zenon
<1>7. srv \in AllServers'
  <2> HIDE DEF u
  <2>1. s \in Live(services'[n]) /\ services'[n][s].item = srv
    BY <1>3, <1>4, <1>5, <1>6, Zenon DEF Live
  <2> QED BY <2>1 DEF AllServers, ServersIn
<1>8. ASSUME NEW x \in AllServers', x # srv PROVE x \in AllServers
  <2>10. PICK m \in Nodes : \E r \in Live(services'[m]) : x = services'[m][r].item
    BY <1>8 DEF AllServers, ServersIn
  <2>1. PICK r \in Live(services'[m]) : x = services'[m][r].item
    BY <2>10, Zenon
  <2>2. r \in Live(services[m]) /\ services[m][r].item = x
    <3>1. CASE m = n
      <4>1. r \in 0 .. TableSize-1 /\ r # s
        BY <1>4, <1>5, <1>6, <1>8, <2>1, <3>1, Zenon DEF Live
      <4> QED BY <1>1, <1>5, <1>6, <2>1, <3>1, <4>1 DEF Live, t
    <3>2. CASE m # n
      BY <1>5, <2>1, <3>2, Zenon
    <3> QED BY <3>1, <3>2, Zenon
  <2> QED BY <2>2 DEF AllServers, ServersIn
<1>9. ASSUME Reannounce # "any", NEW x \in AllServers PROVE x \in AllServers'
  <2>10. PICK m \in Nodes : \E r \in Live(services[m]) : x = services[m][r].item
    BY <1>9, Zenon DEF AllServers, ServersIn
  <2>1. PICK r \in Live(services[m]) : x = services[m][r].item
    BY <2>10, Zenon
  <2>2. CASE m # n
    BY <1>5, <2>1, <2>2, SMTT(20) DEF AllServers, ServersIn
  <2>3. CASE m = n /\ r # s
    <3>1. r \in 0 .. TableSize-1 /\ IsLive(t[r]) /\ t[r].item = x
      BY <1>1, <2>1, <2>3, Zenon DEF Live, t
    <3>2. r \in Live(services'[n]) /\ services'[n][r].item = x
      BY <1>5, <1>6, <2>3, <3>1, Zenon DEF Live
    <3> QED BY <3>2 DEF AllServers, ServersIn
  <2>4. CASE m = n /\ r = s
    <3>1. s \in Live(t) /\ t[s].key = p /\ t[s].item = x
      BY <1>3, <2>1, <2>4, Zenon DEF Live, t
    <3>2. x.node = srv.node /\ x.port = p
      BY <1>0, <3>1, Zenon DEF Good, t
    <3>3. x = srv
      BY <1>9, <3>2, Zenon DEF MayAnnounce
    <3> QED BY <1>7, <3>3, Zenon
  <2> QED BY <2>2, <2>3, <2>4, Zenon
<1> QED BY <1>7, <1>8, <1>9, Zenon

\* What server_del sends is about the server it removed.
LEMMA DelSends ==
  ASSUME NEW t, NEW p, NEW ls, NEW m \in ServerDelSends(t, p, ls)
  PROVE  m.cmd = "DEL_SERVER" /\ m.srv = ServerAt(t, p) /\ Has(t, p)
BY DEF ServerDelSends, Removals, Notices, Msg

\* It tells each of the observers it is given.
LEMMA DelTells ==
  ASSUME NEW t, NEW p, NEW ls, Has(t, p), NEW l \in ls, Observes(l, ServerAt(t, p))
  PROVE  Msg(Addr(LocalNode, l.port), "DEL_SERVER", ServerAt(t, p)) \in ServerDelSends(t, p, ls)
BY Zenon DEF ServerDelSends, Removals, Notices

\* The reply to a NEW_LOOKUP lists exactly what the new lookup will be told of
\* (server_match against the tests of the notice loops), whatever the tables
\* hold and whatever is announced.
THEOREM NsReplyAgreesWithNotices == Spec => ReplyAgreesWithNotices
<1> DEFINE Agrees ==
      \A l \in lookups' \ lookups :
        {m.srv : m \in tx'} = {srv \in AllServers : Observes(l, srv)} \cup {NoServer}
<1>1. [Next]_vars => [Agrees]_vars
  <2> SUFFICES ASSUME [Next]_vars, NEW l \in lookups' \ lookups
               PROVE  {m.srv : m \in tx'} =
                        {srv \in AllServers : Observes(l, srv)} \cup {NoServer}
    BY Zenon DEF Agrees
  <2>1. PICK p \in Packets : NewLookup(p)
    BY Zenon DEF Next, Receive, Handle, Hello, ByeStart, DelClient, NewServer, DelServer, DelLookup,
           Ignore, NoMemory, Drop, ByeSlot, ByeDone, Exit, Start, vars
  <2>2. l.service = p.service /\ l.instance = p.instance
    BY <2>1 DEF NewLookup
  <2>3. \A srv : ServerMatch(srv, p.service, p.instance) <=> Observes(l, srv)
    BY <2>2 DEF ServerMatch, Masked, Observes
  <2> DEFINE Matching == {x \in AllServers : ServerMatch(x, p.service, p.instance)} \cup {NoServer}
  <2>4. tx' = {Msg(p.from, "NEW_SERVER", srv) : srv \in Matching}
    BY <2>1, Zenon DEF NewLookup
  <2>5. Matching = {srv \in AllServers : Observes(l, srv)} \cup {NoServer}
    BY <2>3, Zenon
  <2> HIDE DEF Matching
  <2>6. {m.srv : m \in tx'} = Matching
    <3>1. \A srv : Msg(p.from, "NEW_SERVER", srv).srv = srv
      BY Zenon DEF Msg
    <3>2. \A srv \in Matching : \E m \in tx' : m.srv = srv
      BY <2>4, <3>1, Zenon
    <3>3. \A m \in tx' : m.srv \in Matching
      BY <2>4, <3>1, Zenon
    <3> QED BY <3>2, <3>3, Zenon
  <2> QED BY <2>5, <2>6, Zenon
<1> QED BY <1>1, PTL DEF Spec, ReplyAgreesWithNotices

\* An observer is told of every server that goes and of every one that appears
\* while its lookup stands (server_del, ctrl_cmd_new_server, and the
\* ctrl_cmd_del_client that drops lookups first), unless a different server is
\* announced on a port in use.
THEOREM NsObserversInformed == ASSUME Reannounce # "any" PROVE Spec => ObserversInformed
<1> DEFINE Told(l, cmd, srv) == Msg(Addr(LocalNode, l.port), cmd, srv) \in tx'
           AllTold == \A l \in lookups \cap lookups' :
                        /\ \A srv \in AllServers \ AllServers' :
                             Observes(l, srv) => Told(l, "DEL_SERVER", srv)
                        /\ \A srv \in AllServers' \ AllServers :
                             Observes(l, srv) => Told(l, "NEW_SERVER", srv)
<1>1. IInv /\ [Next]_vars => [running' => AllTold]_vars
  <2> SUFFICES ASSUME IInv, [Next]_vars, running' PROVE AllTold
    BY Zenon
  <2>0. CASE services' = services
    BY <2>0, Zenon DEF AllServers
  <2>1. ASSUME NEW n \in Nodes, NEW p, NEW ls, lookups \cap lookups' \subseteq ls,
               services' = [services EXCEPT ![n] = ServerDelTable(services[n], p)],
               ServerDelSends(services[n], p, ls) \subseteq tx'
        PROVE  AllTold
    <3>1. /\ AllServers' \subseteq AllServers
          /\ \A x \in AllServers \ AllServers' :
               Has(services[n], p) /\ x = ServerAt(services[n], p)
      BY <2>1, DelServers, Zenon
    <3> SUFFICES ASSUME NEW l \in lookups \cap lookups', NEW srv \in AllServers \ AllServers',
                        Observes(l, srv)
                 PROVE  Told(l, "DEL_SERVER", srv)
      BY <3>1, Zenon
    <3>2. Has(services[n], p) /\ srv = ServerAt(services[n], p) /\ l \in ls
      BY <2>1, <3>1, Zenon
    <3> QED BY <2>1, <3>2, DelTells, Zenon
  <2>2. ASSUME NEW p \in Packets, Handle(p) PROVE AllTold
    <3>0. p.from.node \in Nodes
      BY PacketsAssumption, Zenon DEF PacketType
    <3>1. CASE DelClient(p)
      BY <2>1, <3>0, <3>1, Zenon DEF DelClient
    <3>2. CASE DelServer(p)
      BY <2>1, <3>0, <3>2, ZenonT(30) DEF DelServer
    <3>3. CASE NewServer(p)
      <4> DEFINE at  == Subject(p)
                 srv == [service |-> p.service, instance |-> p.instance,
                         node |-> at.node, port |-> at.port]
      <4>1. /\ srv \in Servers /\ srv.node = at.node /\ srv.port = at.port
            /\ HasRoom(services[at.node]) /\ MayAnnounce(srv) /\ at.node \in Nodes
            /\ services' = [services EXCEPT ![at.node] = PutServer(services[at.node], at.port, srv)]
            /\ Notices("NEW_SERVER", srv, lookups) \subseteq tx'
        BY <3>0, <3>3, Zenon DEF NewServer
      <4> HIDE DEF srv, at
      <4>2. AllServers' \subseteq AllServers \cup {srv} /\ AllServers \subseteq AllServers'
        BY <4>1, PutServers, ZenonT(30)
      <4>3. \A l \in lookups : Observes(l, srv) => Told(l, "NEW_SERVER", srv)
        BY <4>1, Zenon DEF Notices
      <4> QED BY <4>2, <4>3, Zenon
    <3>4. CASE services' = services
      BY <2>0, <3>4, Zenon
    <3> QED BY <2>2, <3>1, <3>2, <3>3, <3>4, Zenon
            DEF Handle, Hello, ByeStart, NewLookup, DelLookup, Ignore, Drop
  <2>3. CASE ByeSlot
    <3>1. bye.node \in Nodes
      BY <2>3, Zenon DEF ByeSlot, IInv, TypeOK
    <3> QED BY <2>0, <2>1, <2>3, <3>1, Zenon DEF ByeSlot
  <2>4. CASE ~ByeSlot
    BY <2>0, <2>2, <2>4, Zenon DEF Next, Receive, NoMemory, Drop, ByeDone, Exit, Start, vars
  <2> QED BY <2>3, <2>4, Zenon
<1> QED BY <1>1, NsInvariant, PTL DEF Spec, ObserversInformed

\* What the server sends is true when it is sent: a server it calls new is
\* registered, one it calls removed is not (ctrl_cmd_hello, ctrl_cmd_new_server,
\* ctrl_cmd_new_lookup and every call of server_del), as long as no port is
\* announced again.
THEOREM NsNoticesTrue == ASSUME Reannounce = "never" PROVE Spec => NoticesTrue
<1> DEFINE TrueMsg(m) == /\ m.cmd = "NEW_SERVER" => m.srv \in AllServers' \cup {NoServer}
                         /\ m.cmd = "DEL_SERVER" => m.srv \notin AllServers'
<1>1. IInv /\ UInv /\ [Next]_vars => [\A m \in tx' : TrueMsg(m)]_vars
  <2> SUFFICES ASSUME IInv, UInv, Next, NEW m \in tx' PROVE TrueMsg(m)
    BY Zenon
  <2>1. ASSUME NEW n \in Nodes, NEW p, NEW ls, m \in ServerDelSends(services[n], p, ls),
               services' = [services EXCEPT ![n] = ServerDelTable(services[n], p)]
        PROVE  TrueMsg(m)
    <3> DEFINE x == ServerAt(services[n], p)
    <3>1. m.cmd = "DEL_SERVER" /\ m.srv = x /\ Has(services[n], p)
      BY <2>1, DelSends, Zenon
    <3>2. x.node = n /\ x.port = p /\ \A y \in AllServers' : ~(y.node = n /\ y.port = p)
      BY <2>1, <3>1, DelServers, Zenon DEF UInv
    <3> HIDE DEF x
    <3> QED BY <3>1, <3>2, Zenon
  <2>2. ASSUME NEW t, NEW cmd \in {"BYE", "DEL_CLIENT"}, NEW c, m \in ToLocalServices(t, cmd, c)
        PROVE  TrueMsg(m)
    BY <2>2 DEF ToLocalServices, Msg
  <2>3. ASSUME NEW to, m = Msg(to, "HELLO", NoServer)
        PROVE  TrueMsg(m)
    BY <2>3, Zenon DEF Msg
  <2>4. ASSUME NEW to, NEW srv \in AllServers' \cup {NoServer}, m = Msg(to, "NEW_SERVER", srv)
        PROVE  TrueMsg(m)
    BY <2>4, Zenon DEF Msg
  <2>5. ASSUME NEW p \in Packets, Handle(p) PROVE TrueMsg(m)
    <3>0. p.from.node \in Nodes
      BY PacketsAssumption, Zenon DEF PacketType
    <3>1. CASE Hello(p)
      <4>1. PICK n \in 0 .. TableSize :
              m \in {Msg(p.from, "HELLO", NoServer)} \cup
                    {Msg(p.from, "NEW_SERVER", services[LocalNode][s].item) :
                       s \in {r \in Live(services[LocalNode]) : r < n}}
        BY <3>1, Zenon DEF Hello
      <4>2. CASE m = Msg(p.from, "HELLO", NoServer)
        BY <2>3, <4>2, Zenon
      <4>3. CASE \E s \in Live(services[LocalNode]) :
                   m = Msg(p.from, "NEW_SERVER", services[LocalNode][s].item)
        <5>1. PICK s \in Live(services[LocalNode]) :
                m = Msg(p.from, "NEW_SERVER", services[LocalNode][s].item)
          BY <4>3, Zenon
        <5>2. services[LocalNode][s].item \in AllServers'
          BY <3>1, NodesAssumption DEF Hello, AllServers, ServersIn
        <5> QED BY <2>4, <5>1, <5>2, Zenon
      <4> QED BY <4>1, <4>2, <4>3, Zenon
    <3>2. CASE DelClient(p)
      <4>1. /\ p.node \in Nodes
            /\ services' = [services EXCEPT ![p.node] = ServerDelTable(services[p.node], p.port)]
            /\ tx' = ServerDelSends(services[p.node], p.port, lookups') \cup
                     ToLocalServices(services'[LocalNode], "DEL_CLIENT", Client(p.node, p.port))
        BY <3>0, <3>2, Zenon DEF DelClient
      <4>2. CASE m \in ServerDelSends(services[p.node], p.port, lookups')
        BY <2>1, <4>1, <4>2, Zenon
      <4>3. CASE m \in ToLocalServices(services'[LocalNode], "DEL_CLIENT", Client(p.node, p.port))
        BY <2>2, <4>3, Zenon
      <4> QED BY <4>1, <4>2, <4>3, Zenon
    <3>3. CASE DelServer(p)
      <4> DEFINE at == Subject(p)
      <4>1. /\ at.node \in Nodes
            /\ services' = [services EXCEPT ![at.node] = ServerDelTable(services[at.node], at.port)]
            /\ tx' = ServerDelSends(services[at.node], at.port, lookups)
        BY <3>0, <3>3, Zenon DEF DelServer
      <4> HIDE DEF at
      <4> QED BY <2>1, <4>1, Zenon
    <3>4. CASE NewServer(p)
      <4> DEFINE at  == Subject(p)
                 srv == [service |-> p.service, instance |-> p.instance,
                         node |-> at.node, port |-> at.port]
      <4>1. /\ srv \in Servers /\ srv.node = at.node /\ srv.port = at.port
            /\ HasRoom(services[at.node]) /\ MayAnnounce(srv) /\ at.node \in Nodes
            /\ services' = [services EXCEPT ![at.node] = PutServer(services[at.node], at.port, srv)]
            /\ m = Msg(BcastAddr, "NEW_SERVER", srv) \/ m \in Notices("NEW_SERVER", srv, lookups)
        BY <3>0, <3>4, ZenonT(30) DEF NewServer
      <4> HIDE DEF srv, at
      <4>2. srv \in AllServers'
        BY <4>1, PutServers, Zenon
      <4>3. \E to : m = Msg(to, "NEW_SERVER", srv)
        BY <4>1, Zenon DEF Notices
      <4> QED BY <2>4, <4>2, <4>3, Zenon
    <3>5. CASE NewLookup(p)
      <4>1. AllServers' = AllServers
        BY <3>5, Zenon DEF NewLookup, AllServers
      <4>2. \E srv \in AllServers \cup {NoServer} : m = Msg(p.from, "NEW_SERVER", srv)
        BY <3>5, Zenon DEF NewLookup
      <4> QED BY <2>4, <4>1, <4>2, Zenon
    <3> QED BY <2>5, <3>1, <3>2, <3>3, <3>4, <3>5, Zenon DEF Handle, ByeStart, DelLookup, Ignore, Drop
  <2>6. CASE ByeSlot
    <3>1. bye.node \in Nodes
      BY <2>6, Zenon DEF ByeSlot, IInv, TypeOK
    <3> QED BY <2>1, <2>6, <3>1 DEF ByeSlot
  <2>7. CASE ByeDone
    BY <2>2, <2>7, Zenon DEF ByeDone
  <2>8. CASE Start
    BY <2>3, <2>8, Zenon DEF Start
  <2> QED BY <2>5, <2>6, <2>7, <2>8, Zenon DEF Next, Receive, NoMemory, Drop, Exit
<1> QED BY <1>1, NsInvariant, NsUInv, PTL DEF Spec, NoticesTrue

\* Between its exit and its restart the server holds no table.
StoppedEmpty == ~running => services = [n \in Nodes |-> EmptyTable]

\* Its exit frees every table and nothing is received before the restart.
LEMMA NsStoppedEmpty == Spec => []StoppedEmpty
<1> DEFINE Stopped == StoppedEmpty /\ (~running => bye = Null)
<1>1. Init => Stopped
  BY Zenon DEF Init, StoppedEmpty
<1>2. Stopped /\ [Next]_vars => Stopped'
  <2> SUFFICES ASSUME Stopped, [Next]_vars PROVE Stopped'
    BY Zenon
  <2>1. CASE Receive
    BY <2>1, Zenon DEF Receive, Handle, Hello, ByeStart, DelClient, NewServer, DelServer, NewLookup,
                DelLookup, Ignore, NoMemory, Drop, StoppedEmpty
  <2> QED BY <2>1, Zenon DEF Next, ByeSlot, ByeDone, Exit, Start, vars, StoppedEmpty
<1>3. Stopped => StoppedEmpty
  BY Zenon
<1> QED BY <1>1, <1>2, <1>3, PTL DEF Spec

\* "Remove the server belonging to this port": after a DEL_CLIENT the port has
\* no server (ctrl_cmd_del_client), as long as no port is announced again.
THEOREM NsDelClientRemoves == ASSUME Reannounce = "never" PROVE Spec => DelClientRemoves
<1> DEFINE Removed ==
      rx' # Null /\ rx'.cmd = "DEL_CLIENT" /\ rx'.from.node = rx'.node
        /\ (Local(rx'.node) => rx'.from.port = rx'.port) =>
      \A srv \in AllServers' : ~(srv.node = rx'.node /\ srv.port = rx'.port)
<1>1. IInv /\ UInv /\ StoppedEmpty /\ [Next]_vars => [Removed]_vars
  <2> SUFFICES ASSUME IInv, UInv, StoppedEmpty, Next,
                      rx'.cmd = "DEL_CLIENT", rx'.from.node = rx'.node,
                      Local(rx'.node) => rx'.from.port = rx'.port,
                      NEW srv \in AllServers', srv.node = rx'.node, srv.port = rx'.port
               PROVE  FALSE
    BY Zenon DEF Removed
  <2>1. ASSUME NEW p \in Packets, Handle(p) \/ NoMemory(p) PROVE FALSE
    <3>1. DelClient(p) /\ rx' = p
      BY <2>1, Zenon DEF Handle, Hello, ByeStart, DelClient, NewServer, DelServer, NewLookup,
                  DelLookup, Ignore, Refused, NoMemory, Drop, Handles
    <3>2. p.node \in Nodes /\ srv.node = p.node /\ srv.port = p.port
      BY <3>1, PacketsAssumption, Zenon DEF PacketType, DelClient
    <3>3. services' = [services EXCEPT ![p.node] = ServerDelTable(services[p.node], p.port)]
      BY <3>1, Zenon DEF DelClient
    <3> QED BY <3>2, <3>3, DelServers, ZenonT(30) DEF UInv
  <2>2. CASE ByeSlot \/ ByeDone
    BY <2>2, Zenon DEF ByeSlot, ByeDone, IInv, ByeOrigin
  <2>3. CASE Exit \/ Start
    <3>1. services' = [n \in Nodes |-> EmptyTable]
      BY <2>3, Zenon DEF Exit, Start, StoppedEmpty
    <3> QED BY <3>1, Zenon DEF AllServers, ServersIn, Live, IsLive, EmptyTable
  <2> QED BY <2>1, <2>2, <2>3, Zenon DEF Next, Receive
<1> QED BY <1>1, NsInvariant, NsUInv, NsStoppedEmpty, PTL DEF Spec, DelClientRemoves
=============================================================================
