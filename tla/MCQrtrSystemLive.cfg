SPECIFICATION FairSys
CONSTANTS
  Null = Null
  Deleted = Deleted
  Nodes <- MCNodes
  LocalNode = 1
  Bcast = 99
  Ports <- MCPorts
  Ctrl = 98
  Services = {1, 2}
  Instances = {1, 2}
  TableSize = 2
  Home <- MCHome
  LookupIds = {1}
  Packets = {}
  Reannounce = "any"
  Publishers = {1}
  Observers = {2}
  Offered <- MCOffered
  Wanted <- MCWanted
  RemoteNode = 2
  RemoteServers <- MCRemoteNone
  ReusePorts = {FALSE}
  MaxQueue = 2
  MaxInbox <- MCMaxInboxLive
PROPERTIES ServiceFound ServiceForgotten
CHECK_DEADLOCK FALSE
