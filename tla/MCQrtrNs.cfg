SPECIFICATION Spec
CONSTANTS
  Null = Null
  Deleted = Deleted
  Nodes <- MCNodes
  LocalNode = 1
  Bcast = 99
  Ports <- MCPorts
  Ctrl = 98
  Services = {1, 2}
  Instances = {1, 2}
  TableSize = 3
  Home <- MCHomeCollide
  LookupIds = {1, 2}
  Packets <- MCAnyPackets
  Reannounce = "never"
VIEW View
PROPERTIES ReplyAgreesWithNotices ObserversInformed NoticesTrue ByeClears DelClientRemoves
