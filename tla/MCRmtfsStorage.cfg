SPECIFICATION Spec
CONSTANTS
  Nodes = {0, 1}
  Partitions = {p, q}
  Paths = {p, q, x}
  MaxCallers = 2
  FileSize = 1
  MaxSize = 4
  MemSize = 2
  Wrap = 4
  Values = {0, 1}
  Zero = 0
  Iovecs <- MCIovecs
  Null = Null
VIEW View
INVARIANTS HandlesConsistent StaysUp OneHandlePerPartition
PROPERTIES IovecComplete HandleOwned
CHECK_DEADLOCK FALSE
