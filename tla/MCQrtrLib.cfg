SPECIFICATION LibSpec
CONSTANTS
  Null = Null
  Deleted = Deleted
  Keys <- MCKeys
  Items = {x, y}
  Grow = 1
  MaxSize = 3
  Overwrite = FALSE
  Numbers = {1, 70000}
  MaxIovec = 2
  BufLens = {6, 7, 13, 14, 20, 21, 23, 24, 25, 38, 39, 45, 51, 52, 256}
  MaxTxn = 1
INVARIANTS RehashHasRoom EveryEntryFound RequestUnderstood EncodedExactly DomainsAnswered
PROPERTIES IsDictionary
