SPECIFICATION FairSpec
CONSTANTS
  PageSize = 4
  Pages = 8
  ByteBase = 2
  BufSize = 10
  Flash <- MCFlash
  Requests <- MCRequests
INVARIANTS TypeOK BytesMatch
PROPERTIES QuietWhileLoading ImplementsCopy ReadReturns
