CONSTANTS
  Rows = 5
  Batch = 3
  BlobRows <- MCBlobRows
  MaxEmpty = 3
SPECIFICATION Spec
INVARIANT NothingLostQuietly
PROPERTY FetchReturns
PROPERTY ImplementsCursor
