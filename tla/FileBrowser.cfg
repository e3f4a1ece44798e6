\* Six paths with one or two rows each, one filtered mount, one change of a row.
CONSTANTS
  PathOrder <- MCPathOrder
  RowsAt <- MCRowsAt
  NoRow = NoRow
  All = "__all__"
  Mounts <- MCMounts
  DirectoryInclude <- MCInclude
  DirectoryExclude <- MCExclude
  FileRegex <- MCFileRegex
  LargestFileOnly <- MCLargest
  LikeWhole <- MCLikeWhole
  LikePrefix <- MCLikePrefix
  Rest <- MCRest
  Starts <- MCStarts
  MaxEdits = 1
  Headers <- MCHeaders
SPECIFICATION Spec
INVARIANTS StableFilesFound ListingsAgree ReadsAnswered
PROPERTIES OnlyKeptFound
CHECK_DEADLOCK FALSE
