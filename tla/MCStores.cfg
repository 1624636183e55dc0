SPECIFICATION BundleSpec
CONSTANTS
  \* bytes
  u1 = u1  u2 = u2  u3 = u3  c1 = c1  r1 = r1
  None = None  Store = Store  Client = Client
  Creations = {u1, u2, u3}
  Kind <- Kinds
  Size <- Sizes
  Creator <- OneCreator
  Creators = {c1}
  Readers = {r1}
  MaxBytes = 2
  MaxSources = 2
  \* index
  Dirs = {"top", "sub", "dist"}
  Files = {"f", "g", "h"}
  Root = "top"
  Parent <- ParentOf
  Above <- AboveOf
  SkipDirs = {"dist"}
  Texts = {"x", "y"}
  Absent = Absent
  Unindexed = Unindexed
  MaxChanges = 2
  MaxFaults = 1
  \* upload
  Sent <- SentBytes
  Other <- OtherBytes
  RangeMax = 2
  Checked = FALSE
  MaxCalls = 2
  \* output
  Streams = {"stdout", "stderr"}
  Cap = 2
  PreviewMax = 1
  FullMax = 5
  MaxTotal = 4
INVARIANTS
  QuotaExact GoneForGood
   UploadIsSent 
CHECK_DEADLOCK FALSE
