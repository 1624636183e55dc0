SPECIFICATION BundleSpec
CONSTANTS
  \* service
  Paths <- TreePaths
  Calls <- FileCalls
  FirstDisk <- TreeAtFirst
  FirstObj <- ObjectsAtFirst
  Writable <- TreePaths
  MaxCalls = 2
  MaxEdits = 1
  MaxEntries = 5
  PageSize = 1
  Free = Free
  \* script
  Root = "root"
  Dirs = {"root", "d", "e", "n"}
  Files = {"f", "g", "h"}
  Links = {"la", "lx"}
  Names = {"a", "b", "x", "y"}
  To <- LinkTo
  FirstEntry <- EntriesAtFirst
  ScriptCalls <- ScriptSteps
  Tables <- RuleTables
  MaxChanges = 1
  ScriptMaxCalls = 2
  Absent = "no"
  \* edit
  LF = "n"
  CR = "r"
  Blank = " "
  Fold <- Folded
  MinAnchor = 2
  Contents <- Texts
  EditCalls <- ToolCalls
  \* remote
  RemoteFiles = {"f", "g", "h"}
  Batch <- BatchOfAll
  MaxFile = 2
  MaxWrites = 1
  MaxFaults = 2
  Longest = 3
  RemoteAbsent = RemoteAbsent
  \* skills
  Ids = {"p", "b"}
  Builtin = {"b"}
  SkillsCalls = {"i1", "i2", "u"}
  CallKind <- CallKinds
  CallId <- CallIds
  Boot = "boot"
  SkillsMaxFaults = 2
  MaxCrashes = 1
  Nothing = Nothing
INVARIANTS
  NoneMeansNothing
CHECK_DEADLOCK FALSE
