\* A source mounted below the root, and paths that lie behind it.
CONSTANTS
  TimeStep = 2
  MaxFrameTime = 3
  MaxTime = 4
  MaxCycle = 3
  MaxKeys = 4
  MaxDepth = 1
  Platforms = {"glfw", "win32"}
  MaxHandlers = 3
  Thread = {t1, t2}
  LibraryName = {"path", "name"}
  NoObject = NoObject
  Files <- OneFile
  LastParameter = 2
  HasDefault = {2}
  ProgramValues = {"b"}
  CommandLine = {"a", "refused"}
  Component = {"mesh", "image"}
  Entry = {1, 2, 3, 4}
  DynamicEntry = {2, 3, 4}
  ComponentOf <- EntryComponents
  NameOf <- EntryNames
  AliasesOf <- EntryAliases
  MountPoint <- MountPoints
  AssetPath <- AssetPaths
  SourceType = {"file", "zip"}
  Repositories <- SomeRepositories
  MaxApps = 1
  Topics = {"CORE"}
  MaxSinks = 3
SPECIFICATION ApplicationSpec
INVARIANTS
  ResolvesLongestPrefix
CHECK_DEADLOCK FALSE
