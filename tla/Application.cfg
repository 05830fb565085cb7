\* Loop: both loops, four ticks, steps of two, three cycles.  Callbacks: four,
\* that insert, erase and throw but do not invoke the map.  Input: three
\* handlers on either platform.  Libraries: two threads.  Configuration: a
\* parameter with and one without a default, any file.
CONSTANTS
  TimeStep = 2
  MaxFrameTime = 3
  MaxTime = 4
  MaxCycle = 3
  MaxKeys = 4
  MaxDepth = 1
  Platforms = {"glfw", "win32"}
  MaxHandlers = 3
  Thread = {t1, t2}
  LibraryName = {"path", "name"}
  NoObject = NoObject
  Files <- OneFile
  LastParameter = 2
  HasDefault = {2}
  ProgramValues = {"b"}
  CommandLine = {"a", "refused"}
  Component = {"mesh", "image"}
  Entry = {1, 2, 3, 4}
  DynamicEntry = {2, 3, 4}
  ComponentOf <- EntryComponents
  NameOf <- EntryNames
  AliasesOf <- EntryAliases
  MountPoint <- MountPoints
  AssetPath <- AssetPaths
  SourceType = {"file", "zip"}
  Repositories <- SomeRepositories
  MaxApps = 3
  Topics = {"CORE"}
  MaxSinks = 3
SPECIFICATION ApplicationSpec
INVARIANTS
  QuitEndsLoop
  StoredMeansComplete
  NoTimeLost
  NoRunningCallbackFreed
  ErasesTakeEffect
  StateFollowsKeys
  HandlersInOrder
  NamesLeadToEntries
  LoadedOnce
  SettingsReachParameters
  StoredIsRestored
  OneConfiguration
  OwnedByHolders
  TraceFollowsConfiguration
PROPERTIES
  CallsAllOfStart
  StopsEventually
CHECK_DEADLOCK FALSE
