----------------------------- MODULE MCApplication -----------------------------
(***************************************************************************)
(* The parts of a program around its graphics: main() with the loop,       *)
(* listeners, the input of the window, the registry of components, shared  *)
(* libraries, the configuration, trace topics, the mounted assets, and     *)
(* applications written in Lua.  They call each other but share no state,  *)
(* so each behaviour is one of one part.                                   *)
(***************************************************************************)
EXTENDS ApplicationLoop, CallbackMap, SharedLibraries, Configuration,
        LuaApplications

CONSTANTS
  Platforms, MaxHandlers,                            \* of WindowInput
  Component, Entry, DynamicEntry, ComponentOf, NameOf, AliasesOf,
                                                     \* of ComponentRegistry
  MountPoint, AssetPath, SourceType, Repositories,   \* of AssetMounts
  Topics, MaxSinks                                   \* of TraceTopics

\* An entry is of one component.
ASSUME RegistryAssumption ==
  ComponentOf \in [Entry -> Component] /\ DynamicEntry \subseteq Entry

\* Parameters have different names.
ASSUME TraceAssumption ==
  {"MGE", "globally_enabled", "print_to_stdout"} \cap Topics = {}

VARIABLES
  part,
  platform, down, m_pressed, m_modifier, handlers, m_next_key, calls, running,
  called, freedHandler, lost, overlapped,
  m_components, m_implementations, m_aliases, m_pending_implementations,
  keyOf, constructed, m_registered,
  created, repositories, m_mounts, raised, applied, retained, byClient,
  environment, settings, configLoaded, updateNeeded, topics, lateTopics,
  toPrint, tracing

inputVars == <<platform, down, m_pressed, m_modifier, handlers, m_next_key,
               calls, running, called, freedHandler, lost, overlapped>>
registryVars == <<m_components, m_implementations, m_aliases,
                  m_pending_implementations, keyOf, constructed, m_registered>>
assetVars == <<created, repositories, m_mounts, raised, applied, retained,
               byClient>>
traceVars == <<environment, settings, configLoaded, updateNeeded, topics,
               lateTopics, toPrint, tracing>>

Input    == INSTANCE WindowInput WITH freed <- freedHandler
Registry == INSTANCE ComponentRegistry
Assets   == INSTANCE AssetMounts
Trace    == INSTANCE TraceTopics WITH late <- lateTopics

------------------------------------------------------------------------------
(* Values of the constants for the run.                                    *)

\* Its path and the name the search path knows it by.
OneFile == [n \in LibraryName |-> "module"]

\* A static implementation, three dynamic ones of which two have one name, and
\* aliases that are names or that two implementations name.
EntryComponents == <<"mesh", "mesh", "mesh", "image">>
EntryNames == <<"file", "script", "script", "script">>
EntryAliases == <<{"script", "a"}, {"a", "b"}, {""}, {"b"}>>

\* Five values of the parameter asset/repositories: none, a first one, one that
\* fails after a point was mounted, one that mounts further down, one with a
\* wrong mode.
Root == <<>>
MountPoints == {Root, <<1>>, <<1, 2>>}
AssetPaths == {<<1, 2, 1>>, <<2>>}
Repository(type, mode) == [type |-> type, mode |-> mode]
SomeRepositories ==
  {<<>>,
   [p \in {Root} |-> Repository("file", "r")],
   [p \in {Root, <<1>>} |-> Repository(IF p = Root THEN "zip" ELSE "?", "rw")],
   [p \in {Root, <<1, 2>>} |->
      Repository(IF p = Root THEN "zip" ELSE "file", "w")],
   [p \in {<<1>>} |-> Repository("file", "?")]}

------------------------------------------------------------------------------
ApplicationInit ==
  /\ part \in {"loop", "callbacks", "input", "registry", "libraries",
               "configuration", "assets", "lua", "trace"}
  /\ Init /\ MapInit /\ Input!Init /\ Registry!Init /\ LibrariesInit
  /\ ConfigurationInit /\ Assets!Init /\ LuaInit /\ Trace!Init
  /\ part # "input" => platform = CHOOSE p \in Platforms : TRUE
  /\ part # "configuration" =>
       files = [l \in {"config", ".", "named"} |-> NoFile]
  /\ part # "trace" => environment = {} /\ settings = Trace!NoSettings

ApplicationNext ==
  \/ /\ part = "loop" /\ Next
     /\ UNCHANGED <<part, mapVars, inputVars, registryVars, libraryVars,
                    configVars, assetVars, luaVars, traceVars>>
  \/ /\ part = "callbacks" /\ MapNext
     /\ UNCHANGED <<part, vars, inputVars, registryVars, libraryVars,
                    configVars, assetVars, luaVars, traceVars>>
  \/ /\ part = "input" /\ Input!Next
     /\ UNCHANGED <<part, vars, mapVars, registryVars, libraryVars, configVars,
                    assetVars, luaVars, traceVars>>
  \/ /\ part = "registry" /\ Registry!Next
     /\ UNCHANGED <<part, vars, mapVars, inputVars, libraryVars, configVars,
                    assetVars, luaVars, traceVars>>
  \/ /\ part = "libraries" /\ LibrariesNext
     /\ UNCHANGED <<part, vars, mapVars, inputVars, registryVars, configVars,
                    assetVars, luaVars, traceVars>>
  \/ /\ part = "configuration" /\ ConfigurationNext
     /\ UNCHANGED <<part, vars, mapVars, inputVars, registryVars, libraryVars,
                    assetVars, luaVars, traceVars>>
  \/ /\ part = "assets" /\ Assets!Next
     /\ UNCHANGED <<part, vars, mapVars, inputVars, registryVars, libraryVars,
                    configVars, luaVars, traceVars>>
  \/ /\ part = "lua" /\ LuaNext
     /\ UNCHANGED <<part, vars, mapVars, inputVars, registryVars, libraryVars,
                    configVars, assetVars, traceVars>>
  \/ /\ part = "trace" /\ Trace!Next
     /\ UNCHANGED <<part, vars, mapVars, inputVars, registryVars, libraryVars,
                    configVars, assetVars, luaVars>>

ApplicationSpec ==
  /\ ApplicationInit
  /\ [][ApplicationNext]_<<part, vars, mapVars, inputVars, registryVars,
                           libraryVars, configVars, assetVars, luaVars,
                           traceVars>>
  /\ WF_vars(part = "loop" /\ MainThread)

StateFollowsKeys        == Input!StateFollowsKeys
HandlersInOrder         == Input!HandlersInOrder
NamesLeadToEntries      == Registry!NamesLeadToEntries
OneConfiguration        == Assets!OneConfiguration
ResolvesLongestPrefix   == Assets!ResolvesLongestPrefix
TraceFollowsConfiguration == Trace!TraceFollowsConfiguration
==============================================================================
