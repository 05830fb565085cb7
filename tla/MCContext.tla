------------------------------- MODULE MCContext -------------------------------
(***************************************************************************)
(* A render context and what its draws are executed with: the registry it  *)
(* is found by, its objects, the state of the device, uniform data, sets   *)
(* of descriptors and cached pipelines.  The parts share nothing but the   *)
(* draw, so each behaviour is one of one part.                             *)
(***************************************************************************)
EXTENDS ContextRegistry

CONSTANTS
  Shaders, Programs, Buffers, Linkable, MaxActions,  \* of ContextObjects
  MaxVersion,                               \* and of UniformBlocks
  Backends, MaxDraws, MaxFrames,            \* of DrawLoops
  Blocks, InFlight, MaxUniforms,            \* of UniformBlocks
  SetBlocks, Textures, Slots, MaxSets, MaxSetDraws,  \* of DescriptorSets
  CacheBackends, Addresses, Formats, Targets, MaxThings, MaxEntries
                                            \* of PipelineCaches

\* Addresses are numbers, from 1; there are no backends but these.
ASSUME CachesAssumption ==
  /\ IsFiniteSet(Addresses) /\ Addresses = 1 .. Cardinality(Addresses)
  /\ CacheBackends \subseteq {"vulkan", "dx12", "dx11", "opengl"}

ASSUME LoopsAssumption == Backends \subseteq {"vulkan", "dx12", "dx11", "opengl"}

ASSUME UniformsAssumption == MaxUniforms \in Nat

VARIABLES
  part,
  slot, m_initialized, m_ready, m_needs_link, attached, linked, contents,
  m_prepare_frame_actions, pc, at, wanted, linkCalled, failedAgain, named,
  dropped, careless, freedUse,
  backend, draws, loop, drawn_at, blend_pass_needed, current_scissor, device,
  executed, frames, failed,
  global, matches, version, m_generation, created, block, source, own, moved,
  buffer, batch, inFlight, frameCount, older, drawn, dangling,
  m_descriptor_sets, setContents, bound, last, draws_done,
  api, cacheLinked, vertices, cache, things, reused, relinked, formatsOf,
  cacheDrawn

objectVars == <<slot, m_initialized, m_ready, m_needs_link, attached, linked,
                contents, m_prepare_frame_actions, pc, at, wanted, linkCalled,
                failedAgain, named, dropped, careless, freedUse>>
loopVars == <<backend, draws, loop, drawn_at, blend_pass_needed,
              current_scissor, device, executed, frames, failed>>
uniVars == <<global, matches, version, m_generation, created, block, source,
             own, moved, buffer, batch, inFlight, frameCount, older, drawn,
             dangling>>
setVars == <<m_descriptor_sets, setContents, bound, last, draws_done>>
cacheVars == <<api, cacheLinked, vertices, cache, things, reused, relinked,
               formatsOf, cacheDrawn>>

Objects  == INSTANCE ContextObjects
Loops    == INSTANCE DrawLoops WITH at <- drawn_at
Uniforms == INSTANCE UniformBlocks WITH MaxFrames <- MaxFrames + 1
Sets     == INSTANCE DescriptorSets WITH contents <- setContents
Caches   == INSTANCE PipelineCaches WITH
              Programs <- Addresses, Buffers <- Addresses,
              linked <- cacheLinked, drawn <- cacheDrawn

ContextInit ==
  /\ part \in {"registry", "objects", "loops", "uniforms", "sets", "caches"}
  /\ Init /\ Objects!Init /\ Loops!Init /\ Uniforms!Init /\ Sets!Init
  /\ Caches!Init
  /\ part # "loops" => backend = CHOOSE b \in Backends : TRUE
  /\ part # "caches" =>
       /\ api = CHOOSE b \in CacheBackends : TRUE
       /\ \A v \in Addresses : vertices[v].format = CHOOSE f \in Formats : TRUE

ContextNext ==
  \/ /\ part = "registry" /\ Next
     /\ UNCHANGED <<part, objectVars, loopVars, uniVars, setVars, cacheVars>>
  \/ /\ part = "objects" /\ Objects!Next
     /\ UNCHANGED <<part, vars, loopVars, uniVars, setVars, cacheVars>>
  \/ /\ part = "loops" /\ Loops!Next
     /\ UNCHANGED <<part, vars, objectVars, uniVars, setVars, cacheVars>>
  \/ /\ part = "uniforms" /\ Uniforms!Next
     /\ UNCHANGED <<part, vars, objectVars, loopVars, setVars, cacheVars>>
  \/ /\ part = "sets" /\ Sets!Next
     /\ UNCHANGED <<part, vars, objectVars, loopVars, uniVars, cacheVars>>
  \/ /\ part = "caches" /\ Caches!Next
     /\ UNCHANGED <<part, vars, objectVars, loopVars, uniVars, setVars>>

ContextSpec ==
  ContextInit /\ [][ContextNext]_<<part, vars, objectVars, loopVars, uniVars,
                                   setVars, cacheVars>>

NoFreedUse           == Objects!NoFreedUse
FlagsAreCurrent      == Objects!FlagsAreCurrent
LastDataWins         == Objects!LastDataWins
OwnState             == Loops!OwnState
BlendedOverOpaque    == Loops!BlendedOverOpaque
SyncedWithGlobal     == Uniforms!SyncedWithGlobal
NeverOlder           == Uniforms!NeverOlder
OwnBlockBound        == Sets!OwnBlockBound
PipelineFits         == Caches!PipelineFits
==============================================================================
